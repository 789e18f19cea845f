------------------------------ MODULE RtpProofs -----------------------------
(***************************************************************************)
(* Proofs about RTP.  The sender: NalTransport, for every header size,     *)
(* packet size, limit of the transport below and length of a unit,         *)
(* whatever fails and whatever the network loses; RtpReports, for every    *)
(* width of the counters, timestamps and clocks; and Writers below it, for *)
(* any slices, whatever the kernel takes of them.  The receiver:           *)
(* RtpReceiver, for any headers and payloads.  JPEG: JpegTransport, for    *)
(* any frames and packet sizes, whatever fails and is lost.                *)
(***************************************************************************)
EXTENDS NalTransport, JpegTransport, RtpReports, Writers, RtpReceiver, DataLemmas, FiniteSetTheorems

-----------------------------------------------------------------------------
(* NalTransport.                                                           *)

NalPacket == [unit : Nat, fu : BOOLEAN, start : BOOLEAN, end : BOOLEAN,
              from : Nat, to : Nat]

\* Packet i of unit u, also when it is not the last one any more.
Renumber(p, u) == [unit |-> u, fu |-> p.fu, start |-> p.start, end |-> p.end,
                   from |-> p.from, to |-> p.to]
Numbered(len, u, i) == Renumber(Packet(len, i), u)
PacketOf(u, i) == Numbered(units[u], u, i)

\* got is the first k packets of unit u.
Opening(got, u, k) ==
    /\ Len(got) = k
    /\ \A i \in 1 .. k : got[i] = PacketOf(u, i - 1)

\* What the sender is at: the last unit while it is being sent, with the
\* packets before packet_idx gone.
NalTypes ==
    /\ units \in Seq(Nat)
    /\ results \in Seq({0, -1})
    /\ Len(units) \in {Len(results), Len(results) + 1}
    /\ packet_idx \in Nat
    /\ Busy => packet_idx < PacketCount(Unit)
    /\ seq_num \in Nat
    /\ last_seq \in Int /\ last_seq < seq_num
    /\ lost \subseteq 1 .. Len(units)
    /\ rebuilt \in Seq(Seq(NalPacket))

\* The receiver is collecting exactly what has left of the unit in hand.
InStep ==
    /\ partial # NoFragments
    /\ last_seq + 1 = seq_num
    /\ Opening(partial.got, Len(units), packet_idx)

\* The fragments collected are the opening of one unit, without its end.  If no
\* number is missing since and the sender is inside a unit, it is that unit.
PartialInv ==
    partial # NoFragments =>
        /\ \E g \in Seq(NalPacket) : partial = [got |-> g]
        /\ \E u \in 1 .. Len(units) : \E k \in 1 .. PacketCount(units[u]) - 1 :
               Opening(partial.got, u, k)
        /\ last_seq + 1 = seq_num /\ Busy /\ packet_idx > 0 => InStep

\* While no packet of the unit in hand was lost, the receiver follows.
FollowInv == Busy /\ packet_idx > 0 /\ Len(units) \notin lost => InStep

\* What was passed on is all packets of a unit whose result is 0.
RebuiltInv ==
    \A i \in 1 .. Len(rebuilt) : \E u \in 1 .. Len(results) :
        /\ results[u] = 0
        /\ Opening(rebuilt[i], u, PacketCount(units[u]))

\* A unit whose packets all left and arrived was passed on.
ArrivedInv ==
    \A u \in (1 .. Len(results)) \ lost :
        results[u] = 0 => \E i \in 1 .. Len(rebuilt) : rebuilt[i][1].unit = u

NalInv == NalTypes /\ PartialInv /\ FollowInv /\ RebuiltInv /\ ArrivedInv
-----------------------------------------------------------------------------
\* What send_fragmentized_nal_data computes: the full fragments and the rest
\* are the unit, and a unit that does not fit one packet makes two or more.
LEMMA FragmentArith ==
    ASSUME NEW len \in Nat, ~FitsOne(len)
    PROVE  /\ FragmentSize \in Nat /\ FragmentSize > 0
           /\ FragmentSize = MaxNalu - FuHeader
           /\ FullFragments(len) \in Nat
           /\ len % FragmentSize \in 0 .. FragmentSize - 1
           /\ len = FullFragments(len) * FragmentSize + (len % FragmentSize)
           /\ FullFragments(len) >= 1
           /\ len % FragmentSize = 0 => FullFragments(len) >= 2
<1> DEFINE F == FragmentSize
           r == len % F
           c == FullFragments(len)
<1>1. F \in Nat /\ F > 0 /\ F = MaxNalu - FuHeader
  BY NalTransportAssumption DEF FragmentSize
<1>2. len > F
  BY <1>1, NalTransportAssumption DEF FitsOne
<1>3. r \in 0 .. F - 1
  BY <1>1
<1> HIDE DEF F
<1>4. len = F * (len \div F) + r /\ len \div F \in Nat
  BY <1>1, SMTT(30)
<1>5. ASSUME NEW q \in Nat PROVE (F * q) \div F = q
  BY <1>1, SMTT(30)
<1>6. c = len \div F
  <2>1. len - r = F * (len \div F)
    BY <1>1, <1>3, <1>4
  <2>2. QED
    BY <1>4, <1>5, <2>1 DEF FullFragments, F
<1>7. c \in Nat /\ len = F * c + r /\ F * c \in Nat
  <2>1. F * (len \div F) \in Nat
    <3>1. ASSUME NEW a \in Nat, NEW b \in Nat PROVE a * b \in Nat
      BY SMTT(30)
    <3>2. QED
      BY <1>1, <1>4, <3>1
  <2>2. QED
    BY <1>4, <1>6, <2>1
<1> HIDE DEF c, r
<1>8. c >= 1
  <2>1. CASE c = 0
    BY <1>1, <1>2, <1>3, <1>7, <2>1
  <2>2. QED
    BY <1>7, <2>1
<1>9. r = 0 => c >= 2
  <2>1. CASE r = 0 /\ c = 1
    BY <1>1, <1>2, <1>7, <2>1
  <2>2. QED
    BY <1>7, <1>8, <2>1
<1>10. F * c = c * F
  BY <1>1, <1>7
<1>11. QED
  BY <1>1, <1>3, <1>7, <1>8, <1>9, <1>10 DEF F, c, r

LEMMA CountType ==
    ASSUME NEW len \in Nat
    PROVE  /\ PacketCount(len) \in Nat
           /\ PacketCount(len) >= 1
           /\ FitsOne(len) => PacketCount(len) = 1
           /\ ~FitsOne(len) => PacketCount(len) >= 2
<1>1. CASE FitsOne(len)
  BY <1>1 DEF PacketCount
<1>2. CASE ~FitsOne(len)
  <2> DEFINE r == len % FragmentSize
             c == FullFragments(len)
  <2>1. c \in Nat /\ c >= 1 /\ r \in Nat /\ (r = 0 => c >= 2)
    BY <1>2, FragmentArith
  <2>2. PacketCount(len) = c + (IF r # 0 THEN 1 ELSE 0)
    BY <1>2 DEF PacketCount
  <2> HIDE DEF c, r
  <2>3. QED
    BY <1>2, <2>1, <2>2
<1>3. QED
  BY <1>1, <1>2

\* Where fragment i begins and ends.
LEMMA FragmentShape ==
    ASSUME NEW len \in Nat, ~FitsOne(len), NEW i \in 0 .. PacketCount(len) - 1
    PROVE  LET F == FragmentSize
               last == i = PacketCount(len) - 1
           IN  /\ Fragment(len, i) =
                    [unit |-> Len(units), fu |-> TRUE, start |-> i = 0, end |-> last,
                     from |-> i * F, to |-> IF last THEN len ELSE (i + 1) * F]
               /\ i * F \in Nat
               /\ (i + 1) * F = i * F + F
               /\ last => len > i * F /\ len <= i * F + F
<1> DEFINE F == FragmentSize
           r == len % F
           c == FullFragments(len)
           last == i = PacketCount(len) - 1
<1>1. /\ F \in Nat /\ F > 0
      /\ c \in Nat /\ c >= 1
      /\ r \in Nat /\ r < F
      /\ len = c * F + r
  BY FragmentArith
<1>2. PacketCount(len) = c + (IF r # 0 THEN 1 ELSE 0)
  BY DEF PacketCount
<1>3. i \in Nat /\ i <= c /\ (i = c => r # 0)
  BY <1>1, <1>2
<1>4. last <=> (i = c \/ (r = 0 /\ c - 1 = i))
  BY <1>1, <1>2, <1>3
<1> DEFINE end == (i = c) \/ (r = 0 /\ c - 1 = i)
<1>5. Fragment(len, i) =
        [unit |-> Len(units), fu |-> TRUE, start |-> i = 0, end |-> end,
         from |-> i * F, to |-> IF end THEN len ELSE (i + 1) * F]
  BY Zenon DEF Fragment
<1>6. end = last
  BY <1>4
<1>7. i * F \in Nat /\ (i + 1) * F = i * F + F
  <2> HIDE DEF F
  <2>1. QED
    BY <1>1, <1>3, SMTT(30)
<1>8. last => len > i * F /\ len <= i * F + F
  <2>1. CASE i = c
    <3>1. len = i * F + r /\ r > 0
      BY <1>1, <1>3, <2>1
    <3> HIDE DEF F, r, c
    <3>2. QED
      BY <1>1, <1>7, <3>1
  <2>2. CASE r = 0 /\ c = i + 1
    <3>1. len = (i + 1) * F
      BY <1>1, <1>7, <2>2
    <3> HIDE DEF F, r, c
    <3>2. QED
      BY <1>1, <1>7, <3>1
  <2>3. QED
    BY <1>1, <1>3, <1>4, <2>1, <2>2
<1> HIDE DEF end, last
<1>9. QED
  BY <1>5, <1>6, <1>7, <1>8 DEF last

\* The packets of a unit, by their number: the first has the start bit and the
\* octets from 0, the last the end bit and the octets to the end, each begins
\* where the one before ends, and all keep to the size.
LEMMA PacketShape ==
    ASSUME NEW len \in Nat, NEW i \in 0 .. PacketCount(len) - 1, Len(units) \in Nat
    PROVE  LET p == Packet(len, i)
           IN  /\ p \in NalPacket
               /\ p.unit = Len(units)
               /\ p.start <=> i = 0
               /\ p.end <=> i = PacketCount(len) - 1
               /\ p.fu => PacketCount(len) >= 2
               /\ i = 0 => p.from = 0
               /\ i = PacketCount(len) - 1 => p.to = len
               /\ i < PacketCount(len) - 1 => p.to = Packet(len, i + 1).from
               /\ Size(p) <= MaxNalu
<1> DEFINE p == Packet(len, i)
<1>1. CASE FitsOne(len)
  <2>1. p = Whole(len) /\ i = 0 /\ PacketCount(len) = 1
    BY <1>1, CountType DEF Packet
  <2>2. p = [unit |-> Len(units), fu |-> FALSE, start |-> TRUE, end |-> TRUE,
             from |-> 0, to |-> len]
    BY <2>1 DEF Whole
  <2>3. Size(p) <= MaxNalu
    BY <1>1, <2>2, NalTransportAssumption DEF Size, FitsOne
  <2>4. p \in NalPacket
    BY <2>2 DEF NalPacket
  <2>5. QED
    BY <2>1, <2>2, <2>3, <2>4
<1>2. CASE ~FitsOne(len)
  <2> DEFINE F == FragmentSize
             n == PacketCount(len)
             last == i = n - 1
             to == IF last THEN len ELSE (i + 1) * F
  <2>1. n \in Nat /\ n >= 2 /\ i \in Nat
    BY <1>2, CountType
  <2>2. /\ p = [unit |-> Len(units), fu |-> TRUE, start |-> i = 0, end |-> last,
                from |-> i * F, to |-> to]
        /\ i * F \in Nat
        /\ (i + 1) * F = i * F + F
        /\ last => len > i * F /\ len <= i * F + F
    BY <1>2, FragmentShape DEF Packet
  <2>3. F \in Nat /\ F > 0 /\ F = MaxNalu - FuHeader
    BY <1>2, FragmentArith
  <2>4. to \in Nat /\ to - i * F <= F
    <3> DEFINE a == i * F
               b == (i + 1) * F
    <3>1. a \in Nat /\ b = a + F /\ (last => len > a /\ len <= a + F)
      BY <2>2
    <3>2. to = IF last THEN len ELSE b
      OBVIOUS
    <3> HIDE DEF F, n, a, b, last, to
    <3>3. to \in Nat /\ to - a <= F
      BY <2>3, <3>1, <3>2
    <3>4. QED
      BY <3>3 DEF a
  <2>5. (i = 0) \in BOOLEAN /\ last \in BOOLEAN
    OBVIOUS
  <2> HIDE DEF to, last
  <2>6. /\ p.unit = Len(units) /\ p.fu = TRUE /\ p.start = (i = 0) /\ p.end = last
        /\ p.from = i * F /\ p.to = to
    BY <2>2
  <2>7. p \in NalPacket
    BY <2>2, <2>4, <2>5 DEF NalPacket
  <2>8. Size(p) <= MaxNalu
    <3> HIDE DEF F, p
    <3>1. Size(p) = to - i * F + FuHeader
      BY <2>6 DEF Size
    <3>2. QED
      BY <2>2, <2>3, <2>4, <3>1, NalTransportAssumption
  <2>9. i = 0 => p.from = 0
    <3> HIDE DEF F, p
    <3>1. 0 * F = 0
      BY <2>3
    <3>2. QED
      BY <2>6, <3>1
  <2>10. i = n - 1 => p.to = len
    BY <2>6 DEF to, last
  <2>11. i < n - 1 => p.to = Packet(len, i + 1).from
    <3> SUFFICES ASSUME i < n - 1 PROVE p.to = Packet(len, i + 1).from
      OBVIOUS
    <3>1. i + 1 \in 0 .. n - 1
      BY <2>1
    <3>2. Packet(len, i + 1).from = (i + 1) * F
      BY <1>2, <3>1, FragmentShape DEF Packet
    <3>3. to = (i + 1) * F
      BY <2>1 DEF to, last
    <3>4. QED
      BY <2>6, <3>2, <3>3
  <2> HIDE DEF p
  <2>12. QED
    BY <2>1, <2>6, <2>7, <2>8, <2>9, <2>10, <2>11 DEF last, p
<1>3. QED
  BY <1>1, <1>2

-----------------------------------------------------------------------------
\* A packet of the last unit is known by its unit and number.
LEMMA LastPacketOf ==
    ASSUME NEW len \in Nat, NEW u \in Nat, NEW i \in 0 .. PacketCount(len) - 1,
           u = Len(units)
    PROVE  Numbered(len, u, i) = Packet(len, i)
<1>1. Packet(len, i) \in NalPacket /\ Packet(len, i).unit = u
  BY PacketShape
<1>2. ASSUME NEW q \in NalPacket, q.unit = u
      PROVE  Renumber(q, u) = q
  BY <1>2 DEF NalPacket, Renumber
<1>3. QED
  BY <1>1, <1>2, Zenon DEF Numbered

LEMMA NumberedShape ==
    ASSUME NEW len \in Nat, NEW u \in Nat, NEW i \in 0 .. PacketCount(len) - 1,
           Len(units) \in Nat
    PROVE  /\ Numbered(len, u, i) \in NalPacket
           /\ Numbered(len, u, i).unit = u
           /\ i = 0 => Numbered(len, u, i).from = 0
           /\ i = PacketCount(len) - 1 => Numbered(len, u, i).to = len
           /\ i < PacketCount(len) - 1 =>
                  Numbered(len, u, i).to = Numbered(len, u, i + 1).from
<1>1. ASSUME NEW q \in NalPacket
      PROVE  /\ Renumber(q, u) \in NalPacket
             /\ Renumber(q, u).unit = u
             /\ Renumber(q, u).from = q.from
             /\ Renumber(q, u).to = q.to
  BY DEF NalPacket, Renumber
<1>2. Packet(len, i) \in NalPacket
  BY PacketShape
<1>3. /\ Numbered(len, u, i) \in NalPacket
      /\ Numbered(len, u, i).unit = u
      /\ Numbered(len, u, i).from = Packet(len, i).from
      /\ Numbered(len, u, i).to = Packet(len, i).to
  BY <1>1, <1>2, Zenon DEF Numbered
<1>4. ASSUME i < PacketCount(len) - 1
      PROVE  Numbered(len, u, i + 1).from = Packet(len, i + 1).from
  <2>1. i + 1 \in 0 .. PacketCount(len) - 1
    BY <1>4, CountType
  <2>2. Packet(len, i + 1) \in NalPacket
    BY <2>1, PacketShape
  <2>3. QED
    BY <1>1, <2>2, Zenon DEF Numbered
<1>5. /\ i = 0 => Packet(len, i).from = 0
      /\ i = PacketCount(len) - 1 => Packet(len, i).to = len
      /\ i < PacketCount(len) - 1 => Packet(len, i).to = Packet(len, i + 1).from
  BY PacketShape
<1>6. QED
  BY <1>3, <1>4, <1>5

\* The packets of a unit do not change while further units are handed over.
LEMMA PacketOfStays ==
    ASSUME NEW u, NEW i, units'[u] = units[u]
    PROVE  PacketOf(u, i)' = PacketOf(u, i)
<1> DEFINE len == units[u]
<1>1. CASE FitsOne(len)
  <2> DEFINE rec(n) == [unit |-> n, fu |-> FALSE, start |-> TRUE, end |-> TRUE,
                        from |-> 0, to |-> len]
  <2>1. PacketOf(u, i) = Renumber(rec(Len(units)), u)
    BY <1>1, Zenon DEF PacketOf, Numbered, Packet, Whole
  <2>2. PacketOf(u, i)' = Renumber(rec(Len(units')), u)
    BY <1>1, Zenon DEF PacketOf, Numbered, Packet, Whole, FitsOne, Renumber
  <2>3. ASSUME NEW n
        PROVE  Renumber(rec(n), u) = rec(u)
    BY DEF Renumber
  <2>4. QED
    BY <2>1, <2>2, <2>3, Zenon
<1>2. CASE ~FitsOne(len)
  <2> DEFINE count == FullFragments(len)
             end == (i = count) \/ (len % FragmentSize = 0 /\ count - 1 = i)
             to == IF end THEN len ELSE (i + 1) * FragmentSize
             rec(n) == [unit |-> n, fu |-> TRUE, start |-> i = 0, end |-> end,
                        from |-> i * FragmentSize, to |-> to]
  <2>1. PacketOf(u, i) = Renumber(rec(Len(units)), u)
    BY <1>2, Zenon DEF PacketOf, Numbered, Packet, Fragment
  <2>2. PacketOf(u, i)' = Renumber(rec(Len(units')), u)
    BY <1>2, Zenon DEF PacketOf, Numbered, Packet, Fragment, FitsOne, FullFragments, Renumber
  <2>3. ASSUME NEW n
        PROVE  Renumber(rec(n), u) = rec(u)
    <3> HIDE DEF end, to, len
    <3>1. QED
      BY Zenon DEF Renumber
  <2>4. QED
    BY <2>1, <2>2, <2>3, Zenon
<1>3. QED
  BY <1>1, <1>2

-----------------------------------------------------------------------------
\* A record of the receiver is not NoFragments.
LEMMA GotNotNone ==
    ASSUME NEW g
    PROVE  [got |-> g] # NoFragments /\ [got |-> g].got = g
<1>1. DOMAIN [got |-> g] = {"got"} /\ DOMAIN NoFragments = {"none"}
  BY DEF NoFragments
<1>2. "got" # "none"
  OBVIOUS
<1>3. QED
  BY <1>1, <1>2

\* The opening of a unit stays what it is while units are only added.
LEMMA OpeningStays ==
    ASSUME NEW g, NEW u, NEW k, units'[u] = units[u], Opening(g, u, k)
    PROVE  Opening(g, u, k)'
<1>1. \A i : PacketOf(u, i)' = PacketOf(u, i)
  BY PacketOfStays
<1>2. QED
  BY <1>1, Zenon DEF Opening

LEMMA NalInitInv == NalTransportInit => NalInv
<1> SUFFICES ASSUME NalTransportInit PROVE NalInv
  OBVIOUS
<1>1. /\ units = <<>> /\ results = <<>> /\ rebuilt = <<>> /\ lost = {}
      /\ packet_idx = 0 /\ seq_num = 0 /\ last_seq = -1 /\ partial = NoFragments
  BY DEF NalTransportInit
<1>2. Len(units) = 0 /\ Len(results) = 0 /\ Len(rebuilt) = 0
  BY <1>1
<1>3. ~Busy
  BY <1>2 DEF Busy
<1>4. NalTypes
  BY <1>1, <1>2, <1>3 DEF NalTypes
<1>5. QED
  BY <1>1, <1>2, <1>3, <1>4 DEF NalInv, PartialInv, FollowInv, RebuiltInv, ArrivedInv

\* A new unit is handed over: the ones before keep their packets.
LEMMA BeginInv ==
    ASSUME NalInv, NEW len \in Lengths, Begin(len)
    PROVE  NalInv'
<1> DEFINE U == Len(units)
<1>1. /\ units \in Seq(Nat) /\ results \in Seq({0, -1}) /\ U = Len(results)
      /\ U \in Nat /\ len \in Nat
  BY NalTransportAssumption DEF NalInv, NalTypes, Begin, Busy
<1>2. /\ units' \in Seq(Nat) /\ Len(units') = U + 1 /\ units'[U + 1] = len
      /\ \A u \in 1 .. U : units'[u] = units[u]
  BY <1>1 DEF Begin
<1>3. /\ packet_idx' = 0 /\ results' = results /\ seq_num' = seq_num /\ lost' = lost
      /\ last_seq' = last_seq /\ partial' = partial /\ rebuilt' = rebuilt
  BY DEF Begin, recvVars
<1>4. NalTypes'
  <2>1. Unit' = len
    BY <1>2 DEF Unit
  <2>2. PacketCount(Unit)' = PacketCount(len)
    BY <2>1 DEF PacketCount, FitsOne, FullFragments
  <2>3. packet_idx' < PacketCount(len)
    BY <1>1, <1>3, CountType
  <2>4. lost' \subseteq 1 .. Len(units')
    BY <1>1, <1>2, <1>3 DEF NalInv, NalTypes
  <2>5. QED
    BY <1>1, <1>2, <1>3, <2>2, <2>3, <2>4 DEF NalInv, NalTypes
<1>5. PartialInv'
  <2> SUFFICES ASSUME partial # NoFragments
               PROVE  /\ \E g \in Seq(NalPacket) : partial' = [got |-> g]
                      /\ \E u \in 1 .. Len(units') : \E k \in 1 .. PacketCount(units'[u]) - 1 :
                             Opening(partial.got, u, k)'
    BY <1>3 DEF PartialInv
  <2>1. PICK g \in Seq(NalPacket) : partial = [got |-> g]
    BY DEF NalInv, PartialInv
  <2>2. PICK u \in 1 .. U : \E k \in 1 .. PacketCount(units[u]) - 1 :
             Opening(partial.got, u, k)
    BY DEF NalInv, PartialInv
  <2>3. PICK k \in 1 .. PacketCount(units[u]) - 1 : Opening(partial.got, u, k)
    BY <2>2
  <2>4. partial.got = g /\ partial'.got = g
    BY <1>3, <2>1, GotNotNone
  <2>5. Opening(g, u, k)'
    BY <1>2, <2>3, <2>4, OpeningStays
  <2>6. Opening(partial.got, u, k)'
    BY <2>4, <2>5 DEF Opening
  <2>7. u \in 1 .. Len(units') /\ units'[u] = units[u]
    BY <1>1, <1>2
  <2>8. QED
    BY <1>3, <2>1, <2>6, <2>7
<1>6. FollowInv'
  BY <1>3 DEF FollowInv
<1>7. RebuiltInv'
  <2> SUFFICES ASSUME NEW i \in 1 .. Len(rebuilt)
               PROVE  \E u \in 1 .. Len(results) :
                          /\ results[u] = 0
                          /\ Opening(rebuilt[i], u, PacketCount(units[u]))'
    BY <1>3 DEF RebuiltInv
  <2>1. PICK u \in 1 .. Len(results) :
            results[u] = 0 /\ Opening(rebuilt[i], u, PacketCount(units[u]))
    BY DEF NalInv, RebuiltInv
  <2>2. units'[u] = units[u] /\ rebuilt'[i] = rebuilt[i]
    BY <1>1, <1>2, <1>3
  <2>3. \A j : PacketOf(u, j)' = PacketOf(u, j)
    BY <2>2, PacketOfStays
  <2>4. PacketCount(units[u])' = PacketCount(units[u])
    BY <2>2 DEF PacketCount, FitsOne, FullFragments
  <2>5. Opening(rebuilt[i], u, PacketCount(units[u]))'
    BY <2>1, <2>2, <2>3, <2>4, Zenon DEF Opening
  <2>6. QED
    BY <2>1, <2>5
<1>8. ArrivedInv'
  BY <1>3 DEF NalInv, ArrivedInv
<1>9. QED
  BY <1>4, <1>5, <1>6, <1>7, <1>8 DEF NalInv

\* A step that sends keeps the units and adds at most one result; what was
\* passed on before it stays whole.
LEMMA OlderRebuilt ==
    ASSUME NalInv, units' = units,
           results' = results \/ \E r \in {0, -1} : results' = Append(results, r),
           NEW i \in 1 .. Len(rebuilt), rebuilt'[i] = rebuilt[i]
    PROVE  \E u \in 1 .. Len(results') :
               /\ results'[u] = 0
               /\ Opening(rebuilt[i], u, PacketCount(units[u]))'
<1>1. PICK u \in 1 .. Len(results) :
          results[u] = 0 /\ Opening(rebuilt[i], u, PacketCount(units[u]))
  BY DEF NalInv, RebuiltInv
<1>2. \A j : PacketOf(u, j)' = PacketOf(u, j)
  BY PacketOfStays
<1>3. PacketCount(units[u])' = PacketCount(units[u])
  BY DEF PacketCount, FitsOne, FullFragments
<1>4. Opening(rebuilt[i], u, PacketCount(units[u]))'
  BY <1>1, <1>2, <1>3, Zenon DEF Opening
<1>5. u \in 1 .. Len(results') /\ results'[u] = 0
  <2>1. results \in Seq({0, -1})
    BY DEF NalInv, NalTypes
  <2>2. ASSUME NEW r \in {0, -1}, results' = Append(results, r)
        PROVE  u \in 1 .. Len(results') /\ results'[u] = results[u]
    BY <2>1, <2>2
  <2>3. QED
    BY <1>1, <2>2
<1>6. QED
  BY <1>4, <1>5

\* The fragments collected stay the opening of a unit while the receiver gets
\* nothing.
LEMMA OlderPartial ==
    ASSUME NalInv, units' = units, partial' = partial, partial # NoFragments
    PROVE  /\ \E g \in Seq(NalPacket) : partial' = [got |-> g]
           /\ \E u \in 1 .. Len(units') : \E k \in 1 .. PacketCount(units'[u]) - 1 :
                  Opening(partial.got, u, k)'
<1>1. PICK g \in Seq(NalPacket) : partial = [got |-> g]
  BY DEF NalInv, PartialInv
<1>2. PICK u \in 1 .. Len(units) : \E k \in 1 .. PacketCount(units[u]) - 1 :
           Opening(partial.got, u, k)
  BY DEF NalInv, PartialInv
<1>3. PICK k \in 1 .. PacketCount(units[u]) - 1 : Opening(partial.got, u, k)
  BY <1>2
<1>4. partial.got = g /\ partial'.got = g
  BY <1>1, GotNotNone
<1>5. Opening(g, u, k)'
  BY <1>3, <1>4, OpeningStays
<1>6. Opening(partial.got, u, k)'
  BY <1>4, <1>5 DEF Opening
<1>7. QED
  BY <1>1, <1>6

\* An attempt fails: the unit ends, with -1.
LEMMA FailInv ==
    ASSUME NalInv, FailOne
    PROVE  NalInv'
<1> DEFINE U == Len(units)
<1>1. /\ units \in Seq(Nat) /\ results \in Seq({0, -1}) /\ U = Len(results) + 1
      /\ Len(results) \in Nat
  BY DEF NalInv, NalTypes, FailOne, Busy
<1>2. /\ results' = Append(results, -1) /\ packet_idx' = packet_idx
      /\ units' = units /\ seq_num' = seq_num /\ lost' = lost
      /\ last_seq' = last_seq /\ partial' = partial /\ rebuilt' = rebuilt
  BY DEF FailOne, Abandon, recvVars
<1>3. /\ results' \in Seq({0, -1}) /\ Len(results') = U /\ results'[U] = -1
      /\ \A u \in 1 .. Len(results) : results'[u] = results[u]
  BY <1>1, <1>2
<1>4. ~Busy'
  BY <1>1, <1>2, <1>3 DEF Busy
<1>5. NalTypes'
  BY <1>1, <1>2, <1>3, <1>4 DEF NalInv, NalTypes
<1>6. PartialInv'
  BY <1>2, <1>4, OlderPartial DEF PartialInv
<1>7. FollowInv'
  BY <1>4 DEF FollowInv
<1>8. RebuiltInv'
  BY <1>2, OlderRebuilt DEF RebuiltInv
<1>9. ArrivedInv'
  <2> SUFFICES ASSUME NEW u \in (1 .. Len(results')) \ lost, results'[u] = 0
               PROVE  \E i \in 1 .. Len(rebuilt) : rebuilt[i][1].unit = u
    BY <1>2 DEF ArrivedInv
  <2>1. u # U /\ u \in 1 .. Len(results)
    BY <1>1, <1>3
  <2>2. QED
    BY <1>3, <2>1 DEF NalInv, ArrivedInv
<1>10. QED
  BY <1>5, <1>6, <1>7, <1>8, <1>9 DEF NalInv

\* What a step that sends a packet does on the sender's side.
LEMMA SendFacts ==
    ASSUME NalInv, SendOne
    PROVE  /\ units \in Seq(Nat) /\ results \in Seq({0, -1})
           /\ Len(units) = Len(results) + 1 /\ Len(results) \in Nat
           /\ Unit \in Nat /\ Unit = units[Len(units)]
           /\ PacketCount(Unit) \in Nat
           /\ packet_idx \in 0 .. PacketCount(Unit) - 1
           /\ units' = units
           /\ seq_num' = seq_num + 1 /\ packet_idx' = packet_idx + 1
           /\ \/ /\ packet_idx + 1 < PacketCount(Unit) /\ results' = results
                 /\ Busy'
              \/ /\ packet_idx + 1 = PacketCount(Unit) /\ results' = Append(results, 0)
                 /\ results'[Len(units)] = 0
                 /\ ~Busy'
           /\ \/ lost' = lost \cup {Len(units)} /\ UNCHANGED recvVars
              \/ lost' = lost /\ Receive(Packet(Unit, packet_idx), seq_num)
           /\ (lost' \subseteq 1 .. Len(units) /\ last_seq' < seq_num' /\ last_seq' \in Int
                 /\ rebuilt' \in Seq(Seq(NalPacket)) => NalTypes')
<1>1. /\ units \in Seq(Nat) /\ results \in Seq({0, -1}) /\ Len(units) = Len(results) + 1
      /\ Len(results) \in Nat /\ packet_idx \in Nat
      /\ seq_num \in Nat
  BY DEF NalInv, NalTypes, SendOne, Busy
<1>2. Unit \in Nat /\ Unit = units[Len(units)]
  BY <1>1 DEF Unit
<1>3. PacketCount(Unit) \in Nat
  BY <1>2, CountType
<1>4. /\ units' = units /\ seq_num' = seq_num + 1 /\ packet_idx' = packet_idx + 1
      /\ packet_idx < PacketCount(Unit)
      /\ results' = IF packet_idx + 1 = PacketCount(Unit) THEN Append(results, 0) ELSE results
      /\ \/ lost' = lost \cup {Len(units)} /\ UNCHANGED recvVars
         \/ lost' = lost /\ Receive(Packet(Unit, packet_idx), seq_num)
  BY Zenon DEF SendOne, NextSeq
<1>5. PacketCount(Unit)' = PacketCount(Unit)
  BY <1>4 DEF Unit, PacketCount, FitsOne, FullFragments
<1>6. CASE packet_idx + 1 < PacketCount(Unit)
  <2>1. results' = results
    BY <1>1, <1>3, <1>4, <1>6
  <2>2. Busy'
    BY <1>1, <1>4, <2>1 DEF Busy
  <2>3. ASSUME lost' \subseteq 1 .. Len(units), last_seq' < seq_num', last_seq' \in Int,
               rebuilt' \in Seq(Seq(NalPacket))
        PROVE  NalTypes'
    BY <1>1, <1>4, <1>5, <1>6, <2>1, <2>3 DEF NalTypes
  <2>4. QED
    BY <1>1, <1>2, <1>3, <1>4, <1>6, <2>1, <2>2, <2>3
<1>7. CASE packet_idx + 1 = PacketCount(Unit)
  <2>1. /\ results' = Append(results, 0)
        /\ results' \in Seq({0, -1}) /\ Len(results') = Len(units)
        /\ results'[Len(units)] = 0
    BY <1>1, <1>4, <1>7
  <2>2. ~Busy'
    BY <1>1, <1>4, <2>1 DEF Busy
  <2>3. ASSUME lost' \subseteq 1 .. Len(units), last_seq' < seq_num', last_seq' \in Int,
               rebuilt' \in Seq(Seq(NalPacket))
        PROVE  NalTypes'
    BY <1>1, <1>4, <2>1, <2>2, <2>3 DEF NalTypes
  <2>4. QED
    BY <1>1, <1>2, <1>3, <1>4, <1>7, <2>1, <2>2, <2>3
<1>8. QED
  BY <1>1, <1>3, <1>4, <1>6, <1>7

\* The network loses the packet: the next number leaves a gap.
LEMMA LostInv ==
    ASSUME NalInv, SendOne, lost' = lost \cup {Len(units)}, UNCHANGED recvVars
    PROVE  NalInv'
<1> DEFINE U == Len(units)
<1>1. /\ U \in Nat /\ U = Len(results) + 1 /\ units' = units
      /\ results \in Seq({0, -1}) /\ Len(results) \in Nat
      /\ seq_num' = seq_num + 1
      /\ results' = results \/ results' = Append(results, 0)
  BY SendFacts
<1>2. last_seq' = last_seq /\ partial' = partial /\ rebuilt' = rebuilt
  BY DEF recvVars
<1>3. seq_num \in Nat /\ last_seq \in Int /\ last_seq < seq_num
      /\ lost \subseteq 1 .. U /\ rebuilt \in Seq(Seq(NalPacket))
  BY DEF NalInv, NalTypes
<1>4. NalTypes'
  <2>1. lost' \subseteq 1 .. U /\ last_seq' < seq_num' /\ last_seq' \in Int
        /\ rebuilt' \in Seq(Seq(NalPacket))
    <3>1. U \in 1 .. U
      BY <1>1
    <3>2. lost' \subseteq 1 .. U
      BY <1>3, <3>1
    <3>3. last_seq' < seq_num' /\ last_seq' \in Int
      BY <1>1, <1>2, <1>3
    <3>4. QED
      BY <1>2, <1>3, <3>2, <3>3
  <2>2. QED
    BY <2>1, SendFacts
<1>5. last_seq' + 1 # seq_num'
  BY <1>1, <1>2, <1>3
<1>6. PartialInv'
  BY <1>1, <1>2, <1>5, OlderPartial DEF PartialInv
<1>7. FollowInv'
  BY <1>1 DEF FollowInv
<1>8. RebuiltInv'
  BY <1>1, <1>2, OlderRebuilt DEF RebuiltInv
<1>9. ArrivedInv'
  <2> SUFFICES ASSUME NEW u \in (1 .. Len(results')) \ lost', results'[u] = 0
               PROVE  \E i \in 1 .. Len(rebuilt) : rebuilt[i][1].unit = u
    BY <1>2 DEF ArrivedInv
  <2>1. u # U /\ u \notin lost
    OBVIOUS
  <2>2. u \in 1 .. Len(results) /\ results[u] = 0
    BY <1>1, <2>1
  <2>3. QED
    BY <2>1, <2>2 DEF NalInv, ArrivedInv
<1>10. QED
  BY <1>4, <1>6, <1>7, <1>8, <1>9 DEF NalInv

\* `have` of the receiver when packet p with number n arrives.
Have(p, n) ==
    IF p.start THEN <<p>>
    ELSE IF partial # NoFragments /\ n = last_seq + 1 THEN Append(partial.got, p) ELSE <<>>

\* If the receiver has anything after packet packet_idx, it is the opening of
\* the unit in hand up to and with that packet; and it has, unless one was lost.
LEMMA HaveOpening ==
    ASSUME NalInv, SendOne,
           NEW h, h = Have(Packet(Unit, packet_idx), seq_num)
    PROVE  /\ Len(units) \notin lost => h # <<>>
           /\ h # <<>> => /\ h \in Seq(NalPacket)
                          /\ Opening(h, Len(units), packet_idx + 1)
<1> DEFINE U == Len(units)
           p == Packet(Unit, packet_idx)
<1>1. /\ U \in Nat /\ U >= 1 /\ Unit \in Nat /\ Unit = units[U]
      /\ packet_idx \in 0 .. PacketCount(Unit) - 1
      /\ PacketCount(Unit) \in Nat
  BY SendFacts
<1>2. p \in NalPacket /\ (p.start <=> packet_idx = 0)
  BY <1>1, PacketShape
<1>3. p = PacketOf(U, packet_idx)
  BY <1>1, LastPacketOf DEF PacketOf
<1>4. packet_idx \in Nat
  BY <1>1
<1> HIDE DEF p, U
<1>5. CASE packet_idx = 0
  <2>1. h = <<p>>
    BY <1>2, <1>5 DEF Have, p
  <2>2. Opening(h, U, 1)
    <3>1. Len(h) = 1 /\ h[1] = p
      BY <2>1
    <3>2. \A i \in 1 .. 1 : h[i] = PacketOf(U, i - 1)
      BY <1>3, <1>5, <3>1
    <3>3. QED
      BY <3>1, <3>2 DEF Opening
  <2>3. h # <<>> /\ h \in Seq(NalPacket)
    BY <1>2, <2>1
  <2>4. QED
    BY <1>5, <2>2, <2>3 DEF U
<1>6. CASE packet_idx # 0
  <2>1. Busy /\ packet_idx > 0
    BY <1>4, <1>6 DEF SendOne
  <2>2. CASE partial # NoFragments /\ seq_num = last_seq + 1
    <3>1. h = Append(partial.got, p)
      BY <1>2, <1>6, <2>2 DEF Have, p
    <3>2. InStep
      BY <2>1, <2>2 DEF NalInv, PartialInv
    <3>3. PICK g \in Seq(NalPacket) : partial = [got |-> g]
      BY <2>2 DEF NalInv, PartialInv
    <3>4. partial.got = g
      BY <3>3, GotNotNone
    <3>5. Len(g) = packet_idx /\ \A i \in 1 .. packet_idx : g[i] = PacketOf(U, i - 1)
      BY <3>2, <3>4 DEF InStep, Opening, U
    <3>6. /\ h \in Seq(NalPacket) /\ Len(h) = packet_idx + 1
          /\ h[packet_idx + 1] = p
          /\ \A i \in 1 .. packet_idx : h[i] = g[i]
      BY <1>2, <1>4, <3>1, <3>4, <3>5
    <3>7. ASSUME NEW i \in 1 .. packet_idx + 1
          PROVE  h[i] = PacketOf(U, i - 1)
      <4>1. CASE i = packet_idx + 1
        <5>1. i - 1 = packet_idx
          BY <1>4, <4>1
        <5>2. QED
          BY <1>3, <3>6, <4>1, <5>1
      <4>2. CASE i # packet_idx + 1
        <5>1. i \in 1 .. packet_idx
          BY <1>4, <4>2
        <5>2. QED
          BY <3>5, <3>6, <5>1
      <4>3. QED
        BY <4>1, <4>2
    <3>8. Opening(h, U, packet_idx + 1)
      BY <3>6, <3>7 DEF Opening
    <3>9. h # <<>>
      BY <1>4, <3>6
    <3>10. QED
      BY <3>6, <3>8, <3>9 DEF U
  <2>3. CASE ~(partial # NoFragments /\ seq_num = last_seq + 1)
    <3>1. h = <<>>
      BY <1>2, <1>6, <2>3 DEF Have, p
    <3>2. ~InStep
      BY <2>3 DEF InStep
    <3>3. U \in lost
      BY <2>1, <3>2 DEF NalInv, FollowInv, U
    <3>4. QED
      BY <3>1, <3>3 DEF U
  <2>4. QED
    BY <2>2, <2>3
<1>7. QED
  BY <1>5, <1>6

\* The packet arrives.
LEMMA ReceivedInv ==
    ASSUME NalInv, SendOne, lost' = lost, Receive(Packet(Unit, packet_idx), seq_num),
           NEW h, h = Have(Packet(Unit, packet_idx), seq_num),
           NEW U, U = Len(units),
           NEW k, k = packet_idx + 1
    PROVE  NalInv'
<1> DEFINE p == Packet(Unit, packet_idx)
<1>1. /\ U \in Nat /\ U = Len(results) + 1 /\ units' = units
      /\ results \in Seq({0, -1}) /\ Len(results) \in Nat
      /\ Unit \in Nat /\ Unit = units[U] /\ PacketCount(Unit) \in Nat
      /\ packet_idx \in 0 .. PacketCount(Unit) - 1
      /\ packet_idx' = k
      /\ seq_num' = seq_num + 1
  BY SendFacts
<1>2. p.end <=> k = PacketCount(Unit)
  <2>1. p.end <=> packet_idx = PacketCount(Unit) - 1
    BY <1>1, PacketShape
  <2>2. QED
    BY <1>1, <2>1
<1>3. \/ /\ ~p.end /\ results' = results /\ Busy'
         /\ k < PacketCount(Unit)
      \/ /\ p.end /\ results' = Append(results, 0) /\ ~Busy' /\ results'[U] = 0
         /\ k = PacketCount(Unit)
  <2>1. \/ /\ k < PacketCount(Unit) /\ results' = results /\ Busy'
        \/ /\ k = PacketCount(Unit) /\ results' = Append(results, 0)
           /\ results'[U] = 0 /\ ~Busy'
    BY SendFacts
  <2>2. k < PacketCount(Unit) => k # PacketCount(Unit)
    BY <1>1
  <2> HIDE DEF p
  <2>3. QED
    BY <1>2, <2>1, <2>2, Zenon
<1>4. /\ last_seq' = seq_num
      /\ IF p.end /\ h # <<>>
         THEN partial' = NoFragments /\ rebuilt' = Append(rebuilt, h)
         ELSE /\ partial' = IF h = <<>> THEN NoFragments ELSE [got |-> h]
              /\ rebuilt' = rebuilt
  BY Zenon DEF Receive, Have
<1>5. /\ U \notin lost => h # <<>>
      /\ h # <<>> => h \in Seq(NalPacket) /\ Opening(h, U, k)
  BY HaveOpening
<1> HIDE DEF p
<1>6. /\ seq_num \in Nat /\ lost \subseteq 1 .. U /\ rebuilt \in Seq(Seq(NalPacket))
  BY DEF NalInv, NalTypes
<1>7. NalTypes'
  <2>1. rebuilt' \in Seq(Seq(NalPacket))
    <3>1. CASE p.end /\ h # <<>>
      <4>1. rebuilt' = Append(rebuilt, h) /\ h \in Seq(NalPacket)
        BY <1>4, <1>5, <3>1
      <4>2. ASSUME NEW S, NEW s \in Seq(S), NEW x \in S PROVE Append(s, x) \in Seq(S)
        OBVIOUS
      <4>3. QED
        BY <1>6, <4>1, <4>2
    <3>2. CASE ~(p.end /\ h # <<>>)
      BY <1>4, <1>6, <3>2
    <3>3. QED
      BY <3>1, <3>2
  <2>2. last_seq' < seq_num' /\ last_seq' \in Int
    BY <1>1, <1>4, <1>6
  <2>3. QED
    BY <1>6, <2>1, <2>2, SendFacts
<1>8. h # <<>> => Opening(h, U, k)'
  BY <1>1, <1>5, OpeningStays
<1>9. k \in Nat /\ k >= 1 /\ U \in 1 .. Len(units')
  <2>1. packet_idx \in Nat
    BY DEF NalInv, NalTypes
  <2>2. U >= 1
    BY <1>1
  <2>3. Len(units') = U
    BY <1>1
  <2>4. QED
    BY <1>1, <2>1, <2>2, <2>3
<1>10. h # <<>> => Len(h) = k /\ h[1] = PacketOf(U, 0)
  BY <1>5, <1>9 DEF Opening
<1>11. PacketCount(units[U])' = PacketCount(Unit)
  BY <1>1 DEF PacketCount, FitsOne, FullFragments
<1>12. PartialInv'
  <2> SUFFICES ASSUME partial' # NoFragments PROVE PartialInv'
    BY DEF PartialInv
  <2>1. ~p.end /\ h # <<>> /\ partial' = [got |-> h]
    BY <1>4
  <2>2. partial'.got = h
    BY <2>1, GotNotNone
  <2>3. k \in 1 .. PacketCount(units[U])' - 1
    BY <1>1, <1>3, <1>9, <1>11, <2>1
  <2>4. Opening(partial.got, U, k)'
    BY <1>8, <2>1, <2>2 DEF Opening
  <2>5. InStep'
    <3>1. Opening(partial.got, Len(units), packet_idx)'
      BY <1>1, <2>4
    <3>2. last_seq' + 1 = seq_num'
      BY <1>1, <1>4
    <3>3. QED
      BY <3>1, <3>2 DEF InStep
  <2>6. h \in Seq(NalPacket)
    BY <1>5, <2>1
  <2>7. QED
    BY <1>9, <2>1, <2>3, <2>4, <2>5, <2>6 DEF PartialInv
<1>13. FollowInv'
  <2> SUFFICES ASSUME Busy', Len(units') \notin lost' PROVE InStep'
    BY DEF FollowInv
  <2>1. U \notin lost /\ ~p.end
    BY <1>1, <1>3
  <2>2. h # <<>> /\ partial' = [got |-> h]
    BY <1>4, <1>5, <2>1
  <2>3. partial' # NoFragments /\ partial'.got = h
    BY <2>2, GotNotNone
  <2>4. Opening(partial.got, Len(units), packet_idx)'
    BY <1>1, <1>8, <2>2, <2>3 DEF Opening
  <2>5. last_seq' + 1 = seq_num'
    BY <1>1, <1>4
  <2>6. QED
    BY <2>3, <2>4, <2>5 DEF InStep
<1>14. results' = results \/ results' = Append(results, 0)
  BY <1>3
<1>15. RebuiltInv'
  <2>1. ASSUME NEW i \in 1 .. Len(rebuilt), rebuilt'[i] = rebuilt[i]
        PROVE  \E u \in 1 .. Len(results') :
                   /\ results'[u] = 0
                   /\ Opening(rebuilt[i], u, PacketCount(units[u]))'
    BY <1>1, <1>14, <2>1, OlderRebuilt
  <2>2. CASE p.end /\ h # <<>>
    <3>1. /\ Len(rebuilt') = Len(rebuilt) + 1
          /\ Len(rebuilt) \in Nat
          /\ rebuilt'[Len(rebuilt) + 1] = h
          /\ \A i \in 1 .. Len(rebuilt) : rebuilt'[i] = rebuilt[i]
      BY <1>4, <1>5, <1>6, <2>2
    <3>2. results'[U] = 0 /\ k = PacketCount(Unit) /\ results' = Append(results, 0)
      BY <1>3, <2>2
    <3>3. U \in 1 .. Len(results')
      BY <1>1, <3>2
    <3>4. Opening(h, U, PacketCount(units[U]))'
      BY <1>8, <1>11, <2>2, <3>2 DEF Opening
    <3>5. ASSUME NEW i \in 1 .. Len(rebuilt')
          PROVE  \E u \in 1 .. Len(results') :
                     /\ results'[u] = 0
                     /\ Opening(rebuilt[i], u, PacketCount(units[u]))'
      <4>1. CASE i \in 1 .. Len(rebuilt)
        BY <2>1, <3>1, <4>1
      <4>2. CASE i = Len(rebuilt) + 1
        <5>1. rebuilt'[i] = h
          BY <3>1, <4>2
        <5>2. Opening(rebuilt[i], U, PacketCount(units[U]))'
          BY <3>4, <5>1 DEF Opening
        <5>3. QED
          BY <3>2, <3>3, <5>2
      <4>3. QED
        BY <3>1, <4>1, <4>2
    <3>6. QED
      BY <3>5 DEF RebuiltInv
  <2>3. CASE ~(p.end /\ h # <<>>)
    BY <1>4, <2>1, <2>3 DEF RebuiltInv
  <2>4. QED
    BY <2>2, <2>3
<1>16. ArrivedInv'
  <2> SUFFICES ASSUME NEW u \in (1 .. Len(results')) \ lost', results'[u] = 0
               PROVE  \E i \in 1 .. Len(rebuilt') : rebuilt'[i][1].unit = u
    BY DEF ArrivedInv
  <2>1. CASE u \in 1 .. Len(results)
    <3>1. results[u] = 0
      BY <1>1, <1>14, <2>1, SMTT(30)
    <3>2. PICK i \in 1 .. Len(rebuilt) : rebuilt[i][1].unit = u
      BY <2>1, <3>1 DEF NalInv, ArrivedInv
    <3>3. i \in 1 .. Len(rebuilt') /\ rebuilt'[i] = rebuilt[i]
      <4>1. ASSUME NEW s \in Seq(Seq(NalPacket)), NEW x, i \in 1 .. Len(s)
            PROVE  i \in 1 .. Len(Append(s, x)) /\ Append(s, x)[i] = s[i]
        BY <4>1
      <4>2. rebuilt' = rebuilt \/ rebuilt' = Append(rebuilt, h)
        BY <1>4
      <4>3. QED
        BY <1>6, <4>1, <4>2
    <3>4. QED
      BY <3>2, <3>3
  <2>2. CASE u \notin 1 .. Len(results)
    <3>1. u = U /\ p.end
      BY <1>1, <1>3, <2>2
    <3>2. h # <<>> /\ rebuilt' = Append(rebuilt, h)
      BY <1>4, <1>5, <3>1
    <3>3. /\ Len(rebuilt) + 1 \in 1 .. Len(rebuilt')
          /\ rebuilt'[Len(rebuilt) + 1] = h
      BY <1>5, <1>6, <3>2
    <3>4. h[1].unit = U
      <4>1. 0 \in 0 .. PacketCount(units[U]) - 1 /\ units[U] \in Nat /\ Len(units) \in Nat
        BY <1>1
      <4>2. PacketOf(U, 0).unit = U
        BY <1>1, <4>1, NumberedShape DEF PacketOf
      <4>3. QED
        BY <1>10, <3>2, <4>2
    <3>5. QED
      BY <3>1, <3>3, <3>4
  <2>3. QED
    BY <2>1, <2>2
<1>17. QED
  BY <1>7, <1>12, <1>13, <1>15, <1>16 DEF NalInv

LEMMA NalStepInv == NalInv /\ [NalTransportNext]_nalTransportVars => NalInv'
<1> SUFFICES ASSUME NalInv, [NalTransportNext]_nalTransportVars
             PROVE  NalInv'
  OBVIOUS
<1>1. CASE \E len \in Lengths : Begin(len)
  BY <1>1, BeginInv
<1>2. CASE FailOne
  BY <1>2, FailInv
<1>3. CASE SendOne
  <2>1. \/ lost' = lost \cup {Len(units)} /\ UNCHANGED recvVars
        \/ lost' = lost /\ Receive(Packet(Unit, packet_idx), seq_num)
    BY <1>3, SendFacts
  <2>2. PICK h, U, k : /\ h = Have(Packet(Unit, packet_idx), seq_num)
                       /\ U = Len(units) /\ k = packet_idx + 1
    OBVIOUS
  <2>3. QED
    BY <1>3, <2>1, <2>2, LostInv, ReceivedInv
<1>4. CASE UNCHANGED nalTransportVars
  <2>1. /\ units' = units /\ packet_idx' = packet_idx /\ results' = results
        /\ seq_num' = seq_num /\ lost' = lost
        /\ last_seq' = last_seq /\ partial' = partial /\ rebuilt' = rebuilt
    BY <1>4 DEF nalTransportVars, sendVars, recvVars
  <2>2. PacketCount(Unit)' = PacketCount(Unit) /\ Busy' = Busy
    BY <2>1 DEF PacketCount, FitsOne, FullFragments, Unit, Busy
  <2>3. NalTypes'
    BY <2>1, <2>2 DEF NalInv, NalTypes
  <2>4. InStep => InStep'
    <3>1. \A u, i : PacketOf(u, i)' = PacketOf(u, i)
      BY <2>1, PacketOfStays
    <3>2. QED
      BY <2>1, <3>1 DEF InStep, Opening
  <2>5. PartialInv' /\ FollowInv'
    BY <2>1, <2>2, <2>4, OlderPartial DEF NalInv, PartialInv, FollowInv
  <2>6. RebuiltInv'
    BY <2>1, OlderRebuilt DEF RebuiltInv
  <2>7. ArrivedInv'
    BY <2>1 DEF NalInv, ArrivedInv
  <2>8. QED
    BY <2>3, <2>5, <2>6, <2>7 DEF NalInv
<1>5. QED
  BY <1>1, <1>2, <1>3, <1>4 DEF NalTransportNext, SendNalPacket

LEMMA NalInvariant == NalTransportSpec => []NalInv
<1>1. NalTransportInit => NalInv
  BY NalInitInv
<1>2. NalInv /\ [NalTransportNext]_nalTransportVars => NalInv'
  BY NalStepInv
<1>3. QED
  BY <1>1, <1>2, PTL DEF NalTransportSpec
-----------------------------------------------------------------------------
\* All packets of a unit are the unit.
LEMMA WholeIsUnit ==
    ASSUME NalInv, NEW u \in 1 .. Len(units),
           NEW g, Opening(g, u, PacketCount(units[u]))
    PROVE  IsUnit(g) /\ g[1].unit = u
<1> DEFINE len == units[u]
           n == PacketCount(len)
<1>1. len \in Nat /\ Len(units) \in Nat /\ u \in Nat
  BY DEF NalInv, NalTypes
<1>2. n \in Nat /\ n >= 1
  BY <1>1, CountType
<1>3. Len(g) = n /\ \A i \in 1 .. n : g[i] = PacketOf(u, i - 1)
  BY DEF Opening
<1>4. ASSUME NEW i \in 1 .. n
      PROVE  /\ g[i].unit = u
             /\ i = 1 => g[i].from = 0
             /\ i = n => g[i].to = len
             /\ i < n => g[i + 1].from = g[i].to
  <2>1. i - 1 \in 0 .. n - 1
    BY <1>2
  <2>2. /\ PacketOf(u, i - 1).unit = u
        /\ i - 1 = 0 => PacketOf(u, i - 1).from = 0
        /\ i - 1 = n - 1 => PacketOf(u, i - 1).to = len
        /\ i - 1 < n - 1 => PacketOf(u, i - 1).to = PacketOf(u, (i - 1) + 1).from
    BY <1>1, <2>1, NumberedShape DEF PacketOf
  <2>3. i < n => g[i + 1] = PacketOf(u, (i - 1) + 1)
    <3>1. ASSUME i < n PROVE i + 1 \in 1 .. n /\ (i - 1) + 1 = (i + 1) - 1
      BY <1>2, <3>1
    <3>2. QED
      BY <1>3, <3>1
  <2> HIDE DEF n, len
  <2>4. QED
    BY <1>2, <1>3, <2>2, <2>3
<1>5. 1 \in 1 .. n /\ n \in 1 .. n
  BY <1>2
<1>6. g[1].unit = u /\ g[1].from = 0 /\ g[n].to = len
  BY <1>4, <1>5
<1>7. \A i \in 1 .. n - 1 : g[i + 1].from = g[i].to
  <2>1. \A i \in 1 .. n - 1 : i \in 1 .. n /\ i < n
    BY <1>2
  <2>2. QED
    BY <1>4, <2>1
<1> HIDE DEF n, len
<1>8. QED
  BY <1>3, <1>4, <1>6, <1>7 DEF IsUnit, len

\* The receiver passes on only whole units, whatever fails and is lost.
THEOREM NalRebuiltWhole == NalTransportSpec => []RebuiltWhole
<1>1. NalInv => RebuiltWhole
  <2> SUFFICES ASSUME NalInv, NEW i \in 1 .. Len(rebuilt)
               PROVE  IsUnit(rebuilt[i])
    BY DEF RebuiltWhole
  <2>1. PICK u \in 1 .. Len(results) : Opening(rebuilt[i], u, PacketCount(units[u]))
    BY DEF NalInv, RebuiltInv
  <2>2. u \in 1 .. Len(units)
    BY DEF NalInv, NalTypes
  <2>3. QED
    BY <2>1, <2>2, WholeIsUnit
<1>2. QED
  BY <1>1, NalInvariant, PTL

\* send_packet returns 0 for the units that arrive, and for no others.
THEOREM NalResultTruthful == NalTransportSpec => []ResultTruthful
<1>1. NalInv => ResultTruthful
  <2> SUFFICES ASSUME NalInv, NEW u \in (1 .. Len(results)) \ lost,
                      NEW i \in 1 .. Len(rebuilt), rebuilt[i][1].unit = u
               PROVE  results[u] = 0
    BY DEF ResultTruthful, NalInv, ArrivedInv
  <2>1. PICK w \in 1 .. Len(results) :
            results[w] = 0 /\ Opening(rebuilt[i], w, PacketCount(units[w]))
    BY DEF NalInv, RebuiltInv
  <2>2. w \in 1 .. Len(units)
    BY DEF NalInv, NalTypes
  <2>3. rebuilt[i][1].unit = w
    BY <2>1, <2>2, WholeIsUnit
  <2>4. QED
    BY <2>1, <2>3
<1>2. QED
  BY <1>1, NalInvariant, PTL

\* No fragment is both the first and the last, and none exceeds the size, for
\* every unit length and every configuration with room for an FU header.
THEOREM NalPacketsWellFormed == NalTransportSpec => []PacketsWellFormed
<1>1. NalInv => PacketsWellFormed
  <2> SUFFICES ASSUME NalInv, Busy, NEW i \in 0 .. PacketCount(Unit) - 1
               PROVE  LET p == Packet(Unit, i)
                      IN  /\ p.fu => ~(p.start /\ p.end)
                          /\ Size(p) <= MaxNalu
    BY DEF PacketsWellFormed
  <2>1. Unit \in Nat /\ Len(units) \in Nat
    BY DEF NalInv, NalTypes, Busy, Unit
  <2>2. PacketCount(Unit) \in Nat
    BY <2>1, CountType
  <2> DEFINE p == Packet(Unit, i)
  <2>3. /\ p.start <=> i = 0
        /\ p.end <=> i = PacketCount(Unit) - 1
        /\ p.fu => PacketCount(Unit) >= 2
        /\ Size(p) <= MaxNalu
    BY <2>1, PacketShape
  <2>4. PacketCount(Unit) >= 2 => ~(i = 0 /\ i = PacketCount(Unit) - 1)
    BY <2>2
  <2> HIDE DEF p
  <2>5. p.fu => ~(p.start /\ p.end)
    BY <2>3, <2>4
  <2>6. QED
    BY <2>3, <2>5 DEF p
<1>2. QED
  BY <1>1, NalInvariant, PTL
-----------------------------------------------------------------------------
(* RtpReports: the RTP clock.                                              *)

\* A second, in microseconds.
Second == Kilo * Kilo

LEMMA SecondType == Second \in Nat \ {0}
<1>1. ASSUME NEW a \in Nat \ {0} PROVE a * a \in Nat \ {0}
  BY SMTT(30)
<1>2. QED
  BY <1>1, RtpReportsAssumption DEF Second

LEMMA TicksType == ASSUME NEW time \in Nat PROVE Ticks(time) \in Nat
BY SecondType, RtpReportsAssumption, Product, QuotientNat DEF Ticks, Second

LEMMA TicksInt == ASSUME NEW time \in Int PROVE Ticks(time) \in Int
<1>1. time * clock_rate \in Int
  BY RtpReportsAssumption, IntProduct, clock_rate \in Int
<1>2. QED
  BY <1>1, SecondType, Divided DEF Ticks, Second

\* Cutting a time in two loses at most one tick, also if one part is negative.
LEMMA TicksSum ==
    ASSUME NEW a \in Int, NEW b \in Int
    PROVE  \E e \in {0, 1} : Ticks(a + b) = Ticks(a) + Ticks(b) + e
<1>1. a * clock_rate \in Int /\ b * clock_rate \in Int
  BY RtpReportsAssumption, IntProduct, clock_rate \in Int
<1>2. (a + b) * clock_rate = a * clock_rate + b * clock_rate
  BY RtpReportsAssumption, SMTT(30)
<1> DEFINE x == a * clock_rate
           y == b * clock_rate
<1>3. PICK e \in {0, 1} : (x + y) \div Second = (x \div Second) + (y \div Second) + e
  <2> HIDE DEF x, y
  <2>1. x \in Int /\ y \in Int
    BY <1>1 DEF x, y
  <2>2. QED
    BY <2>1, SecondType, QuotientSum
<1>4. Ticks(a + b) = (x + y) \div Second
  BY <1>2 DEF Ticks, Second
<1>5. Ticks(a) = x \div Second /\ Ticks(b) = y \div Second
  BY DEF Ticks, Second
<1>6. QED
  BY <1>3, <1>4, <1>5, Zenon

LEMMA TimestampType ==
    ASSUME NEW time \in Nat, NEW kind
    PROVE  ComputeTimestamp(kind, Argument(kind, time)) \in Int
<1>1. ASSUME NEW a \in Int PROVE a % TsMod \in Int
  BY <1>1, RtpReportsAssumption, Divided
<1>2. Ticks(time) % TsMod \in Int
  BY <1>1, TicksType
<1>3. SysClockTimestamp(time) \in Int
  <2> DEFINE kHz == clock_rate \div Kilo
             ms == time \div Kilo
             us_rem == time % Kilo
  <2>1. kHz \in Int /\ ms \in Int /\ us_rem \in Int
    BY RtpReportsAssumption, Divided
  <2> HIDE DEF kHz, ms, us_rem
  <2>2. ms * kHz \in Int /\ us_rem * kHz \in Int
    BY <2>1, IntProduct
  <2>3. (us_rem * kHz) \div Kilo \in Int
    BY <2>2, RtpReportsAssumption, Divided
  <2>4. ms * kHz + ((us_rem * kHz) \div Kilo) \in Int
    BY <2>2, <2>3
  <2>5. (ms * kHz + ((us_rem * kHz) \div Kilo)) % TsMod \in Int
    BY <1>1, <2>4
  <2>6. QED
    BY <2>5 DEF SysClockTimestamp, kHz, ms, us_rem
<1>4. QED
  BY <1>2, <1>3 DEF ComputeTimestamp, Argument

\* The code keeps the rate in whole kHz.
WholeKHz == clock_rate % Kilo = 0

\* Where nothing is cut off, SysClockUs is the RTP clock.
LEMMA SysClockExact ==
    ASSUME WholeKHz, NEW time \in Nat
    PROVE  SysClockTimestamp(time) = Ticks(time) % TsMod
<1> DEFINE K == Kilo
           k == clock_rate \div K
           ms == time \div K
           u == time % K
           w == u * k
           c == w \div K
           q == ms * k + c
<1>1. K \in Nat \ {0} /\ clock_rate \in Nat
  BY RtpReportsAssumption
<1>2. k \in Nat /\ clock_rate = K * k
  <2>1. K * k \in Nat
    BY <1>1, QuotientNat, Product
  <2>2. clock_rate = K * k + (clock_rate % K)
    BY <1>1, Divided
  <2>3. clock_rate % K = 0
    BY DEF WholeKHz
  <2>4. clock_rate = K * k + 0
    BY <2>2, <2>3, Zenon
  <2> HIDE DEF k
  <2>5. QED
    BY <1>1, <2>1, <2>4, QuotientNat DEF k
<1>3. ms \in Nat /\ u \in 0 .. K - 1 /\ time = K * ms + u
  <2>1. ms \in Nat
    BY <1>1, QuotientNat
  <2>2. QED
    BY <1>1, <2>1, Divided, time \in Int
<1> HIDE DEF K, k, ms, u
<1>4. w \in Nat
  BY <1>2, <1>3, Product
<1> DEFINE rest == w % K
<1>5. c \in Nat /\ rest \in 0 .. K - 1 /\ w = K * c + rest
  <2> HIDE DEF w
  <2>1. c \in Nat
    BY <1>1, <1>4, QuotientNat
  <2>2. QED
    BY <1>1, <1>4, <2>1, Divided, w \in Int
<1> HIDE DEF c, rest
<1> DEFINE kc == K * c
           kkc == K * (K * c)
           a == K * (K * (ms * k))
<1>6. a \in Nat /\ kkc \in Nat
  BY <1>1, <1>2, <1>3, <1>5, Product
<1>7. time * clock_rate = a + K * w
  BY <1>1, <1>2, <1>3, SMTT(30)
<1>8. K * w = kkc + K * rest
  BY <1>1, <1>5, SMTT(30)
<1>9. K * rest \in Nat /\ K * rest < K * K
  BY <1>1, <1>5, SMTT(30)
<1>10. K * K * q = a + kkc
  BY <1>1, <1>2, <1>3, <1>5, SMTT(30)
<1> HIDE DEF w, a, kkc
<1>11. q \in Int
  BY <1>2, <1>3, <1>5, Product
<1>12. K * K \in Nat \ {0} /\ time * clock_rate \in Nat
  BY <1>1, SecondType, Product DEF K, Second
<1> HIDE DEF q
<1>13. K * K * q <= time * clock_rate /\ time * clock_rate < K * K * q + K * K
  BY <1>6, <1>7, <1>8, <1>9, <1>10, <1>12
<1>14. Ticks(time) = q
  BY <1>11, <1>12, <1>13, QuotientIs DEF Ticks, K
<1>15. SysClockTimestamp(time) = q % TsMod
  BY DEF SysClockTimestamp, q, c, w, u, ms, k, K
<1>16. QED
  BY <1>14, <1>15

\* What a packet carries.
LEMMA TimestampIs ==
    ASSUME WholeKHz, NEW time \in Nat, NEW kind \in Kinds
    PROVE  ComputeTimestamp(kind, Argument(kind, time)) = Ticks(time) % TsMod
BY SysClockExact DEF ComputeTimestamp, Argument

-----------------------------------------------------------------------------
(* The counters and the clocks.                                            *)

\* The product in get_rtp_timestamp_now does not exceed its 64 bits.
NoOverflow == MaxTime < TimeMod /\ MaxTime * clock_rate < TimeMod

ReportTypes ==
    /\ now \in 1 .. MaxTime
    /\ wall \in Nat
    /\ last_rtp_timestamp \in Int /\ last_send_time_us \in Nat
    /\ packets \in Nat /\ octets \in Nat /\ lag \in Int
    /\ ntp_once \in BOOLEAN /\ mono_to_ntp \in Int

\* What send_packet counts is what left, modulo the width of the fields.
CountsInv ==
    /\ packet_count = packets % CountMod
    /\ octet_count = octets % CountMod

\* From the first packet on, the last one is on the RTP clock, at its media time.
ClockInv ==
    packets > 0 =>
        /\ last_send_time_us \in 1 .. now
        /\ last_send_time_us - lag \in Nat
        /\ last_rtp_timestamp = Ticks(last_send_time_us - lag) % TsMod

\* A report made behind the first packet is on the RTP clock too, up to one tick,
\* and its media time is the monotonic one plus the offset that was read once.
SrInv ==
    sr # None =>
        /\ ntp_once
        /\ sr.started =>
               /\ packets > 0
               /\ \E n \in Nat, e \in {0, 1} :
                      /\ MediaTime(sr) = n + mono_to_ntp
                      /\ sr.rtp = (Ticks(n) - e) % TsMod

CountInv == ReportTypes /\ CountsInv
ReportInv == CountInv /\ ClockInv /\ SrInv

LEMMA WallOffsetType ==
    ASSUME ReportTypes
    PROVE  NtpOffset \in Int
<1>1. now + wall \in Nat /\ now \in Nat
  BY RtpReportsAssumption DEF ReportTypes
<1>2. (now + wall) \div Second \in Int /\ now \div Second \in Int
  BY <1>1, SecondType, QuotientNat
<1>3. (now + wall) \div Second - now \div Second \in Int
  BY <1>2
<1>4. Second * ((now + wall) \div Second - now \div Second) \in Int
  BY <1>3, SecondType, IntProduct
<1>5. WallOffset = Second * ((now + wall) \div Second - now \div Second)
  BY DEF WallOffset, Second
<1>6. QED
  BY <1>4, <1>5 DEF NtpOffset, ReportTypes

LEMMA CountOne ==
    ASSUME NEW a \in Nat, NEW n \in Nat, NEW m \in Nat \ {0}
    PROVE  ((a % m) + n) % m = (a + n) % m
<1> DEFINE q == a \div m
           r == a % m
           mq == m * q
<1>1. q \in Int /\ r \in Int /\ a = mq + r
  BY Divided, a \in Int
<1> HIDE DEF q, r
<1>2. mq \in Int
  BY <1>1, IntProduct
<1>3. (r + n + m * q) % m = (r + n) % m
  BY <1>1, RemainderSame, r + n \in Int
<1>4. r + n + m * q = a + n
  BY <1>1, <1>2
<1>5. QED
  BY <1>3, <1>4 DEF r

LEMMA CountInit == Init => CountInv
<1> SUFFICES ASSUME Init PROVE CountInv
  OBVIOUS
<1>1. 0 % CountMod = 0
  BY RtpReportsAssumption, SmallSelf
<1>2. CountsInv
  BY <1>1 DEF Init, CountsInv
<1>3. last_send_time_us \in Nat /\ wall \in Nat /\ 1 \in 1 .. MaxTime
  BY RtpReportsAssumption DEF Init
<1>4. ReportTypes
  <2>1. ntp_once \in BOOLEAN
    BY DEF Init
  <2>2. QED
    BY <1>3, <2>1 DEF Init, ReportTypes
<1>5. QED
  BY <1>2, <1>4 DEF CountInv

LEMMA CountStep == CountInv /\ [Next]_vars => CountInv'
<1> SUFFICES ASSUME CountInv, [Next]_vars
             PROVE  CountInv'
  OBVIOUS
<1> USE DEF CountInv
<1>1. ASSUME UNCHANGED vars PROVE CountInv'
  BY <1>1 DEF vars, rtpVars, rtcpVars, ReportTypes, CountsInv
<1>2. CASE Tick
  <2>1. now' \in 1 .. MaxTime
    BY <1>2, RtpReportsAssumption DEF Tick, ReportTypes
  <2>2. QED
    BY <1>2, <2>1 DEF Tick, rtpVars, rtcpVars, ReportTypes, CountsInv
<1>3. CASE SetWallClock
  BY <1>3, RtpReportsAssumption DEF SetWallClock, rtpVars, rtcpVars, ReportTypes, CountsInv
<1>4. ASSUME NEW kind \in Kinds, NEW size \in Sizes, NEW late \in Lags,
             SendPacket_Sent(kind, size, late)
      PROVE  CountInv'
  <2>1. size \in Nat /\ late \in Int /\ 1 \in Nat /\ CountMod \in Nat \ {0}
    BY RtpReportsAssumption
  <2>2. packet_count' = packets' % CountMod
    <3>1. packet_count' = ((packets % CountMod) + 1) % CountMod
      BY <1>4 DEF SendPacket_Sent, CountsInv
    <3>2. packets' = packets + 1 /\ packets \in Nat
      BY <1>4 DEF SendPacket_Sent, ReportTypes
    <3>3. QED
      BY <2>1, <3>1, <3>2, CountOne
  <2>3. octet_count' = octets' % CountMod
    <3>1. octet_count' = ((octets % CountMod) + size) % CountMod
      BY <1>4 DEF SendPacket_Sent, CountsInv
    <3>2. octets' = octets + size /\ octets \in Nat
      BY <1>4 DEF SendPacket_Sent, ReportTypes
    <3>3. QED
      BY <2>1, <3>1, <3>2, CountOne
  <2>4. last_rtp_timestamp' \in Int
    <3>1. now - late \in Nat
      BY <1>4, <2>1, RtpReportsAssumption DEF ReportTypes, SendPacket_Sent
    <3>2. ComputeTimestamp(kind, Argument(kind, now - late)) \in Int
      BY <3>1, TimestampType
    <3>3. QED
      BY <1>4, <3>2 DEF SendPacket_Sent
  <2>5. QED
    BY <1>4, <2>1, <2>2, <2>3, <2>4 DEF SendPacket_Sent, rtcpVars, ReportTypes, CountsInv
<1>5. CASE SendSr
  BY <1>5, WallOffsetType
     DEF SendSr, SendSr_Failed, SendSr_Sent, NtpInitOnce, rtpVars, ReportTypes, CountsInv
<1>6. CASE HandleIncoming
  <2>1. CASE UNCHANGED vars
    BY <1>1, <2>1
  <2>2. CASE has_rr' = TRUE /\ UNCHANGED <<now, wall, rtpVars, ntp_once, mono_to_ntp, sr>>
    BY <2>2 DEF rtpVars, ReportTypes, CountsInv
  <2>3. QED
    BY <1>6, <2>1, <2>2 DEF HandleIncoming
<1>7. CASE SendPacket
  BY <1>1, <1>4, <1>7 DEF SendPacket, SendPacket_Failed
<1>8. QED
  BY <1>1, <1>2, <1>3, <1>5, <1>6, <1>7 DEF Next, SendBye

\* A report counts the packets and octets that the transport took, and no
\* others, modulo the width of the fields, for every width: what is read by
\* Compy_Rtcp_send_sr is what Compy_RtpTransport_send_packet left behind.
THEOREM ReportsCountWire == Spec => SrCountsWire
<1>1. CountInv /\ [Next]_vars =>
          [sr' # sr => /\ sr'.packets = packets % CountMod
                       /\ sr'.octets = octets % CountMod]_vars
  <2> SUFFICES ASSUME CountInv, Next, sr' # sr
               PROVE  /\ sr'.packets = packets % CountMod
                      /\ sr'.octets = octets % CountMod
    BY DEF vars, rtcpVars
  <2>1. SendSr_Sent
    BY DEF Next, Tick, SetWallClock, SendPacket, SendPacket_Failed, SendPacket_Sent, SendSr,
           SendSr_Failed, SendBye, HandleIncoming, vars, rtcpVars
  <2>2. QED
    BY <2>1 DEF SendSr_Sent, CountInv, CountsInv
<1>2. QED
  BY <1>1, CountInit, CountStep, PTL DEF Spec, SrCountsWire

-----------------------------------------------------------------------------
(* The clock of the reports.                                               *)

\* What get_rtp_timestamp_now extrapolates is the RTP clock, up to one tick, at the
\* present time less the lateness of the last packet.
LEMMA TimestampNowIs ==
    ASSUME NoOverflow, ReportTypes, ClockInv, packets > 0
    PROVE  now - lag \in Nat /\ \E e \in {0, 1} : RtpTimestampNow = (Ticks(now - lag) - e) % TsMod
<1> DEFINE s == last_send_time_us
           d == now - s
           m == s - lag
<1>1. /\ now \in Nat /\ now <= MaxTime /\ s \in Nat /\ s # 0 /\ d \in Nat /\ d <= MaxTime
      /\ m \in Nat /\ now - lag = m + d /\ now - lag \in Nat
      /\ last_rtp_timestamp = Ticks(m) % TsMod
      /\ TsMod \in Nat \ {0} /\ TimeMod \in Nat \ {0} /\ clock_rate \in Nat /\ MaxTime \in Nat
  BY RtpReportsAssumption DEF ReportTypes, ClockInv
<1> HIDE DEF s, d, m
<1>2. d % TimeMod = d
  BY <1>1, SmallSelf DEF NoOverflow
<1>3. (d * clock_rate) % TimeMod = d * clock_rate
  <2>1. d * clock_rate <= MaxTime * clock_rate /\ d * clock_rate \in Nat
        /\ MaxTime * clock_rate \in Nat
    <3>1. ASSUME NEW a \in Nat, NEW b \in Nat, NEW c \in Nat, a <= b
          PROVE  a * c <= b * c /\ a * c \in Nat /\ b * c \in Nat
      BY <3>1, SMTT(30)
    <3>2. QED
      BY <1>1, <3>1
  <2>2. d * clock_rate < TimeMod
    <3> DEFINE x == d * clock_rate
               y == MaxTime * clock_rate
    <3>1. x <= y /\ x \in Nat /\ y \in Nat /\ y < TimeMod
      BY <2>1 DEF NoOverflow
    <3> HIDE DEF x, y
    <3>2. x < TimeMod
      BY <1>1, <3>1
    <3>3. QED
      BY <3>2 DEF x
  <2>3. QED
    BY <1>1, <2>1, <2>2, SmallSelf
<1>4. RtpTimestampNow = ((Ticks(m) % TsMod) + Ticks(d)) % TsMod
  <2>1. RtpTimestampNow =
          (last_rtp_timestamp + (((d % TimeMod) * clock_rate) % TimeMod) \div (Kilo * Kilo)) % TsMod
    BY <1>1 DEF RtpTimestampNow, s, d
  <2>2. QED
    BY <1>1, <1>2, <1>3, <2>1 DEF Ticks
<1>5. Ticks(m) \in Nat /\ Ticks(d) \in Nat /\ Ticks(now - lag) \in Nat
  BY <1>1, TicksType
<1>6. RtpTimestampNow = (Ticks(m) + Ticks(d)) % TsMod
  BY <1>1, <1>4, <1>5, CountOne
<1>7. PICK e \in {0, 1} : Ticks(now - lag) = Ticks(m) + Ticks(d) + e
  BY <1>1, TicksSum, m \in Int, d \in Int
<1>8. Ticks(m) + Ticks(d) = Ticks(now - lag) - e
  BY <1>5, <1>7
<1>9. QED
  BY <1>1, <1>6, <1>8

LEMMA ReportStep ==
    ASSUME WholeKHz, NoOverflow, ReportInv, ReportInv => CountInv', [Next]_vars
    PROVE  ReportInv'
<1>0. CountInv' /\ ReportTypes /\ ReportTypes'
  BY DEF ReportInv, CountInv
<1>1. ASSUME UNCHANGED <<rtpVars, ntp_once, mono_to_ntp, sr>>, now' \in {now, now + 1}
      PROVE  ReportInv'
  <2>1. now \in Nat /\ now <= now' /\ now' \in Nat
    BY <1>0, <1>1, RtpReportsAssumption DEF ReportTypes
  <2>2. ClockInv'
    BY <1>1, <2>1 DEF ReportInv, ClockInv, rtpVars
  <2>3. SrInv'
    BY <1>1, <2>1 DEF ReportInv, SrInv, rtpVars
  <2>4. QED
    BY <1>0, <2>2, <2>3 DEF ReportInv
<1>2. ASSUME NEW kind \in Kinds, NEW size \in Sizes, NEW late \in Lags,
             SendPacket_Sent(kind, size, late)
      PROVE  ReportInv'
  <2>1. now \in Nat /\ now >= 1 /\ now - late \in Nat /\ now' = now /\ packets \in Nat /\ packets' = packets + 1
    BY <1>0, <1>2, RtpReportsAssumption DEF ReportTypes, SendPacket_Sent
  <2>2. last_send_time_us' = now /\ lag' = late /\ last_rtp_timestamp' = Ticks(now - late) % TsMod
    BY <1>2, <2>1, TimestampIs DEF SendPacket_Sent
  <2>3. ClockInv'
    BY <2>1, <2>2 DEF ClockInv
  <2>4. sr' = sr /\ ntp_once' = ntp_once /\ mono_to_ntp' = mono_to_ntp
    BY <1>2 DEF SendPacket_Sent, rtcpVars
  <2>5. SrInv'
    BY <2>1, <2>4 DEF ReportInv, SrInv
  <2>6. QED
    BY <1>0, <2>3, <2>5 DEF ReportInv
<1>3. ASSUME NtpInitOnce, UNCHANGED <<now, rtpVars>>
      PROVE  ClockInv' /\ (sr' = sr => SrInv')
  <2>1. ClockInv'
    BY <1>3 DEF ReportInv, ClockInv, rtpVars
  <2>2. CASE sr # None
    <3>1. ntp_once' /\ mono_to_ntp' = mono_to_ntp
      BY <1>3, <2>2 DEF ReportInv, SrInv, NtpInitOnce, NtpOffset
    <3>2. QED
      BY <1>3, <2>1, <2>2, <3>1 DEF ReportInv, SrInv, rtpVars
  <2>3. QED
    BY <2>1, <2>2 DEF SrInv
<1>4. CASE SendSr_Sent
  <2>1. ClockInv'
    BY <1>3, <1>4 DEF SendSr_Sent
  <2>2. /\ sr'.ntp = now + mono_to_ntp' /\ sr'.rtp = RtpTimestampNow /\ sr'.lag = lag
        /\ sr'.started = (packets > 0) /\ ntp_once' /\ now' = now /\ packets' = packets
    BY <1>4 DEF SendSr_Sent, NtpInitOnce, rtpVars
  <2>3. SrInv'
    <3>1. CASE packets > 0
      <4>1. PICK e \in {0, 1} : RtpTimestampNow = (Ticks(now - lag) - e) % TsMod
        BY <1>0, <3>1, TimestampNowIs DEF ReportInv
      <4>2. now - lag \in Nat
        BY <1>0, <3>1, TimestampNowIs DEF ReportInv
      <4>3. MediaTime(sr') = (now - lag) + mono_to_ntp'
        BY <1>0, <2>2, RtpReportsAssumption DEF MediaTime, ReportTypes
      <4>4. QED
        BY <2>2, <3>1, <4>1, <4>2, <4>3 DEF SrInv
    <3>2. QED
      BY <2>2, <3>1 DEF SrInv
  <2>4. QED
    BY <1>0, <2>1, <2>3 DEF ReportInv
<1>5. CASE SendSr_Failed
  BY <1>0, <1>3, <1>5 DEF SendSr_Failed, ReportInv
<1>6. ASSUME Tick \/ SetWallClock \/ UNCHANGED vars \/ HandleIncoming
      PROVE  ReportInv'
  BY <1>1, <1>6 DEF Tick, SetWallClock, HandleIncoming, vars, rtcpVars
<1>7. QED
  BY <1>2, <1>4, <1>5, <1>6 DEF Next, SendPacket, SendPacket_Failed, SendSr, SendBye

LEMMA ReportInvariant ==
    ASSUME WholeKHz, NoOverflow
    PROVE  Spec => []ReportInv
<1>1. Init => ReportInv
  <2>1. Init => ClockInv /\ SrInv
    BY DEF Init, ClockInv, SrInv
  <2>2. QED
    BY <2>1, CountInit DEF ReportInv
<1>2. ReportInv /\ [Next]_vars => ReportInv'
  <2>1. ReportInv /\ [Next]_vars => CountInv'
    BY CountStep DEF ReportInv
  <2>2. QED
    BY <2>1, ReportStep
<1>3. QED
  BY <1>1, <1>2, PTL DEF Spec

\* Two numbers that differ by at most n ticks, up to whole turns of the clock.
LEMMA NearIf ==
    ASSUME NEW a \in Int, NEW b \in Int, NEW k \in Int, NEW d \in Int,
           a - b = d + TsMod * k, d <= 2, -2 <= d
    PROVE  Near(a, b, 2)
<1>1. TsMod \in Nat \ {0} /\ TsMod * k \in Int /\ TsMod * (-k) \in Int /\ -k \in Int
  BY RtpReportsAssumption, IntProduct
<1>2. CASE d >= 0
  <2>1. (d + TsMod * k) % TsMod <= d /\ (d + TsMod * k) % TsMod \in Int
    BY <1>1, <1>2, SmallRemainder, Divided, d \in Nat, d + TsMod * k \in Int
  <2>2. (a - b) % TsMod <= d /\ (a - b) % TsMod \in Int
    BY <2>1
  <2> DEFINE x == (a - b) % TsMod
  <2> HIDE DEF x
  <2>3. x <= 2
    BY <2>2 DEF x
  <2>4. QED
    BY <2>3 DEF Near, x
<1>3. CASE d < 0
  <2> DEFINE e == -d
  <2>1. e \in Nat /\ e <= 2
    BY <1>3
  <2>2. TsMod * (-k) = -(TsMod * k)
    BY <1>1, SMTT(30)
  <2>3. b - a = e + TsMod * (-k)
    BY <1>1, <2>2
  <2> HIDE DEF e
  <2>4. (e + TsMod * (-k)) % TsMod <= e /\ (e + TsMod * (-k)) % TsMod \in Int
    BY <1>1, <2>1, SmallRemainder, Divided, e + TsMod * (-k) \in Int
  <2> DEFINE x == (b - a) % TsMod
  <2>5. x <= e /\ x \in Int
    BY <2>3, <2>4
  <2> HIDE DEF x
  <2>6. x <= 2
    BY <2>1, <2>5
  <2>7. QED
    BY <2>6 DEF Near, x
<1>4. QED
  BY <1>2, <1>3

\* A tick number on the clock that wraps.
LEMMA Wrapped ==
    ASSUME NEW a \in Int
    PROVE  \E k \in Int : a % TsMod = a + TsMod * k
<1> DEFINE q == a \div TsMod
           x == a % TsMod
           y == TsMod * q
<1>1. TsMod \in Nat \ {0}
  BY RtpReportsAssumption
<1>2. q \in Int /\ x \in Int /\ a = y + x
  BY <1>1, Divided
<1> HIDE DEF q, x
<1>3. y \in Int /\ -q \in Int /\ TsMod * (-q) = -y
  BY <1>1, <1>2, SMTT(30)
<1> HIDE DEF y
<1>4. x = a + (-y)
  BY <1>2, <1>3
<1>5. x = a + TsMod * (-q)
  BY <1>3, <1>4
<1>6. QED
  BY <1>3, <1>5 DEF x

\* What a receiver does with two Sender Reports: between any two that follow each
\* other, the RTP clock has run at clock_rate against the NTP clock, up to two
\* ticks and to the difference in lateness of the two packets that
\* get_rtp_timestamp_now extrapolated from, whatever sends failed or blocked,
\* packets came between, timestamps wrapped or clocks were set.  It holds for every
\* set of Lags, as long as the rate is a multiple of 1 kHz, which
\* compute_timestamp needs, and the 64 bits of get_rtp_timestamp_now suffice.
THEOREM ReportsConsistent ==
    ASSUME WholeKHz, NoOverflow
    PROVE  Spec => SrConsistent
<1>1. ReportInv /\ ReportInv' /\ [Next]_vars =>
          [sr # None /\ sr' # sr /\ sr.started =>
               Near(sr'.rtp - sr.rtp, Ticks(MediaTime(sr') - MediaTime(sr)), 2)]_vars
  <2> SUFFICES ASSUME ReportInv, ReportInv', Next, sr # None, sr' # sr, sr.started
               PROVE  Near(sr'.rtp - sr.rtp, Ticks(MediaTime(sr') - MediaTime(sr)), 2)
    BY DEF vars, rtcpVars
  <2>1. SendSr_Sent
    BY DEF Next, Tick, SetWallClock, SendPacket, SendPacket_Failed, SendPacket_Sent, SendSr,
           SendSr_Failed, SendBye, HandleIncoming, vars, rtcpVars
  <2>2. PICK n \in Nat, e \in {0, 1} :
            MediaTime(sr) = n + mono_to_ntp /\ sr.rtp = (Ticks(n) - e) % TsMod
    BY DEF ReportInv, SrInv
  <2>3. /\ packets > 0 /\ ntp_once
        /\ ReportTypes /\ ClockInv
    BY DEF ReportInv, CountInv, SrInv
  <2>4. sr'.ntp = now + mono_to_ntp /\ sr'.rtp = RtpTimestampNow /\ sr'.lag = lag
    BY <2>1, <2>3 DEF SendSr_Sent, NtpOffset
  <2>5. PICK f \in {0, 1} : RtpTimestampNow = (Ticks(now - lag) - f) % TsMod
    BY <2>3, TimestampNowIs
  <2> DEFINE m == now - lag
             b == m - n
  <2>6. m \in Int /\ n \in Int /\ b \in Int /\ m = n + b
    BY <2>2, <2>3, TimestampNowIs
  <2>7. MediaTime(sr') - MediaTime(sr) = b
    <3>1. MediaTime(sr') = (now + mono_to_ntp) - lag
      BY <2>4 DEF MediaTime
    <3>2. now \in Int /\ lag \in Int /\ mono_to_ntp \in Int
      BY <2>3 DEF ReportTypes
    <3>3. QED
      BY <2>2, <2>6, <3>1, <3>2
  <2> DEFINE T1 == Ticks(n)
             T2 == Ticks(m)
             D == Ticks(b)
             r1 == sr.rtp
             r2 == sr'.rtp
  <2>0. RtpTimestampNow = (T2 - f) % TsMod
    BY <2>5
  <2> HIDE DEF m, b
  <2>8. T1 \in Int /\ T2 \in Int /\ D \in Int
    BY <2>6, TicksInt
  <2>9. PICK g \in {0, 1} : T2 = T1 + D + g
    BY <2>6, TicksSum
  <2>10. r1 = (T1 - e) % TsMod /\ r2 = (T2 - f) % TsMod
    BY <2>0, <2>2, <2>4
  <2> HIDE DEF T1, T2, D, r1, r2
  <2>11. PICK k \in Int : r1 = (T1 - e) + TsMod * k
    BY <2>8, <2>10, Wrapped, T1 - e \in Int
  <2>12. PICK l \in Int : r2 = (T2 - f) + TsMod * l
    BY <2>8, <2>10, Wrapped, T2 - f \in Int
  <2> DEFINE x == TsMod * k
             y == TsMod * l
             z == TsMod * (l - k)
             d == g + e - f
  <2>13. x \in Int /\ y \in Int /\ z = y - x /\ l - k \in Int
    BY RtpReportsAssumption, SMTT(30)
  <2> HIDE DEF x, y, z
  <2>14. r1 = (T1 - e) + x /\ r2 = (T2 - f) + y
    BY <2>11, <2>12 DEF x, y
  <2>15. r2 - r1 \in Int /\ d \in Int /\ d <= 2 /\ -2 <= d
    BY <2>8, <2>13, <2>14
  <2>16. (r2 - r1) - D = d + z
    BY <2>8, <2>9, <2>13, <2>14
  <2> HIDE DEF d
  <2>17. Near(r2 - r1, D, 2)
    BY <2>8, <2>13, <2>15, <2>16, NearIf DEF z
  <2>18. QED
    BY <2>7, <2>17 DEF r1, r2, D
<1>2. QED
  BY <1>1, ReportInvariant, PTL DEF Spec, SrConsistent

-----------------------------------------------------------------------------
(* Writers: what has left.                                                 *)

\* w begins with u.
Extends(w, u) == Len(u) <= Len(w) /\ \A i \in 1 .. Len(u) : w[i] = u[i]

\* t is g, or is shorter; a writer that is no descriptor leaves nothing out.
Follows(t, g, kind) ==
    /\ Len(t) <= Len(g)
    /\ Len(t) = Len(g) => t = g
    /\ kind # "fd" => Len(t) = Len(g)

LEMMA SameSeq ==
    ASSUME NEW S, NEW u \in Seq(S), NEW v \in Seq(S), Len(u) = Len(v),
           \A i \in 1 .. Len(u) : u[i] = v[i]
    PROVE  u = v
BY SeqEqual

LEMMA FollowTake ==
    ASSUME NEW S, NEW t \in Seq(S), NEW g \in Seq(S), NEW v \in Seq(S), NEW kind, Follows(t, g, kind)
    PROVE  Follows(t \o v, g \o v, kind)
<1>1. Len(t) \in Nat /\ Len(g) \in Nat /\ Len(v) \in Nat
  OBVIOUS
<1>2. Len(t \o v) = Len(t) + Len(v) /\ Len(g \o v) = Len(g) + Len(v)
  BY ConcatProperties
<1>3. /\ Len(t) <= Len(g)
      /\ Len(t) = Len(g) => t = g
      /\ kind # "fd" => Len(t) = Len(g)
  BY DEF Follows
<1>4. Len(t \o v) <= Len(g \o v) /\ (Len(t \o v) = Len(g \o v) => Len(t) = Len(g))
  BY <1>1, <1>2, <1>3
<1>5. QED
  BY <1>2, <1>3, <1>4 DEF Follows

LEMMA FollowFurther ==
    ASSUME NEW S, NEW t \in Seq(S), NEW g \in Seq(S), NEW h \in Seq(S), NEW kind, Follows(t, g, kind),
           Extends(h, g)
    PROVE  /\ Len(t) <= Len(h)
           /\ Len(t) = Len(h) => t = h
           /\ Extends(h, t) \/ Len(t) # Len(g)
<1>1. Len(t) \in Nat /\ Len(g) \in Nat /\ Len(h) \in Nat
  OBVIOUS
<1>2. Len(t) <= Len(g) /\ (Len(t) = Len(g) => t = g) /\ Len(g) <= Len(h)
  BY DEF Follows, Extends
<1>3. Len(t) = Len(h) => Len(t) = Len(g) /\ Len(g) = Len(h)
  BY <1>1, <1>2
<1>4. Len(g) = Len(h) => g = h
  <2> SUFFICES ASSUME Len(g) = Len(h) PROVE g = h
    OBVIOUS
  <2>1. \A i \in 1 .. Len(g) : g[i] = h[i]
    BY DEF Extends
  <2>2. QED
    BY <2>1, SameSeq
<1>5. Len(t) <= Len(h)
  BY <1>1, <1>2
<1>6. Len(t) = Len(g) => Extends(h, t)
  BY <1>2
<1>7. QED
  BY <1>2, <1>3, <1>4, <1>5, <1>6

LEMMA ExtendsPrefix ==
    ASSUME NEW S, NEW t \in Seq(S), NEW h \in Seq(S), Extends(h, t)
    PROVE  IsPrefix(t, h)
<1>1. Len(t) \in Nat /\ Len(h) \in Nat /\ Len(t) <= Len(h) /\ \A i \in 1 .. Len(t) : h[i] = t[i]
  BY DEF Extends
<1> DEFINE n == Len(t)
           u == SubSeq(t, 1, n)
           v == SubSeq(h, 1, n)
<1>2. u = [i \in 1 .. n |-> t[i]]
  BY <1>1
<1>3. v = [i \in 1 .. n |-> h[i]]
  BY <1>1
<1>4. QED
  BY <1>1, <1>2, <1>3 DEF IsPrefix

LEMMA ExtendsTrans ==
    ASSUME NEW u, NEW v, NEW w, Len(u) \in Nat, Len(v) \in Nat, Len(w) \in Nat,
           Extends(v, u), Extends(w, v)
    PROVE  Extends(w, u)
BY DEF Extends

\* The octets of a slice, of the first slices, and of those and part of the next.
Places == Nat \X Nat
Chunks == [s \in DOMAIN Slices |-> [i \in 1 .. Slices[s] |-> <<s, i>>]]
First(d) == Flat(Chunks, d)
Part(d, j, n) == [i \in 1 .. n |-> <<d + 1, j + i>>]
Gone(d, j) == First(d) \o Part(d, 0, j)
All == FlattenSeq(Chunks)

LEMMA SliceTypes ==
    /\ Len(Slices) \in Nat /\ DOMAIN Slices = 1 .. Len(Slices)
    /\ \A s \in 1 .. Len(Slices) : Slices[s] \in Nat /\ Chunks[s] \in Seq(Places)
<1>1. Slices \in Seq(Nat)
  BY WritersAssumption
<1>2. Len(Slices) \in Nat /\ DOMAIN Slices = 1 .. Len(Slices)
  BY <1>1
<1>3. ASSUME NEW s \in 1 .. Len(Slices)
      PROVE  Slices[s] \in Nat /\ Chunks[s] \in Seq(Places)
  <2>1. Slices[s] \in Nat
    BY <1>1
  <2>2. Chunks[s] = [i \in 1 .. Slices[s] |-> <<s, i>>]
    BY <1>2 DEF Chunks
  <2>3. \A i \in 1 .. Slices[s] : <<s, i>> \in Places
    BY <1>2, <2>1 DEF Places
  <2> HIDE DEF Chunks
  <2>4. QED
    BY <2>1, <2>2, <2>3
<1>4. QED
  BY <1>2, <1>3

LEMMA PartType ==
    ASSUME NEW d \in Nat, NEW j \in Nat, NEW n \in Nat
    PROVE  Part(d, j, n) \in Seq(Places) /\ Len(Part(d, j, n)) = n
           /\ \A i \in 1 .. n : Part(d, j, n)[i] = <<d + 1, j + i>>
<1>1. \A i \in 1 .. n : <<d + 1, j + i>> \in Places
  BY DEF Places
<1>2. QED
  BY <1>1 DEF Part

LEMMA FirstType ==
    ASSUME NEW d \in 0 .. Len(Slices)
    PROVE  First(d) \in Seq(Places)
<1>1. d \in Nat /\ \A i \in 1 .. d : Chunks[i] \in Seq(Places)
  BY SliceTypes
<1>2. CASE d = 0
  BY <1>2, FlatNone, EmptySeq DEF First
<1>3. CASE d # 0
  <2> DEFINE e == d - 1
  <2>1. e \in Nat /\ e + 1 = d /\ e + 1 \in Nat \ {0}
    BY <1>1, <1>3
  <2>2. \A i \in 1 .. e + 1 : Chunks[i] \in Seq(Places)
    BY <1>1, <2>1
  <2> HIDE DEF e
  <2>3. Flat(Chunks, e) \in Seq(Places) /\ Flat(Chunks, e + 1) = Flat(Chunks, e) \o Chunks[e + 1]
    BY <2>1, <2>2, FlatNext
  <2>4. e + 1 \in 1 .. e + 1
    BY <2>1
  <2>5. Flat(Chunks, e + 1) \in Seq(Places)
    BY <2>2, <2>3, <2>4, ConcatProperties
  <2>6. QED
    BY <2>1, <2>5 DEF First
<1>4. QED
  BY <1>2, <1>3

LEMMA FirstNext ==
    ASSUME NEW d \in 0 .. Len(Slices) - 1
    PROVE  /\ First(d + 1) = Gone(d, Slices[d + 1])
           /\ First(d) = Gone(d, 0)
<1>1. d \in Nat /\ \A i \in 1 .. d + 1 : i \in 1 .. Len(Slices)
  BY SliceTypes
<1>2. \A i \in 1 .. d + 1 : Chunks[i] \in Seq(Places)
  BY <1>1, SliceTypes
<1>3. First(d + 1) = First(d) \o Chunks[d + 1] /\ First(d) \in Seq(Places)
  BY <1>1, <1>2, FlatNext DEF First
<1>4. Chunks[d + 1] = Part(d, 0, Slices[d + 1])
  <2>1. Chunks[d + 1] = [i \in 1 .. Slices[d + 1] |-> <<d + 1, i>>] /\ Slices[d + 1] \in Nat
    <3> DEFINE e == d + 1
    <3>1. e \in 1 .. Len(Slices)
      BY <1>1
    <3> HIDE DEF e
    <3>2. Chunks[e] = [i \in 1 .. Slices[e] |-> <<e, i>>] /\ Slices[e] \in Nat
      BY <3>1, SliceTypes DEF Chunks
    <3>3. QED
      BY <3>2 DEF e
  <2>2. \A i \in 1 .. Slices[d + 1] : 0 + i = i
    BY <2>1
  <2>3. QED
    BY <2>1, <2>2 DEF Part
<1>5. Part(d, 0, 0) = <<>>
  BY DEF Part
<1>6. First(d) \o <<>> = First(d)
  BY <1>3
<1>7. QED
  BY <1>3, <1>4, <1>5, <1>6 DEF Gone

LEMMA GoneOn ==
    ASSUME NEW d \in 0 .. Len(Slices), NEW j \in Nat, NEW n \in Nat
    PROVE  /\ Gone(d, j) \in Seq(Places)
           /\ Gone(d, j + n) = Gone(d, j) \o Part(d, j, n)
           /\ Extends(Gone(d, j + n), Gone(d, j))
<1>1. d \in Nat /\ j + n \in Nat /\ 0 \in Nat
  BY SliceTypes
<1> DEFINE f == First(d)
           u == Part(d, 0, j)
           v == Part(d, j, n)
           w == Part(d, 0, j + n)
<1>2. f \in Seq(Places)
  BY FirstType
<1>3. /\ u \in Seq(Places) /\ Len(u) = j /\ \A i \in 1 .. j : u[i] = <<d + 1, 0 + i>>
      /\ v \in Seq(Places) /\ Len(v) = n /\ \A i \in 1 .. n : v[i] = <<d + 1, j + i>>
      /\ w \in Seq(Places) /\ Len(w) = j + n /\ \A i \in 1 .. j + n : w[i] = <<d + 1, 0 + i>>
  BY <1>1, PartType, ZenonT(30)
<1> HIDE DEF f, u, v, w
<1>4. u \o v \in Seq(Places) /\ Behind(u \o v, u, v)
  <2> HIDE DEF Places
  <2>1. u \in Seq(Places) /\ v \in Seq(Places)
    BY <1>3
  <2>2. QED
    BY <2>1, Joined
<1> DEFINE uv == u \o v
<1> HIDE DEF uv
<1>5. Len(uv) = j + n /\ \A i \in 1 .. j + n : uv[i] = w[i]
  <2>1. Behind(uv, u, v)
    BY <1>4 DEF uv
  <2>2. Len(uv) = j + n
    BY <1>3, <2>1 DEF Behind
  <2>3. ASSUME NEW i \in 1 .. j + n PROVE uv[i] = w[i]
    <3>1. i \in 1 .. Len(uv)
      BY <2>2
    <3>2. \/ i \in 1 .. Len(u) /\ uv[i] = u[i]
          \/ i - Len(u) \in 1 .. Len(v) /\ i = Len(u) + (i - Len(u)) /\ uv[i] = v[i - Len(u)]
      BY <2>1, <3>1, BehindPlaces
    <3>3. w[i] = <<d + 1, 0 + i>>
      BY <1>3
    <3>4. CASE i \in 1 .. Len(u) /\ uv[i] = u[i]
      BY <1>3, <3>3, <3>4
    <3>5. CASE i - Len(u) \in 1 .. Len(v) /\ i = Len(u) + (i - Len(u)) /\ uv[i] = v[i - Len(u)]
      <4>1. i - j \in 1 .. n /\ uv[i] = v[i - j]
        BY <1>3, <3>5
      <4>2. uv[i] = <<d + 1, j + (i - j)>>
        BY <1>3, <4>1
      <4>3. j + (i - j) = 0 + i
        OBVIOUS
      <4>4. QED
        BY <3>3, <4>2, <4>3
    <3>6. QED
      BY <3>2, <3>4, <3>5
  <2>4. QED
    BY <2>2, <2>3
<1>6. w = u \o v
  <2>1. uv \in Seq(Places) /\ w \in Seq(Places) /\ Len(w) = Len(uv) /\ \A i \in 1 .. Len(w) : w[i] = uv[i]
    BY <1>3, <1>4, <1>5 DEF uv
  <2>2. w = uv
    BY <2>1, SameSeq
  <2>3. QED
    BY <2>2 DEF uv
<1>7. f \o w = (f \o u) \o v
  <2>1. (f \o u) \o v = f \o (u \o v)
    <3>1. f \in Seq(Places) /\ u \in Seq(Places) /\ v \in Seq(Places)
      BY <1>2, <1>3
    <3>2. QED
      BY <3>1, ConcatAssociative, SMTT(30)
  <2>2. QED
    BY <1>6, <2>1
<1>8. f \o u \in Seq(Places)
  BY <1>2, <1>3, ConcatProperties
<1> DEFINE g == f \o u
<1>9. Extends(g \o v, g)
  <2> HIDE DEF g
  <2>1. g \in Seq(Places) /\ v \in Seq(Places)
    BY <1>3, <1>8 DEF g
  <2>2. Behind(g \o v, g, v)
    BY <2>1, Joined
  <2>3. QED
    BY <2>2 DEF Extends, Behind
<1>10. Gone(d, j) = g /\ Gone(d, j + n) = g \o v
  BY <1>7 DEF Gone, f, u, v, w
<1>11. QED
  BY <1>8, <1>9, <1>10 DEF v

LEMMA AllIs == All = First(Len(Slices)) /\ All \in Seq(Places)
<1>1. Chunks = [i \in 1 .. Len(Slices) |-> Chunks[i]]
  BY SliceTypes DEF Chunks
<1>2. All = First(Len(Slices))
  BY <1>1 DEF All, First, Flat
<1>3. QED
  BY <1>2, FirstType, SliceTypes

\* All of it begins with the first slices.
LEMMA AllExtends ==
    ASSUME NEW d \in 0 .. Len(Slices)
    PROVE  Extends(All, First(d))
<1> DEFINE N == Len(Slices)
           T == {x \in Nat : x <= N => Extends(All, First(N - x))}
<1>1. N \in Nat /\ \A x \in 0 .. N : Len(First(x)) \in Nat
  <2>1. \A x \in 0 .. N : First(x) \in Seq(Places)
    BY FirstType
  <2>2. QED
    BY <2>1, SliceTypes
<1>2. 0 \in T
  <2>1. N - 0 = N
    BY <1>1
  <2>2. Extends(All, First(N))
    BY <1>1, AllIs DEF Extends
  <2>3. QED
    BY <2>1, <2>2
<1>3. ASSUME NEW x \in T PROVE x + 1 \in T
  <2> SUFFICES ASSUME x + 1 <= N PROVE Extends(All, First(N - (x + 1)))
    OBVIOUS
  <2> DEFINE e == N - (x + 1)
  <2>1. x \in Nat /\ Extends(All, First(N - x))
    BY <1>1
  <2>2. e \in 0 .. N - 1 /\ N - x = e + 1 /\ e \in 0 .. N /\ e + 1 \in 0 .. N /\ e \in Nat
        /\ e + 1 \in 1 .. N
    BY <1>1, <2>1
  <2> HIDE DEF e
  <2> DEFINE k == Slices[e + 1]
  <2>3. k \in Nat /\ 0 \in Nat /\ 0 + k = k
    BY <2>2, SliceTypes
  <2> HIDE DEF k
  <2>4. Extends(Gone(e, 0 + k), Gone(e, 0))
    BY <2>2, <2>3, GoneOn
  <2>5. Extends(First(e + 1), First(e))
    BY <2>2, <2>3, <2>4, FirstNext DEF k
  <2>6. Extends(All, First(e + 1)) /\ Len(First(e + 1)) \in Nat /\ Len(First(e)) \in Nat /\ Len(All) \in Nat
    BY <1>1, <2>1, <2>2, AllIs
  <2>7. Extends(All, First(e))
    BY <2>5, <2>6, ExtendsTrans
  <2>8. QED
    BY <2>7 DEF e
<1>4. T = Nat
  <2> HIDE DEF T
  <2>1. T \in SUBSET Nat
    BY DEF T
  <2>2. QED
    BY <1>2, <1>3, <2>1, Induction
<1>5. N - d \in T /\ N - d <= N /\ N - (N - d) = d
  <2> HIDE DEF T
  <2>1. QED
    BY <1>1, <1>4
<1>6. QED
  BY <1>5

-----------------------------------------------------------------------------
\* The octets left in order.
Sorted(t) ==
    \A i, j \in 1 .. Len(t) : i < j =>
        \/ t[i][1] < t[j][1]
        \/ t[i][1] = t[j][1] /\ t[i][2] < t[j][2]

\* None of them lies behind octet j of slice d + 1.
Under(t, d, j) ==
    \A i \in 1 .. Len(t) : t[i][1] <= d \/ (t[i][1] = d + 1 /\ t[i][2] <= j)

LEMMA SortedOn ==
    ASSUME NEW t \in Seq(Places), NEW d \in Nat, NEW j \in Nat, NEW n \in Nat,
           Sorted(t), Under(t, d, j)
    PROVE  Sorted(t \o Part(d, j, n)) /\ Under(t \o Part(d, j, n), d, j + n)
<1> DEFINE v == Part(d, j, n)
           w == t \o v
<1>1. v \in Seq(Places) /\ Len(v) = n /\ \A i \in 1 .. n : v[i] = <<d + 1, j + i>>
  BY PartType
<1> HIDE DEF v
<1>2. Behind(w, t, v)
  <2>1. t \in Seq(Places) /\ v \in Seq(Places)
    BY <1>1
  <2>2. QED
    BY <2>1, Joined
<1> HIDE DEF w
<1>3. \A i \in 1 .. Len(t) : t[i][1] \in Nat /\ t[i][2] \in Nat
  <2>1. \A i \in 1 .. Len(t) : t[i] \in Nat \X Nat
    BY ElementOfSeq DEF Places
  <2>2. QED
    BY <2>1
<1>4. \A i \in 1 .. n : v[i][1] = d + 1 /\ v[i][2] = j + i
  BY <1>1
<1>5. Len(t) \in Nat /\ Len(w) = Len(t) + n
  BY <1>1, <1>2 DEF Behind
<1>6. ASSUME NEW i \in 1 .. Len(w)
      PROVE  \/ i \in 1 .. Len(t) /\ w[i] = t[i]
             \/ i - Len(t) \in 1 .. n /\ w[i][1] = d + 1 /\ w[i][2] = j + (i - Len(t))
  <2>1. \/ i \in 1 .. Len(t) /\ w[i] = t[i]
        \/ i - Len(t) \in 1 .. Len(v) /\ w[i] = v[i - Len(t)]
    BY <1>2, BehindPlaces
  <2>2. QED
    BY <1>1, <1>4, <2>1
<1>7. Under(w, d, j + n)
  <2> SUFFICES ASSUME NEW i \in 1 .. Len(w)
               PROVE  w[i][1] <= d \/ (w[i][1] = d + 1 /\ w[i][2] <= j + n)
    BY DEF Under
  <2>1. CASE i \in 1 .. Len(t) /\ w[i] = t[i]
    <3>1. t[i][1] <= d \/ (t[i][1] = d + 1 /\ t[i][2] <= j)
      BY <2>1 DEF Under
    <3>2. t[i][2] <= j => t[i][2] <= j + n
      BY <1>3, <2>1
    <3>3. QED
      BY <2>1, <3>1, <3>2
  <2>2. CASE i - Len(t) \in 1 .. n /\ w[i][1] = d + 1 /\ w[i][2] = j + (i - Len(t))
    BY <1>5, <2>2
  <2>3. QED
    BY <1>6, <2>1, <2>2
<1>8. Sorted(w)
  <2> SUFFICES ASSUME NEW a \in 1 .. Len(w), NEW b \in 1 .. Len(w), a < b
               PROVE  \/ w[a][1] < w[b][1]
                      \/ w[a][1] = w[b][1] /\ w[a][2] < w[b][2]
    BY DEF Sorted
  <2>1. CASE b \in 1 .. Len(t) /\ w[b] = t[b]
    <3>1. a \in 1 .. Len(t) /\ w[a] = t[a]
      BY <1>5, <1>6, <2>1
    <3>2. QED
      BY <2>1, <3>1 DEF Sorted
  <2>2. CASE b - Len(t) \in 1 .. n /\ w[b][1] = d + 1 /\ w[b][2] = j + (b - Len(t))
    <3>1. CASE a \in 1 .. Len(t) /\ w[a] = t[a]
      <4>1. t[a][1] <= d \/ (t[a][1] = d + 1 /\ t[a][2] <= j)
        BY <3>1 DEF Under
      <4>2. t[a][1] <= d => t[a][1] < d + 1
        BY <1>3, <3>1
      <4>3. t[a][2] <= j => t[a][2] < j + (b - Len(t))
        BY <1>3, <1>5, <2>2, <3>1
      <4>4. QED
        BY <2>2, <3>1, <4>1, <4>2, <4>3
    <3>2. CASE a - Len(t) \in 1 .. n /\ w[a][1] = d + 1 /\ w[a][2] = j + (a - Len(t))
      <4>1. j + (a - Len(t)) < j + (b - Len(t))
        BY <1>5
      <4>2. QED
        BY <2>2, <3>2, <4>1
    <3>3. QED
      BY <1>6, <3>1, <3>2
  <2>3. QED
    BY <1>6, <2>1, <2>2
<1>9. QED
  BY <1>7, <1>8 DEF w, v

LEMMA UnderNext ==
    ASSUME NEW t \in Seq(Places), NEW d \in Nat, NEW j \in Nat, Under(t, d, j)
    PROVE  Under(t, d + 1, 0)
<1>1. \A i \in 1 .. Len(t) : t[i][1] \in Nat
  <2>1. \A i \in 1 .. Len(t) : t[i] \in Nat \X Nat
    BY ElementOfSeq DEF Places
  <2>2. QED
    BY <2>1
<1>2. ASSUME NEW i \in 1 .. Len(t) PROVE t[i][1] <= d + 1
  <2>1. t[i][1] <= d \/ t[i][1] = d + 1
    BY DEF Under
  <2>2. QED
    BY <1>1, <2>1
<1>3. QED
  BY <1>2 DEF Under

\* What holds of everything that has left, at all times.
Told(t, result, kind) ==
    /\ t \in Seq(Places)
    /\ Sorted(t)
    /\ result \in Nat /\ result <= Len(t)
    /\ Len(t) <= Len(All)
    /\ Len(t) = Len(All) => t = All
    /\ kind # "fd" => IsPrefix(t, All)

\* Before octet j + 1 of slice d + 1 is written.
Upto(t, d, j, result, kind) ==
    /\ t \in Seq(Places)
    /\ Sorted(t) /\ Under(t, d, j)
    /\ result \in Nat /\ result + j = Len(t)
    /\ Follows(t, Gone(d, j), kind)

\* j octets of the slice in hand, and no more than it has.
In(d, j) == /\ d \in 0 .. Len(Slices) /\ j \in Nat
            /\ d < Len(Slices) => j <= Slices[d + 1]
            /\ d = Len(Slices) => j = 0

LEMMA UptoTold ==
    ASSUME NEW d, NEW j, In(d, j), NEW t, NEW result, NEW kind, Upto(t, d, j, result, kind)
    PROVE  Told(t, result, kind)
<1>1. d \in 0 .. Len(Slices) /\ j \in Nat /\ 0 \in Nat
  BY DEF In
<1> DEFINE g == Gone(d, j)
<1>2. g \in Seq(Places) /\ All \in Seq(Places) /\ t \in Seq(Places)
  BY <1>1, GoneOn, AllIs DEF Upto
<1>3. Extends(All, g)
  <2>1. CASE d < Len(Slices)
    <3> DEFINE n == Slices[d + 1] - j
    <3>1. d \in 0 .. Len(Slices) - 1 /\ d + 1 \in 0 .. Len(Slices) /\ d + 1 \in 1 .. Len(Slices)
      BY <1>1, <2>1, SliceTypes
    <3>2. Slices[d + 1] \in Nat /\ j <= Slices[d + 1]
      BY <2>1, <3>1, SliceTypes DEF In
    <3>3. n \in Nat /\ j + n = Slices[d + 1]
      BY <1>1, <3>2
    <3> HIDE DEF n
    <3>4. Extends(Gone(d, j + n), Gone(d, j))
      BY <1>1, <3>3, GoneOn
    <3>5. Gone(d, j + n) = First(d + 1)
      BY <3>1, <3>3, FirstNext
    <3>6. Extends(All, First(d + 1)) /\ First(d + 1) \in Seq(Places)
      BY <3>1, AllExtends, FirstType
    <3>7. Len(g) \in Nat /\ Len(First(d + 1)) \in Nat /\ Len(All) \in Nat
      BY <1>2, <3>6
    <3>8. QED
      BY <3>4, <3>5, <3>6, <3>7, ExtendsTrans
  <2>2. CASE ~(d < Len(Slices))
    <3>1. d = Len(Slices) /\ j = 0
      <4>1. d = Len(Slices)
        <5>1. Len(Slices) \in Nat
          BY SliceTypes
        <5>2. QED
          BY <1>1, <2>2, <5>1
      <4>2. QED
        BY <4>1 DEF In
    <3>2. Part(d, 0, 0) = <<>>
      BY DEF Part
    <3>3. First(d) \in Seq(Places)
      BY <1>1, FirstType
    <3>4. First(d) \o <<>> = First(d)
      BY <3>3, ConcatEmptySeq
    <3>5. g = First(d)
      BY <3>1, <3>2, <3>4 DEF Gone
    <3>6. QED
      BY <1>1, <3>5, AllExtends
  <2>3. QED
    BY <2>1, <2>2
<1>4. Follows(t, g, kind)
  BY DEF Upto
<1> HIDE DEF g
<1>5. /\ Len(t) <= Len(All) /\ (Len(t) = Len(All) => t = All)
      /\ Extends(All, t) \/ Len(t) # Len(g)
  BY <1>2, <1>3, <1>4, FollowFurther
<1>6. kind # "fd" => IsPrefix(t, All)
  <2>1. kind # "fd" => Len(t) = Len(g)
    BY <1>4 DEF Follows
  <2>2. QED
    BY <1>2, <1>5, <2>1, ExtendsPrefix
<1>7. result \in Nat /\ result <= Len(t)
  BY <1>1, <1>2 DEF Upto
<1>8. QED
  BY <1>2, <1>5, <1>6, <1>7 DEF Told, Upto

\* The kernel takes n octets more.
LEMMA UptoTake ==
    ASSUME NEW d \in 0 .. Len(Slices), NEW j \in Nat, NEW n \in Nat,
           NEW t, NEW result, NEW kind, Upto(t, d, j, result, kind)
    PROVE  Upto(t \o Part(d, j, n), d, j + n, result, kind)
<1>1. t \in Seq(Places) /\ d \in Nat /\ Sorted(t) /\ Under(t, d, j)
  BY SliceTypes DEF Upto
<1> DEFINE v == Part(d, j, n)
<1>2. v \in Seq(Places) /\ Len(v) = n
  BY <1>1, PartType
<1>3. Sorted(t \o v) /\ Under(t \o v, d, j + n)
  BY <1>1, SortedOn
<1>4. Gone(d, j) \in Seq(Places) /\ Gone(d, j + n) = Gone(d, j) \o v
  BY GoneOn
<1> HIDE DEF v
<1>5. Follows(t \o v, Gone(d, j) \o v, kind)
  <2>1. Follows(t, Gone(d, j), kind)
    BY DEF Upto
  <2>2. QED
    BY <1>1, <1>2, <1>4, <2>1, FollowTake
<1>6. t \o v \in Seq(Places) /\ Len(t \o v) = Len(t) + n
  BY <1>1, <1>2, ConcatProperties
<1>7. result \in Nat /\ result + (j + n) = Len(t \o v)
  BY <1>1, <1>6 DEF Upto
<1>8. QED
  BY <1>3, <1>4, <1>5, <1>6, <1>7 DEF Upto, v

\* The slice is over: all of it has left, or the descriptor took less.
LEMMA UptoReturn ==
    ASSUME NEW d \in 0 .. Len(Slices) - 1, NEW j \in Nat, j <= Slices[d + 1],
           NEW t, NEW result, NEW kind, Upto(t, d, j, result, kind),
           kind = "fd" \/ j = Slices[d + 1]
    PROVE  Upto(t, d + 1, 0, result + j, kind)
<1>1. t \in Seq(Places) /\ d \in Nat /\ d \in 0 .. Len(Slices) /\ d + 1 \in 1 .. Len(Slices)
      /\ d + 1 \in 0 .. Len(Slices)
  BY SliceTypes DEF Upto
<1>2. Under(t, d + 1, 0)
  <2>1. Under(t, d, j)
    BY DEF Upto
  <2>2. QED
    BY <1>1, <2>1, UnderNext
<1> DEFINE k == Slices[d + 1]
           n == k - j
<1>3. n \in Nat /\ j + n = k /\ k \in Nat
  BY <1>1, SliceTypes
<1> HIDE DEF k, n
<1>4. Extends(Gone(d, j + n), Gone(d, j)) /\ Gone(d, j) \in Seq(Places)
  BY <1>1, <1>3, GoneOn
<1>5. First(d + 1) = Gone(d, k) /\ First(d + 1) \in Seq(Places)
  BY <1>1, FirstNext, FirstType DEF k
<1>6. Gone(d + 1, 0) = First(d + 1)
  <2>1. Part(d + 1, 0, 0) = <<>>
    BY DEF Part
  <2>2. QED
    BY <1>5, <2>1, ConcatEmptySeq DEF Gone
<1>7. Follows(t, Gone(d + 1, 0), kind)
  <2>1. Follows(t, Gone(d, j), kind)
    BY DEF Upto
  <2>2. CASE j = k
    BY <1>5, <1>6, <2>1, <2>2
  <2>3. CASE j # k
    <3>1. kind = "fd"
      BY <2>3 DEF k
    <3>2. Len(t) <= Len(First(d + 1)) /\ (Len(t) = Len(First(d + 1)) => t = First(d + 1))
      BY <1>1, <1>3, <1>4, <1>5, <2>1, FollowFurther
    <3>3. QED
      BY <1>6, <3>1, <3>2 DEF Follows
  <2>4. QED
    BY <2>2, <2>3
<1>8. result + j \in Nat /\ (result + j) + 0 = Len(t)
  BY <1>1 DEF Upto
<1>9. QED
  BY <1>1, <1>2, <1>7, <1>8 DEF Upto

-----------------------------------------------------------------------------
\* Slices that are over, and octets of the next one that have left.
Over == Len(Slices) - Len(w_todo)
Partly == IF w_remaining = -1 THEN 0 ELSE Head(w_todo) - w_remaining

\* The rest of the slices, and the rest of the one in hand.
Waiting ==
    /\ w_todo \in Seq(Nat) /\ Len(w_todo) <= Len(Slices)
    /\ \A i \in 1 .. Len(w_todo) : w_todo[i] = Slices[Over + i]
    /\ w_remaining \in Int
    /\ w_remaining = -1 \/ (w_remaining >= 0 /\ w_todo # <<>> /\ w_remaining <= Head(w_todo))
    /\ w_kind = "file" => w_remaining = -1 \/ w_remaining = Head(w_todo)

\* The inductive invariant.  While compy_write_slices runs, its result and the
\* octets of the slice in hand are what has left.
WriteInv ==
    /\ Waiting
    /\ w_kind \in {"fd", "tls", "file"}
    /\ Told(w_taken, w_result, w_kind)
    /\ w_status = "writing" => Upto(w_taken, Over, Partly, w_result, w_kind)

LEMMA WaitingIn ==
    ASSUME Waiting
    PROVE  /\ In(Over, Partly)
           /\ w_todo # <<>> => /\ Over \in 0 .. Len(Slices) - 1
                               /\ Head(w_todo) = Slices[Over + 1] /\ Head(w_todo) \in Nat
           /\ w_todo = <<>> => Over = Len(Slices)
<1>1. Len(Slices) \in Nat
  BY SliceTypes
<1>2. w_todo \in Seq(Nat) /\ Len(w_todo) <= Len(Slices) /\ w_remaining \in Int
      /\ \A i \in 1 .. Len(w_todo) : w_todo[i] = Slices[Over + i]
  BY DEF Waiting
<1>3. Len(w_todo) \in Nat /\ (w_todo = <<>> <=> Len(w_todo) = 0)
  BY <1>2
<1>4. Over \in 0 .. Len(Slices) /\ (w_todo # <<>> => Over \in 0 .. Len(Slices) - 1)
      /\ (w_todo = <<>> <=> Over = Len(Slices))
  BY <1>1, <1>2, <1>3 DEF Over
<1>5. w_todo # <<>> => Head(w_todo) = Slices[Over + 1] /\ Head(w_todo) \in Nat
  <2> SUFFICES ASSUME w_todo # <<>> PROVE Head(w_todo) = Slices[Over + 1] /\ Head(w_todo) \in Nat
    OBVIOUS
  <2>1. Head(w_todo) = w_todo[1] /\ Head(w_todo) \in Nat /\ 1 \in 1 .. Len(w_todo)
    BY <1>2, <1>3
  <2> HIDE DEF Over
  <2>2. QED
    BY <1>2, <2>1
<1>6. w_remaining = -1 \/ (w_remaining >= 0 /\ w_todo # <<>> /\ w_remaining <= Head(w_todo))
  BY DEF Waiting
<1> HIDE DEF Over
<1>7. /\ Partly \in Nat
      /\ Over < Len(Slices) => Partly <= Slices[Over + 1]
      /\ Over = Len(Slices) => Partly = 0
  <2>1. CASE w_remaining = -1
    <3>1. Partly = 0
      BY <2>1 DEF Partly
    <3>2. Over < Len(Slices) => Slices[Over + 1] \in Nat
      <4> DEFINE e == Over + 1
      <4>1. Over < Len(Slices) => e \in 1 .. Len(Slices)
        BY <1>1, <1>4
      <4> HIDE DEF e
      <4>2. Over < Len(Slices) => Slices[e] \in Nat
        BY <4>1, SliceTypes
      <4>3. QED
        BY <4>2 DEF e
    <3>3. QED
      BY <3>1, <3>2
  <2>2. CASE w_remaining # -1
    <3>1. Partly = Head(w_todo) - w_remaining /\ w_todo # <<>> /\ w_remaining >= 0 /\ w_remaining <= Head(w_todo)
      BY <1>6, <2>2 DEF Partly
    <3>2. Partly \in Nat /\ Partly <= Head(w_todo) /\ Head(w_todo) = Slices[Over + 1]
      BY <1>2, <1>5, <3>1
    <3>3. QED
      BY <1>4, <3>1, <3>2
  <2>3. QED
    BY <2>1, <2>2
<1>8. QED
  BY <1>4, <1>5, <1>7 DEF In

LEMMA WriteInit == IoInit => WriteInv
<1> SUFFICES ASSUME IoInit PROVE WriteInv
  OBVIOUS
<1>1. w_todo = Slices /\ w_remaining = -1 /\ w_result = 0 /\ w_taken = <<>> /\ w_kind \in {"fd", "tls", "file"}
  BY DEF IoInit
<1>2. Len(Slices) \in Nat /\ Slices \in Seq(Nat)
  BY WritersAssumption
<1>3. Over = 0 /\ Partly = 0
  BY <1>1, <1>2 DEF Over, Partly
<1>4. Waiting
  <2>1. \A i \in 1 .. Len(Slices) : 0 + i = i
    BY <1>2
  <2>2. QED
    BY <1>1, <1>2, <1>3, <2>1 DEF Waiting
<1>5. Upto(<<>>, 0, 0, 0, w_kind)
  <2>1. Gone(0, 0) = <<>>
    <3>1. First(0) = <<>>
      BY FlatNone DEF First
    <3>2. Part(0, 0, 0) = <<>>
      BY DEF Part
    <3>3. QED
      BY <3>1, <3>2 DEF Gone
  <2>2. <<>> \in Seq(Places) /\ Len(<<>>) = 0
    BY EmptySeq
  <2>3. Follows(<<>>, <<>>, w_kind)
    BY <2>2 DEF Follows
  <2>4. Sorted(<<>>) /\ Under(<<>>, 0, 0)
    BY <2>2 DEF Sorted, Under
  <2>5. QED
    BY <2>1, <2>2, <2>3, <2>4 DEF Upto
<1>6. Told(<<>>, 0, w_kind)
  BY <1>3, <1>4, <1>5, UptoTold, WaitingIn
<1>7. QED
  BY <1>1, <1>3, <1>4, <1>5, <1>6 DEF WriteInv

LEMMA NextSliceInv ==
    ASSUME WriteInv, NextSlice
    PROVE  WriteInv'
<1>1. /\ w_status = "writing" /\ w_remaining = -1
      /\ IF w_todo = <<>> THEN w_status' = "done" /\ UNCHANGED w_remaining
         ELSE w_remaining' = Head(w_todo) /\ UNCHANGED w_status
      /\ UNCHANGED <<w_kind, w_todo, w_result, w_taken>>
  BY DEF NextSlice
<1>2. Over' = Over /\ Waiting
  BY <1>1 DEF Over, WriteInv
<1>3. CASE w_todo = <<>>
  <2>1. Waiting'
    BY <1>1, <1>2, <1>3 DEF Waiting
  <2>2. QED
    BY <1>1, <1>3, <2>1 DEF WriteInv, Told
<1>4. CASE w_todo # <<>>
  <2>1. Head(w_todo) \in Nat
    BY <1>2, <1>4, WaitingIn
  <2>2. Waiting'
    BY <1>1, <1>2, <1>4, <2>1 DEF Waiting
  <2>3. Partly = 0 /\ Partly' = 0
    BY <1>1, <1>4, <2>1 DEF Partly
  <2>4. Upto(w_taken', Over', Partly', w_result', w_kind')
    BY <1>1, <1>2, <2>3 DEF WriteInv
  <2>5. QED
    BY <1>1, <2>2, <2>4 DEF WriteInv, Told
<1>5. QED
  BY <1>3, <1>4

\* A write in progress.
LEMMA InHand ==
    ASSUME WriteInv, w_status = "writing", w_remaining >= 0
    PROVE  /\ w_todo # <<>> /\ Over \in 0 .. Len(Slices) - 1 /\ Over \in 0 .. Len(Slices)
           /\ Head(w_todo) = Slices[Over + 1] /\ Head(w_todo) \in Nat
           /\ w_remaining \in 0 .. Head(w_todo)
           /\ Partly = Head(w_todo) - w_remaining /\ Partly \in Nat /\ Partly <= Slices[Over + 1]
           /\ Upto(w_taken, Over, Partly, w_result, w_kind)
<1>1. Waiting /\ w_remaining \in Int
  BY DEF WriteInv, Waiting
<1>2. w_remaining # -1
  BY <1>1
<1>3. w_todo # <<>> /\ w_remaining <= Head(w_todo)
  BY <1>1, <1>2 DEF Waiting
<1>4. Over \in 0 .. Len(Slices) - 1 /\ Head(w_todo) = Slices[Over + 1] /\ Head(w_todo) \in Nat
  BY <1>1, <1>3, WaitingIn
<1>5. Partly = Head(w_todo) - w_remaining
  BY <1>2 DEF Partly
<1>6. Len(Slices) \in Nat
  BY SliceTypes
<1>7. Over \in 0 .. Len(Slices)
  BY <1>4, <1>6
<1>8. w_remaining \in 0 .. Head(w_todo) /\ Partly \in Nat /\ Partly <= Head(w_todo)
  BY <1>1, <1>3, <1>4, <1>5
<1>9. QED
  BY <1>3, <1>4, <1>5, <1>7, <1>8 DEF WriteInv

\* The octets that the kernel takes next.
LEMMA TakeFromIs ==
    ASSUME WriteInv, w_status = "writing", w_remaining >= 0, NEW n \in Nat
    PROVE  TakeFrom(n) = Part(Over, Partly, n)
<1>1. Nth = Over + 1
  BY DEF Nth, Over
<1>2. Head(w_todo) - w_remaining = Partly
  BY InHand
<1>3. \A i \in 1 .. n : (Head(w_todo) - w_remaining) + i = Partly + i
  BY <1>2
<1>4. QED
  BY <1>1, <1>2 DEF TakeFrom, Part

\* What the writer's write leaves behind when it returns n.
LEMMA ReturnsInv ==
    ASSUME WriteInv, w_status = "writing", w_remaining >= 0, NEW n \in Int, WriteReturns(n),
           UNCHANGED w_kind, NEW j \in Nat, j <= Slices[Over + 1],
           Upto(w_taken', Over, j, w_result, w_kind),
           n >= 0 => n = j /\ (w_kind = "fd" \/ j = Slices[Over + 1])
    PROVE  WriteInv'
<1> DEFINE d == Over
<1>1. w_todo # <<>> /\ d \in 0 .. Len(Slices) - 1 /\ d \in 0 .. Len(Slices)
  BY InHand
<1>2. Waiting /\ w_kind \in {"fd", "tls", "file"}
  BY DEF WriteInv
<1>3. Len(Slices) \in Nat /\ w_todo \in Seq(Nat)
  BY <1>2, SliceTypes DEF Waiting
<1>4. CASE n < 0
  <2>1. w_remaining' = -1 /\ w_status' = "done" /\ UNCHANGED <<w_todo, w_result>>
    BY <1>4 DEF WriteReturns
  <2>2. Waiting'
    <3>1. Over' = Over
      BY <2>1 DEF Over
    <3>2. QED
      BY <1>2, <2>1, <3>1 DEF Waiting
  <2>3. Told(w_taken', w_result, w_kind)
    <3>1. In(d, j)
      <4>1. d # Len(Slices)
        BY <1>1, <1>3
      <4> HIDE DEF d
      <4>2. j <= Slices[d + 1]
        BY DEF d
      <4>3. QED
        BY <1>1, <4>1, <4>2 DEF In
    <3>2. QED
      BY <3>1, UptoTold
  <2>4. QED
    BY <1>2, <2>1, <2>2, <2>3 DEF WriteInv
<1>5. CASE n >= 0
  <2>1. w_remaining' = -1 /\ w_todo' = Tail(w_todo) /\ w_result' = w_result + n /\ UNCHANGED w_status
    BY <1>5 DEF WriteReturns
  <2>2. w_todo' \in Seq(Nat) /\ Len(w_todo') = Len(w_todo) - 1 /\ Len(w_todo) \in Nat
        /\ \A i \in 1 .. Len(w_todo') : w_todo'[i] = w_todo[i + 1]
    BY <1>1, <1>3, <2>1, HeadTailProperties
  <2>3. Over' = Over + 1
    BY <1>3, <2>2 DEF Over
  <2>4. Waiting'
    <3>1. Len(w_todo) <= Len(Slices) /\ \A i \in 1 .. Len(w_todo) : w_todo[i] = Slices[Over + i]
      BY <1>2 DEF Waiting
    <3>2. ASSUME NEW i \in 1 .. Len(w_todo')
          PROVE  w_todo'[i] = Slices[Over' + i]
      <4>1. i + 1 \in 1 .. Len(w_todo) /\ Over + (i + 1) = Over' + i
        BY <1>1, <2>2, <2>3
      <4>2. QED
        BY <2>2, <3>1, <4>1
    <3>3. Len(w_todo') <= Len(Slices)
      BY <1>3, <2>2, <3>1
    <3>4. QED
      BY <2>1, <2>2, <3>2, <3>3 DEF Waiting
  <2>5. Upto(w_taken', Over + 1, 0, w_result + j, w_kind)
    BY <1>1, <1>5, UptoReturn
  <2>6. Partly' = 0
    BY <2>1 DEF Partly
  <2>7. Upto(w_taken', Over', Partly', w_result', w_kind')
    BY <1>5, <2>1, <2>3, <2>5, <2>6
  <2>8. In(Over', 0)
    <3>1. In(Over, Partly)'
      BY <2>4, WaitingIn, PTL
    <3>2. QED
      BY <2>6, <3>1
  <2>9. Told(w_taken', w_result', w_kind')
    BY <2>6, <2>7, <2>8, UptoTold
  <2>10. QED
    BY <1>2, <2>4, <2>7, <2>9 DEF WriteInv
<1>6. QED
  BY <1>4, <1>5

\* The kernel takes n octets and the write goes on.
LEMMA TakesInv ==
    ASSUME WriteInv, w_status = "writing", w_remaining >= 0, w_kind # "file", UNCHANGED w_kind, Takes
    PROVE  WriteInv'
<1>1. PICK n \in 1 .. w_remaining :
          /\ w_taken' = w_taken \o TakeFrom(n)
          /\ w_remaining' = w_remaining - n
          /\ UNCHANGED <<w_todo, w_result, w_status>>
  BY DEF Takes
<1>2. /\ w_todo # <<>> /\ Over \in 0 .. Len(Slices) /\ Head(w_todo) \in Nat
      /\ w_remaining \in 0 .. Head(w_todo)
      /\ Partly = Head(w_todo) - w_remaining /\ Partly \in Nat
      /\ Upto(w_taken, Over, Partly, w_result, w_kind)
  BY InHand
<1>3. n \in Nat /\ w_remaining' \in 0 .. Head(w_todo)
  BY <1>1, <1>2
<1>4. Over' = Over
  BY <1>1 DEF Over
<1>5. Partly' = Partly + n
  <2>1. w_remaining' # -1
    BY <1>2, <1>3
  <2>2. Partly' = Head(w_todo) - w_remaining'
    BY <1>1, <2>1 DEF Partly
  <2>3. QED
    BY <1>1, <1>2, <1>3, <2>2
<1>6. Upto(w_taken', Over, Partly + n, w_result, w_kind)
  <2>1. w_taken' = w_taken \o Part(Over, Partly, n)
    BY <1>1, <1>3, TakeFromIs
  <2>2. QED
    BY <1>2, <1>3, <2>1, UptoTake
<1>7. Waiting'
  <2>1. Waiting
    BY DEF WriteInv
  <2>2. w_remaining' \in Int /\ w_remaining' >= 0 /\ w_remaining' <= Head(w_todo)
    BY <1>2, <1>3
  <2>3. QED
    BY <1>1, <1>2, <1>4, <2>1, <2>2 DEF Waiting
<1>8. In(Over, Partly)'
  BY <1>7, WaitingIn, PTL
<1>9. Upto(w_taken', Over', Partly', w_result', w_kind')
  BY <1>1, <1>4, <1>5, <1>6
<1>10. Told(w_taken', w_result', w_kind')
  BY <1>8, <1>9, UptoTold
<1>11. QED
  BY <1>7, <1>9, <1>10 DEF WriteInv

\* The write returns without a further octet.
LEMMA EndsInv ==
    ASSUME WriteInv, w_status = "writing", w_remaining >= 0, UNCHANGED <<w_kind, w_taken>>,
           NEW n \in Int, WriteReturns(n),
           n >= 0 => n = Partly /\ (w_kind = "fd" \/ w_remaining = 0)
    PROVE  WriteInv'
<1>1. /\ Head(w_todo) = Slices[Over + 1] /\ Head(w_todo) \in Nat
      /\ Partly = Head(w_todo) - w_remaining /\ Partly \in Nat /\ Partly <= Slices[Over + 1]
      /\ Upto(w_taken, Over, Partly, w_result, w_kind)
  BY InHand
<1>2. w_remaining = 0 => Partly = Slices[Over + 1]
  BY <1>1
<1>3. Upto(w_taken', Over, Partly, w_result, w_kind)
  BY <1>1
<1> HIDE DEF Partly
<1>4. QED
  BY <1>1, <1>2, <1>3, ReturnsInv

LEMMA FileWriteInv ==
    ASSUME WriteInv, w_status = "writing", w_remaining >= 0, w_kind = "file", UNCHANGED w_kind, FileWrite
    PROVE  WriteInv'
<1>1. PICK n \in 0 .. w_remaining, ferror \in BOOLEAN :
          /\ n < w_remaining => ferror
          /\ w_taken' = w_taken \o TakeFrom(n)
          /\ WriteReturns(IF ferror THEN -1 ELSE n)
  BY DEF FileWrite
<1>2. /\ Over \in 0 .. Len(Slices) /\ Head(w_todo) = Slices[Over + 1] /\ Head(w_todo) \in Nat
      /\ w_remaining \in 0 .. Head(w_todo)
      /\ Partly = Head(w_todo) - w_remaining /\ Partly \in Nat
      /\ Upto(w_taken, Over, Partly, w_result, w_kind)
  BY InHand
<1>3. w_remaining = Head(w_todo)
  <2>1. w_remaining # -1
    BY <1>2
  <2>2. QED
    BY <2>1 DEF WriteInv, Waiting
<1>4. n \in Nat /\ n <= Slices[Over + 1] /\ Partly = 0
  BY <1>1, <1>2, <1>3
<1>5. w_taken' = w_taken \o Part(Over, 0, n)
  BY <1>1, <1>4, TakeFromIs
<1>6. Upto(w_taken', Over, n, w_result, w_kind)
  <2>1. Upto(w_taken', Over, 0 + n, w_result, w_kind)
    BY <1>2, <1>4, <1>5, UptoTake
  <2>2. QED
    BY <1>4, <2>1
<1>7. CASE ferror
  <2>1. WriteReturns(-1) /\ -1 \in Int /\ ~(-1 >= 0)
    BY <1>1, <1>7
  <2>2. QED
    BY <1>4, <1>6, <2>1, ReturnsInv
<1>8. CASE ~ferror
  <2>1. WriteReturns(n) /\ n \in Int /\ n = Slices[Over + 1]
    BY <1>1, <1>2, <1>3, <1>4, <1>8
  <2>2. QED
    BY <1>4, <1>6, <2>1, ReturnsInv
<1>9. QED
  BY <1>7, <1>8

LEMMA WriteStep ==
    ASSUME WriteInv, Write
    PROVE  WriteInv'
<1>1. w_status = "writing" /\ w_remaining >= 0 /\ UNCHANGED w_kind
  BY DEF Write
<1>2. Partly = Head(w_todo) - w_remaining /\ Partly \in Nat /\ Head(w_todo) \in Nat
  BY <1>1, InHand
<1>3. -1 \in Int /\ ~(-1 >= 0)
  OBVIOUS
<1>4. CASE w_kind = "fd" /\ FdWrite
  <2>1. CASE Takes
    BY <1>1, <1>4, <2>1, TakesInv
  <2>2. CASE WriteReturns(Head(w_todo) - w_remaining) /\ UNCHANGED w_taken
    <3>1. WriteReturns(Partly) /\ Partly \in Int
      BY <1>2, <2>2
    <3>2. QED
      BY <1>1, <1>4, <2>2, <3>1, EndsInv
  <2>3. CASE WriteReturns(-1) /\ UNCHANGED w_taken
    BY <1>1, <1>3, <2>3, EndsInv
  <2>4. QED
    BY <1>4, <2>1, <2>2, <2>3 DEF FdWrite
<1>5. CASE w_kind = "tls" /\ TlsWrite
  <2>1. CASE Takes
    BY <1>1, <1>5, <2>1, TakesInv
  <2>2. CASE w_remaining = 0 /\ WriteReturns(Head(w_todo)) /\ UNCHANGED w_taken
    <3>1. Partly = Head(w_todo) /\ Partly \in Int
      BY <1>2, <2>2
    <3>2. WriteReturns(Partly)
      BY <2>2, <3>1
    <3>3. QED
      BY <1>1, <2>2, <3>1, <3>2, EndsInv
  <2>3. CASE WriteReturns(-1) /\ UNCHANGED w_taken
    BY <1>1, <1>3, <2>3, EndsInv
  <2>4. QED
    BY <1>5, <2>1, <2>2, <2>3 DEF TlsWrite
<1>6. CASE w_kind = "file" /\ FileWrite
  BY <1>1, <1>6, FileWriteInv
<1>7. QED
  BY <1>4, <1>5, <1>6 DEF Write

\* send_packet goes round again only when nothing has left.
UdpInv ==
    /\ u_left \in Int
    /\ u_sent \in {0, 1} /\ u_result \in {-1, 0, 1}
    /\ u_result = 1 => u_sent = 0
    /\ u_result # 1 => (u_result = 0 <=> u_sent = 1)

LEMMA UdpInvStep ==
    ASSUME UdpInv, Transmit \/ SendMsg \/ UNCHANGED udpVars
    PROVE  UdpInv'
<1>1. CASE Transmit
  BY <1>1, WritersAssumption DEF Transmit, UdpInv
<1>2. CASE SendMsg
  <2>1. u_left \in Int /\ u_left > 0 /\ u_result = 1 /\ u_sent = 0
    BY <1>2 DEF SendMsg, UdpInv
  <2>2. CASE \E ok \in BOOLEAN :
                 /\ u_sent' = u_sent + (IF ok THEN 1 ELSE 0)
                 /\ u_left' = u_left - 1
                 /\ u_result' = IF Retry(ok) THEN 1 ELSE IF ok THEN 0 ELSE -1
    <3>1. PICK ok \in BOOLEAN :
                 /\ u_sent' = u_sent + (IF ok THEN 1 ELSE 0)
                 /\ u_left' = u_left - 1
                 /\ u_result' = IF Retry(ok) THEN 1 ELSE IF ok THEN 0 ELSE -1
      BY <2>2
    <3>2. CASE ok
      <4>1. ~Retry(ok)
        BY <3>2 DEF Retry
      <4>2. u_sent' = 1 /\ u_left' \in Int /\ u_result' = 0
        BY <2>1, <3>1, <3>2, <4>1
      <4>3. QED
        BY <4>2 DEF UdpInv
    <3>3. CASE ~ok
      <4>1. u_sent' = 0 /\ u_left' \in Int /\ u_result' \in {1, -1}
        BY <2>1, <3>1, <3>3
      <4>2. QED
        BY <4>1 DEF UdpInv
    <3>4. QED
      BY <3>2, <3>3
  <2>3. CASE u_result' = -1 /\ UNCHANGED <<u_left, u_sent>>
    BY <2>1, <2>3 DEF UdpInv
  <2>4. QED
    BY <1>2, <2>2, <2>3 DEF SendMsg
<1>3. CASE UNCHANGED udpVars
  BY <1>3 DEF udpVars, UdpInv
<1>4. QED
  BY <1>1, <1>2, <1>3

LEMMA WriteSame ==
    ASSUME WriteInv, UNCHANGED writeVars
    PROVE  WriteInv'
<1>1. UNCHANGED <<w_kind, w_todo, w_remaining, w_result, w_taken, w_status>>
  BY DEF writeVars
<1>2. Over' = Over /\ Partly' = Partly
  BY <1>1 DEF Over, Partly
<1>3. Waiting'
  BY <1>1, <1>2 DEF WriteInv, Waiting
<1>4. QED
  BY <1>1, <1>2, <1>3 DEF WriteInv

LEMMA IoStep ==
    ASSUME WriteInv, UdpInv, [IoNext]_ioVars
    PROVE  WriteInv' /\ UdpInv'
<1>1. CASE NextSlice
  <2>1. UNCHANGED udpVars
    BY <1>1 DEF NextSlice, udpVars
  <2>2. QED
    BY <1>1, <2>1, NextSliceInv, UdpInvStep
<1>2. CASE Write
  <2>1. UNCHANGED udpVars
    BY <1>2 DEF Write, udpVars
  <2>2. QED
    BY <1>2, <2>1, WriteStep, UdpInvStep
<1>3. CASE Transmit
  <2>1. UNCHANGED writeVars
    BY <1>3 DEF Transmit, writeVars
  <2>2. QED
    BY <1>3, <2>1, WriteSame, UdpInvStep
<1>4. CASE SendMsg
  <2>1. UNCHANGED writeVars
    BY <1>4 DEF SendMsg, writeVars
  <2>2. QED
    BY <1>4, <2>1, WriteSame, UdpInvStep
<1>5. CASE UNCHANGED ioVars
  <2>1. UNCHANGED writeVars /\ UNCHANGED udpVars
    BY <1>5 DEF ioVars
  <2>2. QED
    BY <2>1, WriteSame, UdpInvStep
<1>6. QED
  BY <1>1, <1>2, <1>3, <1>4, <1>5 DEF IoNext

LEMMA IoInvTruthful ==
    ASSUME WriteInv, UdpInv
    PROVE  WriteTruthful
<1>1. Told(w_taken, w_result, w_kind)
  BY DEF WriteInv
<1>2. w_taken \in Seq(Places) /\ All \in Seq(Places)
  BY <1>1, AllIs DEF Told
<1>3. DOMAIN w_taken = 1 .. Len(w_taken) /\ Len(w_taken) \in Nat /\ Len(All) \in Nat
  BY <1>2, LenProperties
<1>4. \A i, j \in DOMAIN w_taken : i < j =>
          \/ w_taken[i][1] < w_taken[j][1]
          \/ w_taken[i][1] = w_taken[j][1] /\ w_taken[i][2] < w_taken[j][2]
  BY <1>1, <1>3 DEF Told, Sorted
<1>5. w_result <= Len(w_taken) /\ (w_kind # "fd" => IsPrefix(w_taken, All))
  BY <1>1 DEF Told
<1>6. w_result = Len(All) => w_taken = All
  <2>1. w_result \in Nat /\ Len(w_taken) <= Len(All) /\ (Len(w_taken) = Len(All) => w_taken = All)
    BY <1>1 DEF Told
  <2> DEFINE a == Len(All)
             t == Len(w_taken)
  <2>2. a \in Nat /\ t \in Nat /\ w_result <= t /\ t <= a /\ w_result \in Nat
    BY <1>3, <1>5, <2>1
  <2> HIDE DEF a, t
  <2>3. w_result = a => t = a
    BY <2>2
  <2>4. QED
    BY <2>1, <2>3 DEF a, t
<1>7. All = FlattenSeq([s \in DOMAIN Slices |-> [i \in 1 .. Slices[s] |-> <<s, i>>]])
  BY DEF All, Chunks
<1>8. u_sent <= 1 /\ (u_result # 1 => (u_result = 0 <=> u_sent = 1))
  BY DEF UdpInv
<1> HIDE DEF All
<1>9. QED
  BY <1>4, <1>5, <1>6, <1>7, <1>8 DEF WriteTruthful

\* Nobody is told more than has left: for every list of slices and every limit
\* of retransmissions, whatever the kernel takes of each write of src/writer/fd.c,
\* src/tls.c and src/writer/file.c and whenever it fails, compy_write_slices
\* counts nothing that has not left and counts everything only if everything left
\* in order; TLS and stdio leave no hole; send_packet of src/transport/udp.c sends a
\* datagram at most once, and exactly if it returns 0.
THEOREM IoWriteTruthful == IoSpec => []WriteTruthful
<1>1. IoInit => WriteInv /\ UdpInv
  <2>1. IoInit => UdpInv
    BY DEF IoInit, UdpInv
  <2>2. QED
    BY <2>1, WriteInit
<1>2. (WriteInv /\ UdpInv) /\ [IoNext]_ioVars => (WriteInv /\ UdpInv)'
  BY IoStep
<1>3. WriteInv /\ UdpInv => WriteTruthful
  BY IoInvTruthful
<1>4. QED
  BY <1>1, <1>2, <1>3, PTL DEF IoSpec
-----------------------------------------------------------------------------
(* RtpReceiver: the header, written and read.                              *)

\* The first two octets, and where the sources end.
FirstOctet(h) == 64 * h.version + 32 * Bit(h.padding) + 16 * Bit(h.extension) + Len(h.csrc)
SecondOctet(h) == 128 * Bit(h.marker) + h.payload_ty
CsrcEnd(h) == 12 + 4 * Len(h.csrc)

LEMMA FirstOctets ==
    ASSUME NEW h, HeaderFits(h)
    PROVE  /\ FirstOctet(h) \in RtpOctet /\ SecondOctet(h) \in RtpOctet
           /\ FirstOctet(h) \div 64 = h.version
           /\ FirstOctet(h) % 16 = Len(h.csrc)
           /\ (FirstOctet(h) \div 16) % 2 = 1 <=> h.extension
           /\ SecondOctet(h) % 128 = h.payload_ty
<1> DEFINE v == h.version
           p == Bit(h.padding)
           x == Bit(h.extension)
           m == Bit(h.marker)
           t == h.payload_ty
           c == Len(h.csrc)
           a == 64 * v + 32 * p + 16 * x + c
           b == 128 * m + t
<1>1. v \in 0 .. 3 /\ t \in 0 .. 127
  BY SMT DEF HeaderFits, NumbersFit
<1>2. h.padding \in BOOLEAN /\ h.extension \in BOOLEAN /\ h.marker \in BOOLEAN
  BY Zenon DEF HeaderFits, BitsFit
<1>3. c \in Nat /\ c <= 15
  <2>1. WordsFit(h)
    BY Zenon DEF HeaderFits
  <2>2. QED
    BY <2>1, SMT DEF WordsFit
<1>4. p \in {0, 1} /\ x \in {0, 1} /\ m \in {0, 1} /\ (x = 1 <=> h.extension)
  BY <1>2, SMT DEF Bit
<1> HIDE DEF v, p, x, m, t, c
<1>5. a \in 0 .. 255 /\ b \in 0 .. 255
  BY <1>1, <1>3, <1>4, SMT
<1>6. a \div 64 = v
  BY <1>1, <1>3, <1>4, SMT
<1>7. a % 16 = c
  BY <1>1, <1>3, <1>4, SMT
<1>8. (a \div 16) % 2 = x
  BY <1>1, <1>3, <1>4, SMT
<1>9. b % 128 = t
  BY <1>1, <1>4, SMT
<1>10. FirstOctet(h) = a /\ SecondOctet(h) = b
  BY SMT DEF FirstOctet, SecondOctet, v, p, x, m, t, c
<1> HIDE DEF a, b
<1>11. QED
  BY <1>4, <1>5, <1>6, <1>7, <1>8, <1>9, <1>10, SMT DEF RtpOctet, v, c, t

LEMMA OctetsSeq ==
    ASSUME NEW n \in Nat, NEW q \in Octets(n)
    PROVE  q \in Seq(RtpOctet) /\ Len(q) = n
BY SMT DEF Octets

\* The sources are four octets each.
LEMMA SourcesLen ==
    ASSUME NEW f \in Seq(Octets(4))
    PROVE  FlattenSeq(f) \in Seq(RtpOctet) /\ Len(FlattenSeq(f)) = 4 * Len(f)
<1>1. /\ Len(f) \in Nat /\ DOMAIN f = 1 .. Len(f) /\ f = [i \in 1 .. Len(f) |-> f[i]]
      /\ \A i \in 1 .. Len(f) : f[i] \in Octets(4)
  BY ElementOfSeq, LenProperties, SMT
<1>2. \A i \in 1 .. Len(f) : f[i] \in Seq(RtpOctet) /\ Len(f[i]) = 4
  <2>1. ASSUME NEW i \in 1 .. Len(f) PROVE f[i] \in Seq(RtpOctet) /\ Len(f[i]) = 4
    <3>1. f[i] \in Octets(4) /\ 4 \in Nat
      BY <1>1, SMT
    <3>2. QED
      BY <3>1, OctetsSeq
  <2>2. QED
    BY <2>1
<1> DEFINE T == {n \in Nat : n <= Len(f) => Flat(f, n) \in Seq(RtpOctet) /\ Len(Flat(f, n)) = 4 * n}
<1>3. 0 \in T
  <2>1. Flat(f, 0) = <<>>
    BY FlatNone
  <2>2. Flat(f, 0) \in Seq(RtpOctet) /\ Len(Flat(f, 0)) = 0
    BY <2>1, EmptySeq
  <2>3. 4 * 0 = 0 /\ 0 \in Nat
    BY SMT
  <2>4. QED
    BY <2>2, <2>3
<1>4. \A n \in T : n + 1 \in T
  <2> SUFFICES ASSUME NEW n \in T, n + 1 <= Len(f)
               PROVE  Flat(f, n + 1) \in Seq(RtpOctet) /\ Len(Flat(f, n + 1)) = 4 * (n + 1)
    BY SMT
  <2>1. n \in Nat /\ n <= Len(f) /\ n + 1 \in 1 .. Len(f) /\ \A i \in 1 .. n + 1 : i \in 1 .. Len(f)
    BY <1>1, SMT
  <2>2. Flat(f, n) \in Seq(RtpOctet) /\ Len(Flat(f, n)) = 4 * n
    BY <2>1
  <2> HIDE DEF T
  <2>3. \A i \in 1 .. n + 1 : f[i] \in Seq(RtpOctet)
    BY <1>2, <2>1
  <2>4. Flat(f, n + 1) = Flat(f, n) \o f[n + 1]
    BY <2>1, <2>3, FlatNext
  <2>5. f[n + 1] \in Seq(RtpOctet) /\ Len(f[n + 1]) = 4
    BY <1>2, <2>1
  <2> DEFINE g == Flat(f, n)
             k == f[n + 1]
  <2>6. g \in Seq(RtpOctet) /\ k \in Seq(RtpOctet)
    BY <2>2, <2>5
  <2> HIDE DEF g, k
  <2>7. g \o k \in Seq(RtpOctet) /\ Len(g \o k) = Len(g) + Len(k)
    BY <2>6, ConcatProperties
  <2>8. Len(g) + Len(k) = 4 * (n + 1)
    BY <2>1, <2>2, <2>5, SMT DEF g, k
  <2>9. QED
    BY <2>4, <2>7, <2>8 DEF g, k
<1>5. T = Nat
  <2>1. T \in SUBSET Nat
    OBVIOUS
  <2> HIDE DEF T
  <2>2. QED
    BY <1>3, <1>4, <2>1, Induction
<1>6. Len(f) \in T
  BY <1>1, <1>5
<1>7. Flat(f, Len(f)) = FlattenSeq(f)
  BY <1>1 DEF Flat
<1>8. Len(f) <= Len(f)
  BY <1>1, SMT
<1>9. QED
  BY <1>6, <1>7, <1>8

\* The first octets, up to the SSRC.
Fixed(h) == <<FirstOctet(h), SecondOctet(h)>> \o h.sequence_number \o h.timestamp \o h.ssrc

LEMMA FixedIs ==
    ASSUME NEW h, HeaderFits(h)
    PROVE  /\ Fixed(h) \in Seq(RtpOctet) /\ Len(Fixed(h)) = 12
           /\ Fixed(h)[1] = FirstOctet(h) /\ Fixed(h)[2] = SecondOctet(h)
           /\ \A i \in 1 .. 4 : Fixed(h)[4 + i] = h.timestamp[i] /\ Fixed(h)[8 + i] = h.ssrc[i]
<1> DEFINE a == <<FirstOctet(h), SecondOctet(h)>>
           n == h.sequence_number
           t == h.timestamp
           s == h.ssrc
<1>1. WordsFit(h)
  BY Zenon DEF HeaderFits
<1>2. n \in Octets(2) /\ t \in Octets(4) /\ s \in Octets(4) /\ 2 \in Nat /\ 4 \in Nat
  BY <1>1, SMT DEF WordsFit
<1>3. n \in Seq(RtpOctet) /\ Len(n) = 2 /\ t \in Seq(RtpOctet) /\ Len(t) = 4 /\ s \in Seq(RtpOctet) /\ Len(s) = 4
  BY <1>2, OctetsSeq
<1>4. a \in Seq(RtpOctet) /\ Len(a) = 2 /\ a[1] = FirstOctet(h) /\ a[2] = SecondOctet(h)
  <2>1. FirstOctet(h) \in RtpOctet /\ SecondOctet(h) \in RtpOctet
    BY FirstOctets
  <2>2. QED
    BY <2>1
<1> DEFINE u == a \o n
           v == u \o t
           w == v \o s
<1> HIDE DEF a, n, t, s
<1>5. u \in Seq(RtpOctet) /\ Behind(u, a, n)
  BY <1>3, <1>4, Joined
<1> HIDE DEF u
<1>6. v \in Seq(RtpOctet) /\ Behind(v, u, t)
  BY <1>3, <1>5, Joined
<1> HIDE DEF v
<1>7. w \in Seq(RtpOctet) /\ Behind(w, v, s)
  BY <1>3, <1>6, Joined
<1> HIDE DEF w
<1>8. Len(u) = 4 /\ u[1] = a[1] /\ u[2] = a[2]
  BY <1>3, <1>4, <1>5, SMT DEF Behind
<1>9. Len(v) = 8 /\ v[1] = u[1] /\ v[2] = u[2] /\ \A i \in 1 .. 4 : v[4 + i] = t[i]
  BY <1>3, <1>6, <1>8, SMT DEF Behind
<1>10. Len(w) = 12 /\ w[1] = v[1] /\ w[2] = v[2] /\ \A i \in 1 .. 4 : w[4 + i] = v[4 + i] /\ w[8 + i] = s[i]
  BY <1>3, <1>7, <1>9, SMT DEF Behind
<1>11. Fixed(h) = w
  BY DEF Fixed, w, v, u, a, n, t, s
<1>12. QED
  BY <1>4, <1>7, <1>8, <1>9, <1>10, <1>11, SMT DEF t, s

\* The extension of a header that has one.
Extension(h) ==
    h.extension_profile
        \o <<h.extension_payload_len \div 256, h.extension_payload_len % 256>>
        \o SubSeq(h.extension_payload, 1, 4 * h.extension_payload_len)

LEMMA WordIs == ASSUME NEW l \in Words16 PROVE l \in Nat /\ l < 256 * 256
BY SMT DEF Words16

LEMMA ExtensionIs ==
    ASSUME NEW h, ExtensionFits(h)
    PROVE  /\ Extension(h) \in Seq(RtpOctet) /\ Len(Extension(h)) = 4 + 4 * h.extension_payload_len
           /\ h.extension_payload_len \in Nat
           /\ Extension(h)[3] * 256 + Extension(h)[4] = h.extension_payload_len
<1> DEFINE f == h.extension_profile
           l == h.extension_payload_len
           d == h.extension_payload
           n == <<l \div 256, l % 256>>
           q == SubSeq(d, 1, 4 * l)
<1>1. f \in Octets(2) /\ d \in Seq(RtpOctet) /\ 2 \in Nat
  <2>1. f \in Octets(2) /\ d \in Seq(RtpOctet)
    BY Zenon DEF ExtensionFits
  <2>2. QED
    BY <2>1, SMT
<1>2. l \in Nat /\ l < 256 * 256 /\ 4 * l \in Nat /\ 4 * l <= Len(d) /\ Len(d) \in Nat
  <2>1. l \in Nat /\ l < 256 * 256
    <3>1. l \in Words16
      BY Zenon DEF ExtensionFits
    <3>2. QED
      BY <3>1, WordIs
  <2>2. Len(d) \in Nat
    BY <1>1, LenProperties
  <2>3. Len(d) >= 4 * l
    BY Zenon DEF ExtensionFits
  <2> HIDE DEF l, d
  <2>4. QED
    BY <2>1, <2>2, <2>3, SMT
<1>3. f \in Seq(RtpOctet) /\ Len(f) = 2
  BY <1>1, OctetsSeq
<1> HIDE DEF f, l, d
<1>4. n \in Seq(RtpOctet) /\ Len(n) = 2 /\ n[1] * 256 + n[2] = l
  <2>1. l \div 256 \in 0 .. 255 /\ l % 256 \in 0 .. 255 /\ (l \div 256) * 256 + (l % 256) = l
    BY <1>2, SMT
  <2>2. QED
    BY <2>1, SMT DEF RtpOctet
<1>5. q \in Seq(RtpOctet) /\ Len(q) = 4 * l
  <2> DEFINE e == 4 * l
  <2>1. e \in Nat /\ e <= Len(d) /\ Len(d) \in Nat
    BY <1>2
  <2> HIDE DEF e
  <2>2. 1 \in Int /\ e \in Int /\ \A i \in 1 .. e : i \in 1 .. Len(d)
    BY <2>1, SMT
  <2>3. \A i \in 1 .. e : d[i] \in RtpOctet
    BY <1>1, <2>2, ElementOfSeq
  <2>4. SubSeq(d, 1, e) \in Seq(RtpOctet) /\ Len(SubSeq(d, 1, e)) = IF 1 <= e THEN e - 1 + 1 ELSE 0
    BY <2>2, <2>3, SubSeqProperties
  <2>5. (IF 1 <= e THEN e - 1 + 1 ELSE 0) = e
    BY <2>1, SMT
  <2>6. QED
    BY <2>4, <2>5 DEF e
<1> DEFINE u == f \o n
           w == u \o q
<1> HIDE DEF n, q
<1>6. u \in Seq(RtpOctet) /\ Behind(u, f, n)
  BY <1>3, <1>4, Joined
<1> HIDE DEF u
<1>7. w \in Seq(RtpOctet) /\ Behind(w, u, q)
  BY <1>5, <1>6, Joined
<1> HIDE DEF w
<1>8. Len(u) = 4 /\ u[3] = n[1] /\ u[4] = n[2]
  BY <1>3, <1>4, <1>6, SMT DEF Behind
<1>9. Len(w) = 4 + 4 * l /\ w[3] = u[3] /\ w[4] = u[4]
  BY <1>5, <1>7, <1>8, SMT DEF Behind
<1>10. Extension(h) = w
  BY DEF Extension, w, u, f, n, q, d, l
<1>11. l \in Nat
  BY <1>2, SMT
<1>12. QED
  BY <1>4, <1>7, <1>8, <1>9, <1>10, <1>11 DEF l

\* What is behind the sources.
Behindmost(h) == IF h.extension THEN Extension(h) ELSE <<>>

\* What a receiver needs to know of a packet that begins with the header of h.
Reads(data, h) ==
    /\ data[1] = FirstOctet(h) /\ data[2] = SecondOctet(h)
    /\ \A i \in 1 .. 4 : data[4 + i] = h.timestamp[i] /\ data[8 + i] = h.ssrc[i]
    /\ h.extension => Words(data, CsrcEnd(h) + 2) = h.extension_payload_len

LEMMA HeaderSizes ==
    ASSUME NEW h, HeaderFits(h)
    PROVE  /\ Len(h.csrc) \in Nat /\ CsrcEnd(h) \in Nat /\ CsrcEnd(h) >= 12
           /\ h.extension => h.extension_payload_len \in Nat
           /\ HeaderSize(h) = CsrcEnd(h) + (IF h.extension THEN 4 + 4 * h.extension_payload_len ELSE 0)
           /\ HeaderSize(h) \in Nat /\ HeaderSize(h) >= CsrcEnd(h)
<1> DEFINE c == Len(h.csrc)
           l == h.extension_payload_len
<1>1. h.csrc \in Seq(Octets(4)) /\ h.extension \in BOOLEAN
  BY DEF HeaderFits, WordsFit, BitsFit
<1>2. c \in Nat
  BY <1>1, LenProperties
<1>3. h.extension => l \in Nat
  BY ExtensionIs DEF HeaderFits
<1> HIDE DEF c, l
<1>4. CsrcEnd(h) = 12 + 4 * c /\ HeaderSize(h) = 12 + 4 * c + (IF h.extension THEN 4 + 4 * l ELSE 0)
  BY SMT DEF CsrcEnd, HeaderSize, c, l
<1>5. QED
  BY <1>1, <1>2, <1>3, <1>4, SMT DEF c, l

LEMMA SerializeIs ==
    ASSUME NEW h, HeaderFits(h)
    PROVE  /\ Serialize(h) \in Seq(RtpOctet) /\ Len(Serialize(h)) = HeaderSize(h)
           /\ Reads(Serialize(h), h)
<1> DEFINE a == Fixed(h)
           f == FlattenSeq(h.csrc)
           e == Behindmost(h)
           u == a \o f
           w == u \o e
<1>1. /\ a \in Seq(RtpOctet) /\ Len(a) = 12 /\ a[1] = FirstOctet(h) /\ a[2] = SecondOctet(h)
      /\ \A i \in 1 .. 4 : a[4 + i] = h.timestamp[i] /\ a[8 + i] = h.ssrc[i]
  BY FixedIs
<1>2. f \in Seq(RtpOctet) /\ Len(f) = 4 * Len(h.csrc)
  <2>1. h.csrc \in Seq(Octets(4))
    BY DEF HeaderFits, WordsFit
  <2>2. QED
    BY <2>1, SourcesLen
<1>3. /\ e \in Seq(RtpOctet)
      /\ h.extension => /\ Len(e) = 4 + 4 * h.extension_payload_len
                        /\ e[3] * 256 + e[4] = h.extension_payload_len
      /\ ~h.extension => Len(e) = 0
  <2>1. CASE h.extension
    <3>1. ExtensionFits(h) /\ e = Extension(h)
      BY <2>1 DEF HeaderFits, Behindmost
    <3>2. QED
      BY <2>1, <3>1, ExtensionIs
  <2>2. CASE ~h.extension
    <3>1. e = <<>>
      BY <2>2 DEF Behindmost
    <3>2. QED
      BY <2>2, <3>1, EmptySeq
  <2>3. QED
    BY <2>1, <2>2
<1>4. w = Serialize(h)
  <2>1. Serialize(h) = <<FirstOctet(h), SecondOctet(h)>> \o h.sequence_number \o h.timestamp \o h.ssrc
                       \o FlattenSeq(h.csrc) \o (IF h.extension THEN Extension(h) ELSE <<>>)
    BY SMT DEF Serialize, FirstOctet, SecondOctet, Extension
  <2>2. QED
    BY <2>1, Zenon DEF Fixed, Behindmost
<1> HIDE DEF a, f, e
<1>5. u \in Seq(RtpOctet) /\ Behind(u, a, f)
  BY <1>1, <1>2, Joined
<1> HIDE DEF u
<1>6. w \in Seq(RtpOctet) /\ Behind(w, u, e)
  BY <1>3, <1>5, Joined
<1> HIDE DEF w
<1> DEFINE c == Len(h.csrc)
           l == h.extension_payload_len
<1>7. c \in Nat /\ (h.extension => l \in Nat) /\ CsrcEnd(h) = 12 + 4 * c
      /\ HeaderSize(h) = CsrcEnd(h) + (IF h.extension THEN 4 + 4 * l ELSE 0)
  BY HeaderSizes DEF CsrcEnd
<1> HIDE DEF c, l
<1>8. Len(u) = 12 + 4 * c /\ \A i \in 1 .. 12 : u[i] = a[i]
  BY <1>1, <1>2, <1>5, <1>7, SMT DEF Behind, c
<1>9. \A i \in 1 .. 12 : w[i] = a[i]
  <2>1. \A i \in 1 .. Len(u) : w[i] = u[i]
    BY <1>6 DEF Behind
  <2>2. \A i \in 1 .. 12 : i \in 1 .. Len(u)
    BY <1>7, <1>8, SMT
  <2>3. QED
    BY <1>8, <2>1, <2>2
<1>10. Len(w) = HeaderSize(h)
  <2>1. Len(w) = Len(u) + Len(e)
    BY <1>6 DEF Behind
  <2>2. CASE h.extension
    <3>1. Len(e) = 4 + 4 * l /\ HeaderSize(h) = CsrcEnd(h) + (4 + 4 * l)
      BY <1>3, <1>7, <2>2 DEF l
    <3>2. QED
      BY <1>7, <1>8, <2>1, <3>1
  <2>3. CASE ~h.extension
    <3>1. Len(e) = 0 /\ HeaderSize(h) = CsrcEnd(h) + 0
      BY <1>3, <1>7, <2>3
    <3>2. Len(u) \in Nat
      BY <1>6 DEF Behind
    <3>3. QED
      BY <1>7, <1>8, <2>1, <3>1, <3>2
  <2>4. QED
    BY <2>2, <2>3
<1>11. h.extension => Words(w, CsrcEnd(h) + 2) = l
  <2> SUFFICES ASSUME h.extension PROVE Words(w, CsrcEnd(h) + 2) = l
    OBVIOUS
  <2> DEFINE k == Len(u)
  <2>1. k \in Nat /\ k = CsrcEnd(h) /\ Len(e) = 4 + 4 * l /\ l \in Nat /\ e[3] * 256 + e[4] = l
    BY <1>3, <1>7, <1>8, SMT DEF l
  <2>2. w[k + 3] = e[3] /\ w[k + 4] = e[4]
    <3>1. 3 \in 1 .. Len(e) /\ 4 \in 1 .. Len(e)
      BY <2>1, SMT
    <3>2. QED
      BY <1>6, <3>1, SMT DEF Behind
  <2> HIDE DEF k
  <2>3. k + 2 + 1 = k + 3 /\ k + 2 + 2 = k + 4
    BY <2>1, SMT
  <2>4. QED
    BY <2>1, <2>2, <2>3, SMT DEF Words
<1>12. w[1] = a[1] /\ w[2] = a[2] /\ \A i \in 1 .. 4 : w[4 + i] = a[4 + i] /\ w[8 + i] = a[8 + i]
  BY <1>9, SMT
<1>13. Reads(w, h)
  BY <1>1, <1>11, <1>12 DEF Reads, l
<1>14. QED
  BY <1>4, <1>6, <1>10, <1>13

-----------------------------------------------------------------------------
(* What arrives of a packet.                                               *)

\* The first n octets of w.
LEMMA Beginning ==
    ASSUME NEW w \in Seq(RtpOctet), NEW n \in Nat, n <= Len(w)
    PROVE  /\ SubSeq(w, 1, n) \in Seq(RtpOctet) /\ Len(SubSeq(w, 1, n)) = n
           /\ \A i \in 1 .. n : SubSeq(w, 1, n)[i] = w[i]
<1> DEFINE d == SubSeq(w, 1, n)
<1>1. Len(w) \in Nat
  BY LenProperties
<1>2. 1 \in Int /\ n \in Int /\ \A i \in 1 .. n : i \in 1 .. Len(w) /\ 1 + i - 1 = i
  BY <1>1
<1>3. \A i \in 1 .. n : w[i] \in RtpOctet
  BY <1>2, ElementOfSeq
<1>4. /\ d \in Seq(RtpOctet) /\ Len(d) = IF 1 <= n THEN n - 1 + 1 ELSE 0
      /\ \A i \in 1 .. n - 1 + 1 : d[i] = w[1 + i - 1]
  BY <1>2, <1>3, SubSeqProperties
<1> HIDE DEF d
<1>5. (IF 1 <= n THEN n - 1 + 1 ELSE 0) = n /\ n - 1 + 1 = n
  OBVIOUS
<1>6. QED
  BY <1>2, <1>4, <1>5 DEF d

\* The packet of h and p, and whether its header is there in n octets.
Sent(h, p) == Serialize(h) \o p
WholeHeader(h, n) == n >= HeaderSize(h) /\ h.version = 2

LEMMA PacketIs ==
    ASSUME NEW h, HeaderFits(h), NEW p \in Seq(RtpOctet), NEW w, w = Sent(h, p)
    PROVE  /\ w \in Seq(RtpOctet) /\ Len(w) = HeaderSize(h) + Len(p)
           /\ Len(p) \in Nat /\ HeaderSize(h) \in Nat
           /\ Reads(w, h)
           /\ \A i \in 1 .. Len(p) : w[HeaderSize(h) + i] = p[i]
<1> DEFINE s == Serialize(h)
<1>1. s \in Seq(RtpOctet) /\ Len(s) = HeaderSize(h) /\ Reads(s, h)
  BY SerializeIs
<1>2. /\ CsrcEnd(h) \in Nat /\ CsrcEnd(h) >= 12 /\ HeaderSize(h) \in Nat /\ HeaderSize(h) >= CsrcEnd(h)
      /\ h.extension => h.extension_payload_len \in Nat
      /\ HeaderSize(h) = CsrcEnd(h) + (IF h.extension THEN 4 + 4 * h.extension_payload_len ELSE 0)
  BY HeaderSizes
<1> HIDE DEF s
<1>3. w \in Seq(RtpOctet) /\ Behind(w, s, p)
  BY <1>1, Joined DEF s, Sent
<1>4. /\ Len(w) = HeaderSize(h) + Len(p) /\ Len(p) \in Nat
      /\ \A i \in 1 .. HeaderSize(h) : w[i] = s[i]
      /\ \A i \in 1 .. Len(p) : w[HeaderSize(h) + i] = p[i]
  BY <1>1, <1>3 DEF Behind
<1>5. \A i \in 1 .. 12 : w[i] = s[i]
  <2>1. \A i \in 1 .. 12 : i \in 1 .. HeaderSize(h)
    BY <1>2, SMT
  <2>2. QED
    BY <1>4, <2>1
<1>6. w[1] = s[1] /\ w[2] = s[2] /\ \A i \in 1 .. 4 : w[4 + i] = s[4 + i] /\ w[8 + i] = s[8 + i]
  BY <1>5, SMT
<1>7. h.extension => Words(w, CsrcEnd(h) + 2) = Words(s, CsrcEnd(h) + 2)
  <2> SUFFICES ASSUME h.extension PROVE Words(w, CsrcEnd(h) + 2) = Words(s, CsrcEnd(h) + 2)
    OBVIOUS
  <2>1. CsrcEnd(h) + 2 + 1 \in 1 .. HeaderSize(h) /\ CsrcEnd(h) + 2 + 2 \in 1 .. HeaderSize(h)
    BY <1>2, SMTT(30)
  <2> DEFINE k == CsrcEnd(h) + 2
  <2>2. w[k + 1] = s[k + 1] /\ w[k + 2] = s[k + 2]
    BY <1>4, <2>1
  <2> HIDE DEF k
  <2>3. Words(w, k) = Words(s, k)
    BY <2>2, Zenon DEF Words
  <2>4. QED
    BY <2>3 DEF k
<1>8. Reads(w, h)
  BY <1>1, <1>6, <1>7 DEF Reads
<1>9. QED
  BY <1>2, <1>3, <1>4, <1>8

LEMMA HasExtensionIs ==
    ASSUME NEW h, HeaderFits(h), NEW data, data[1] = FirstOctet(h)
    PROVE  /\ HasExtension(data) <=> h.extension
           /\ data[1] \div 64 = h.version
           /\ 12 + 4 * (data[1] % 16) = CsrcEnd(h)
<1>1. /\ FirstOctet(h) \div 64 = h.version
      /\ FirstOctet(h) % 16 = Len(h.csrc)
      /\ (FirstOctet(h) \div 16) % 2 = 1 <=> h.extension
  BY FirstOctets
<1>2. HasExtension(data) <=> h.extension
  BY <1>1, Zenon DEF HasExtension
<1>3. 12 + 4 * (data[1] % 16) = CsrcEnd(h)
  BY <1>1, Zenon DEF CsrcEnd
<1>4. QED
  BY <1>1, <1>2, <1>3

\* Compy_RtpHeader_deserialize finds the end of the header exactly if it is there.
LEMMA DeserializeIs ==
    ASSUME NEW h, HeaderFits(h), NEW p \in Seq(RtpOctet), NEW w, w = Sent(h, p),
           NEW n \in Nat, n <= Len(w), NEW d, d = SubSeq(w, 1, n)
    PROVE  Deserialize(d) = IF WholeHeader(h, n) THEN HeaderSize(h) ELSE Failure
<1> DEFINE e == CsrcEnd(h)
           l == h.extension_payload_len
           H == HeaderSize(h)
<1>1. w \in Seq(RtpOctet) /\ Reads(w, h)
  BY PacketIs
<1>2. Len(d) = n /\ \A i \in 1 .. n : d[i] = w[i]
  BY <1>1, Beginning
<1>3. /\ e \in Nat /\ e >= 12 /\ H \in Nat /\ H >= e /\ (h.extension => l \in Nat)
      /\ H = e + (IF h.extension THEN 4 + 4 * l ELSE 0)
  BY HeaderSizes
<1>4. CASE n < 12
  <2>1. ~(n >= H)
    <3> HIDE DEF H, e
    <3>1. QED
      BY <1>3, <1>4, SMT
  <2>2. Deserialize(d) = Failure
    BY <1>2, <1>4 DEF Deserialize
  <2>3. QED
    BY <2>1, <2>2 DEF WholeHeader
<1>5. CASE n >= 12
  <2>1. d[1] = FirstOctet(h)
    <3>1. 1 \in 1 .. n
      BY <1>5, SMT
    <3>2. QED
      BY <1>1, <1>2, <3>1 DEF Reads
  <2>2. (HasExtension(d) <=> h.extension) /\ d[1] \div 64 = h.version /\ 12 + 4 * (d[1] % 16) = e
    BY <2>1, HasExtensionIs
  <2>3. Deserialize(d) =
            IF h.version # 2 THEN Failure
            ELSE IF n < e THEN Failure
            ELSE IF ~h.extension THEN e
            ELSE IF n < e + 4 THEN Failure
            ELSE IF n < ExtensionEnd(d, e) THEN Failure ELSE ExtensionEnd(d, e)
    <3>1. ~(Len(d) < 12)
      BY <1>2, <1>5, SMT
    <3>2. QED
      BY <1>2, <2>2, <3>1, Zenon DEF Deserialize
  <2>4. h.extension /\ n >= e + 4 => ExtensionEnd(d, e) = H
    <3> SUFFICES ASSUME h.extension, n >= e + 4 PROVE ExtensionEnd(d, e) = H
      OBVIOUS
    <3> HIDE DEF e, H, l
    <3>1. e + 2 + 1 \in 1 .. n /\ e + 2 + 2 \in 1 .. n
      BY <1>3
    <3>2. d[e + 2 + 1] = w[e + 2 + 1] /\ d[e + 2 + 2] = w[e + 2 + 2]
      BY <1>2, <3>1
    <3> DEFINE k == e + 2
    <3>3. d[k + 1] = w[k + 1] /\ d[k + 2] = w[k + 2]
      BY <3>2
    <3> HIDE DEF k
    <3>4. Words(d, k) = Words(w, k)
      BY <3>3, Zenon DEF Words
    <3>5. Words(w, k) = l
      BY <1>1 DEF Reads, k, e, l
    <3>6. ExtensionEnd(d, e) = e + 4 + 4 * l
      BY <3>4, <3>5, Zenon DEF ExtensionEnd, k
    <3>7. QED
      BY <1>3, <3>6
  <2> HIDE DEF e, H, l
  <2>5. CASE h.version # 2
    BY <2>3, <2>5 DEF WholeHeader
  <2>6. CASE h.version = 2 /\ n < e
    <3>1. ~(n >= H)
      BY <1>3, <2>6
    <3>2. QED
      BY <2>3, <2>6, <3>1 DEF WholeHeader, H
  <2>7. CASE h.version = 2 /\ n >= e /\ ~h.extension
    <3>1. H = e /\ ~(n < e)
      BY <1>3, <2>7
    <3>2. n >= H
      BY <2>7, <3>1
    <3>3. QED
      BY <2>3, <2>7, <3>1, <3>2 DEF WholeHeader, H
  <2>8. CASE h.version = 2 /\ n >= e /\ h.extension /\ n < e + 4
    <3>1. ~(n < e) /\ ~(n >= H)
      BY <1>3, <2>8
    <3>2. QED
      BY <2>3, <2>8, <3>1 DEF WholeHeader, H
  <2>9. CASE h.version = 2 /\ n >= e /\ h.extension /\ n >= e + 4
    <3>1. ~(n < e) /\ ~(n < e + 4) /\ (n < H <=> ~(n >= H))
      BY <1>3, <2>9
    <3>2. ExtensionEnd(d, e) = H
      BY <2>4, <2>9
    <3>3. QED
      BY <2>3, <2>9, <3>1, <3>2 DEF WholeHeader, H
  <2>10. (n < e \/ n >= e) /\ (n < e + 4 \/ n >= e + 4)
    BY <1>3
  <2>11. QED
    BY <2>5, <2>6, <2>7, <2>8, <2>9, <2>10
<1>6. QED
  BY <1>4, <1>5, SMT

\* The SRTP layer finds the same end.
LEMMA SrtpHeaderLenIs ==
    ASSUME NEW h, HeaderFits(h), NEW p \in Seq(RtpOctet), NEW w, w = Sent(h, p)
    PROVE  SrtpHeaderLen(w) = HeaderSize(h)
<1> DEFINE e == CsrcEnd(h)
           l == h.extension_payload_len
           H == HeaderSize(h)
<1>1. w \in Seq(RtpOctet) /\ Reads(w, h) /\ Len(w) = H + Len(p) /\ Len(p) \in Nat
  BY PacketIs
<1>2. /\ e \in Nat /\ e >= 12 /\ H \in Nat /\ H >= e /\ (h.extension => l \in Nat)
      /\ H = e + (IF h.extension THEN 4 + 4 * l ELSE 0)
  BY HeaderSizes
<1>3. (HasExtension(w) <=> h.extension) /\ 12 + 4 * (w[1] % 16) = e
  BY <1>1, HasExtensionIs DEF Reads
<1>4. h.extension => Words(w, e + 2) = l
  BY <1>1 DEF Reads
<1> HIDE DEF e, l, H
<1>5. SrtpHeaderLen(w) =
          LET end == IF h.extension /\ e + 4 <= Len(w) THEN e + 4 + 4 * Words(w, e + 2) ELSE e
          IN  IF e > Len(w) \/ end > Len(w) THEN Failure ELSE end
  BY <1>3, Zenon DEF SrtpHeaderLen
<1> DEFINE end == IF h.extension /\ e + 4 <= Len(w) THEN e + 4 + 4 * Words(w, e + 2) ELSE e
<1>6. end = H
  <2>1. CASE h.extension
    <3>1. e + 4 <= Len(w) /\ e + 4 + 4 * l = H
      BY <1>1, <1>2, <2>1
    <3>2. QED
      BY <1>4, <2>1, <3>1
  <2>2. CASE ~h.extension
    BY <1>2, <2>2
  <2>3. QED
    BY <2>1, <2>2
<1>7. ~(e > Len(w)) /\ ~(H > Len(w))
  BY <1>1, <1>2
<1> HIDE DEF end
<1>8. QED
  BY <1>5, <1>6, <1>7 DEF H, end

\* What on_audio is to be told of the packet of h and p, of which n octets are there.
Call(nth, h, p, n) ==
    [nth |-> nth, payload_ty |-> h.payload_ty, timestamp |-> h.timestamp, ssrc |-> h.ssrc,
     payload |-> SubSeq(p, 1, n - HeaderSize(h))]
Calls == [nth : Nat, payload_ty : RtpOctet, timestamp : Seq(RtpOctet), ssrc : Seq(RtpOctet), payload : Seq(RtpOctet)]

LEMMA CallsRecord ==
    ASSUME NEW a \in Nat, NEW b \in RtpOctet, NEW c \in Seq(RtpOctet), NEW d \in Seq(RtpOctet), NEW e \in Seq(RtpOctet)
    PROVE  [nth |-> a, payload_ty |-> b, timestamp |-> c, ssrc |-> d, payload |-> e] \in Calls
BY DEF Calls

LEMMA OnAudioIs ==
    ASSUME NEW h, HeaderFits(h), NEW p \in Seq(RtpOctet), NEW w, w = Sent(h, p),
           NEW n \in Nat, n <= Len(w), NEW d, d = SubSeq(w, 1, n), n >= HeaderSize(h),
           Len(f_sent) \in Nat
    PROVE  /\ OnAudio(d, HeaderSize(h)) = Call(Len(f_sent) + 1, h, p, n)
           /\ Call(Len(f_sent) + 1, h, p, n) \in Calls
<1> DEFINE H == HeaderSize(h)
           k == n - H
           t == h.timestamp
           s == h.ssrc
           q == SubSeq(p, 1, k)
<1>1. /\ w \in Seq(RtpOctet) /\ Reads(w, h) /\ Len(w) = H + Len(p) /\ Len(p) \in Nat
      /\ \A i \in 1 .. Len(p) : w[H + i] = p[i]
  BY PacketIs
<1>2. Len(d) = n /\ \A i \in 1 .. n : d[i] = w[i]
  BY <1>1, Beginning
<1>3. H \in Nat /\ H >= 12
  <2>1. CsrcEnd(h) \in Nat /\ CsrcEnd(h) >= 12 /\ H \in Nat /\ H >= CsrcEnd(h)
    BY HeaderSizes
  <2> HIDE DEF H
  <2>2. QED
    BY <2>1, SMT
<1> HIDE DEF H
<1>4. k \in Nat /\ k <= Len(p) /\ H + k = n /\ n >= 12
  BY <1>1, <1>3, SMT DEF H
<1>5. t \in Seq(RtpOctet) /\ Len(t) = 4 /\ s \in Seq(RtpOctet) /\ Len(s) = 4
  <2>1. t \in Octets(4) /\ s \in Octets(4) /\ 4 \in Nat
    BY DEF HeaderFits, WordsFit
  <2>2. QED
    BY <2>1, OctetsSeq
<1> HIDE DEF k
<1>6. q \in Seq(RtpOctet) /\ Len(q) = k /\ \A i \in 1 .. k : q[i] = p[i]
  BY <1>4, Beginning
<1> HIDE DEF t, s, q
<1>7. SubSeq(d, 5, 8) = t
  <2>1. \A i \in 1 .. Len(t) : 4 + i \in 1 .. n /\ i \in 1 .. 4
    BY <1>4, <1>5, SMT
  <2>2. \A i \in 1 .. Len(t) : d[4 + i] = t[i]
    BY <1>1, <1>2, <2>1 DEF Reads, t
  <2>3. SubSeq(d, 4 + 1, 4 + Len(t)) = t
    BY <1>5, <2>2, 4 \in Nat, CutOut, ZenonT(30)
  <2>4. 4 + 1 = 5 /\ 4 + Len(t) = 8
    BY <1>5, SMT
  <2>5. QED
    BY <2>3, <2>4
<1>8. SubSeq(d, 9, 12) = s
  <2>1. \A i \in 1 .. Len(s) : 8 + i \in 1 .. n /\ i \in 1 .. 4
    BY <1>4, <1>5, SMT
  <2>2. \A i \in 1 .. Len(s) : d[8 + i] = s[i]
    BY <1>1, <1>2, <2>1 DEF Reads, s
  <2>3. SubSeq(d, 8 + 1, 8 + Len(s)) = s
    BY <1>5, <2>2, 8 \in Nat, CutOut, ZenonT(30)
  <2>4. 8 + 1 = 9 /\ 8 + Len(s) = 12
    BY <1>5, SMT
  <2>5. QED
    BY <2>3, <2>4
<1>9. SubSeq(d, H + 1, Len(d)) = q
  <2>1. \A i \in 1 .. Len(q) : H + i \in 1 .. n /\ i \in 1 .. k /\ i \in 1 .. Len(p)
    BY <1>1, <1>3, <1>4, <1>6
  <2>2. \A i \in 1 .. Len(q) : d[H + i] = q[i]
    BY <1>1, <1>2, <1>6, <2>1
  <2>3. SubSeq(d, H + 1, H + Len(q)) = q
    BY <1>3, <1>6, <2>2, CutOut
  <2>4. H + Len(q) = Len(d)
    BY <1>2, <1>4, <1>6
  <2>5. QED
    BY <2>3, <2>4
<1>10. d[2] % 128 = h.payload_ty /\ h.payload_ty \in RtpOctet
  <2>1. 2 \in 1 .. n
    BY <1>4, SMT
  <2>2. d[2] = SecondOctet(h)
    BY <1>1, <1>2, <2>1 DEF Reads
  <2>3. SecondOctet(h) % 128 = h.payload_ty
    BY FirstOctets
  <2>4. NumbersFit(h)
    BY DEF HeaderFits
  <2> DEFINE y == h.payload_ty
  <2>5. y \in 0 .. 127
    BY <2>4, SMT DEF NumbersFit
  <2> HIDE DEF y
  <2>6. y \in RtpOctet
    BY <2>5, SMT DEF RtpOctet
  <2>7. QED
    BY <2>2, <2>3, <2>6 DEF y
<1>11. Len(f_sent) + 1 \in Nat
  OBVIOUS
<1>12. Call(Len(f_sent) + 1, h, p, n) =
           [nth |-> Len(f_sent) + 1, payload_ty |-> h.payload_ty, timestamp |-> t, ssrc |-> s, payload |-> q]
  BY DEF Call, t, s, q, k, H
<1>13. OnAudio(d, H) =
           [nth |-> Len(f_sent) + 1, payload_ty |-> h.payload_ty, timestamp |-> t, ssrc |-> s, payload |-> q]
  BY <1>7, <1>8, <1>9, <1>10, Zenon DEF OnAudio
<1>14. Call(Len(f_sent) + 1, h, p, n) \in Calls
  <2> DEFINE N == Len(f_sent) + 1
             y == h.payload_ty
  <2>1. N \in Nat /\ y \in RtpOctet /\ t \in Seq(RtpOctet) /\ s \in Seq(RtpOctet) /\ q \in Seq(RtpOctet)
    BY <1>5, <1>6, <1>10, <1>11
  <2> HIDE DEF N, y
  <2>2. [nth |-> N, payload_ty |-> y, timestamp |-> t, ssrc |-> s, payload |-> q] \in Calls
    BY <2>1, CallsRecord
  <2>3. QED
    BY <1>12, <2>2, Zenon DEF N, y
<1>15. QED
  BY <1>12, <1>13, <1>14 DEF H

LEMMA HandleRtcpIs == \A data : HandleRtcp(data) \in {-1, 0}
BY SMT DEF HandleRtcp

\* The five ways of Compy_RtpReceiver_feed, in one.
Returned(q2, q, r, channel, listens, d) ==
    /\ q2 = Append(q, r)
    /\ channel # 0 => (r = -1 <=> channel = 2 \/ (listens /\ Deserialize(d) = Failure))

LEMMA FeedIs ==
    ASSUME NEW channel \in 0 .. 2, NEW d, NEW listens \in BOOLEAN, NEW has_rtcp \in BOOLEAN,
           Feed(channel, d, listens, has_rtcp)
    PROVE  /\ \E r \in {-1, 0} : Returned(f_results', f_results, r, channel, listens, d)
           /\ f_audio' = IF channel = 1 /\ listens /\ Deserialize(d) # Failure
                         THEN Append(f_audio, OnAudio(d, Deserialize(d))) ELSE f_audio
           /\ f_rtcp' = IF channel = 0 /\ has_rtcp THEN Append(f_rtcp, Len(f_sent) + 1) ELSE f_rtcp
<1> DEFINE size == Deserialize(d)
<1>1. channel = 1 \/ channel = 0 \/ channel = 2
  BY SMT
<1>2. 0 # 1 /\ 0 # 2 /\ 1 # 2 /\ 0 # -1 /\ 0 \in {-1, 0} /\ -1 \in {-1, 0}
  BY SMT
<1> HIDE DEF size
<1>3. CASE channel = 0
  <2> DEFINE r == IF has_rtcp THEN HandleRtcp(d) ELSE 0
  <2>1. r \in {-1, 0}
    BY HandleRtcpIs
  <2>2. /\ f_results' = Append(f_results, r)
        /\ f_rtcp' = IF has_rtcp THEN Append(f_rtcp, Len(f_sent) + 1) ELSE f_rtcp
        /\ UNCHANGED f_audio
    BY <1>2, <1>3, Zenon DEF Feed
  <2> HIDE DEF r
  <2>3. QED
    BY <1>2, <1>3, <2>1, <2>2, Zenon DEF Returned
<1>4. CASE channel = 1 /\ ~listens
  <2>1. f_results' = Append(f_results, 0) /\ UNCHANGED <<f_audio, f_rtcp>>
    BY <1>2, <1>4, Zenon DEF Feed
  <2>2. QED
    BY <1>2, <1>4, <2>1, Zenon DEF Returned
<1>5. CASE channel = 1 /\ listens /\ size = Failure
  <2>1. f_results' = Append(f_results, -1) /\ UNCHANGED <<f_audio, f_rtcp>>
    BY <1>2, <1>5, Zenon DEF Feed, size
  <2>2. QED
    BY <1>2, <1>5, <2>1, Zenon DEF size, Returned
<1>6. CASE channel = 1 /\ listens /\ size # Failure
  <2>1. /\ f_results' = Append(f_results, 0)
        /\ f_audio' = Append(f_audio, OnAudio(d, size))
        /\ UNCHANGED f_rtcp
    BY <1>2, <1>6, Zenon DEF Feed, size
  <2>2. QED
    BY <1>2, <1>6, <2>1, Zenon DEF size, Returned
<1>7. CASE channel = 2
  <2>1. f_results' = Append(f_results, -1) /\ UNCHANGED <<f_audio, f_rtcp>>
    BY <1>2, <1>7, Zenon DEF Feed
  <2>2. QED
    BY <1>2, <1>7, <2>1, Zenon DEF Returned
<1>8. QED
  BY <1>1, <1>3, <1>4, <1>5, <1>6, <1>7, Zenon

-----------------------------------------------------------------------------
(* The invariant.                                                          *)

Packets == [hdr : RtpHeaders, payload : Payloads, len : Nat, channel : 0 .. 2,
            listens : BOOLEAN, has_rtcp : BOOLEAN]

\* audio, of Len(sent) packets, has at most one call for each of them.
HeardOnce(audio, sent) ==
    /\ audio \in Seq(Calls)
    /\ \A i \in 1 .. Len(audio) : audio[i].nth \in 1 .. Len(sent)
    /\ \A i, j \in 1 .. Len(audio) : audio[i].nth = audio[j].nth => i = j

\* What is right for the packet s, the nth.
RightAudio(s, n, audio) ==
    /\ (\E i \in 1 .. Len(audio) : audio[i].nth = n)
           <=> s.channel = 1 /\ s.listens /\ WholeHeader(s.hdr, s.len)
    /\ \A i \in 1 .. Len(audio) : audio[i].nth = n => audio[i] = Call(n, s.hdr, s.payload, s.len)
RightResult(s, result) ==
    s.channel # 0 => (result = -1 <=> s.channel = 2 \/ (s.listens /\ ~WholeHeader(s.hdr, s.len)))
RightRtcp(s, n, rtcp) ==
    (\E i \in 1 .. Len(rtcp) : rtcp[i] = n) <=> s.channel = 0 /\ s.has_rtcp

FeedInv ==
    /\ f_sent \in Seq(Packets)
    /\ f_results \in Seq({-1, 0}) /\ Len(f_results) = Len(f_sent)
    /\ HeardOnce(f_audio, f_sent)
    /\ f_rtcp \in Seq(Nat) /\ \A i \in 1 .. Len(f_rtcp) : f_rtcp[i] \in 1 .. Len(f_sent)
    /\ \A n \in 1 .. Len(f_sent) : /\ RightAudio(f_sent[n], n, f_audio)
                                   /\ RightResult(f_sent[n], f_results[n])
                                   /\ RightRtcp(f_sent[n], n, f_rtcp)

\* The calls for an earlier packet, and those for the packet itself.
LEMMA AudioOld ==
    ASSUME NEW s, NEW n, NEW a, NEW b, NEW c, Longer(b, a, c), c.nth # n, RightAudio(s, n, a)
    PROVE  RightAudio(s, n, b)
<1>1. (\E i \in 1 .. Len(b) : b[i].nth = n) <=> (\E i \in 1 .. Len(a) : a[i].nth = n)
  <2>1. ASSUME NEW i \in 1 .. Len(b), b[i].nth = n PROVE \E j \in 1 .. Len(a) : a[j].nth = n
    BY <2>1, LongerPlaces
  <2>2. ASSUME NEW i \in 1 .. Len(a), a[i].nth = n PROVE \E j \in 1 .. Len(b) : b[j].nth = n
    BY <2>2, LongerHas
  <2>3. QED
    BY <2>1, <2>2
<1>2. ASSUME NEW i \in 1 .. Len(b), b[i].nth = n PROVE b[i] = Call(n, s.hdr, s.payload, s.len)
  <2>1. i \in 1 .. Len(a) /\ b[i] = a[i]
    BY <1>2, LongerPlaces
  <2>2. QED
    BY <1>2, <2>1 DEF RightAudio
<1>3. QED
  BY <1>1, <1>2 DEF RightAudio

LEMMA RtcpOld ==
    ASSUME NEW s, NEW n, NEW a, NEW b, NEW c, Longer(b, a, c), c # n, RightRtcp(s, n, a)
    PROVE  RightRtcp(s, n, b)
<1>1. (\E i \in 1 .. Len(b) : b[i] = n) <=> (\E i \in 1 .. Len(a) : a[i] = n)
  <2>1. ASSUME NEW i \in 1 .. Len(b), b[i] = n PROVE \E j \in 1 .. Len(a) : a[j] = n
    BY <2>1, LongerPlaces
  <2>2. ASSUME NEW i \in 1 .. Len(a), a[i] = n PROVE \E j \in 1 .. Len(b) : b[j] = n
    BY <2>2, LongerHas
  <2>3. QED
    BY <2>1, <2>2
<1>2. QED
  BY <1>1 DEF RightRtcp

LEMMA FeedInitInv == FeedInit => FeedInv
<1> SUFFICES ASSUME FeedInit PROVE FeedInv
  OBVIOUS
<1>1. f_sent = <<>> /\ f_results = <<>> /\ f_audio = <<>> /\ f_rtcp = <<>>
  BY DEF FeedInit
<1>2. Len(<<>>) = 0 /\ 1 .. 0 = {}
  OBVIOUS
<1>3. <<>> \in Seq(Packets) /\ <<>> \in Seq({-1, 0}) /\ <<>> \in Seq(Calls) /\ <<>> \in Seq(Nat)
  BY EmptySeq
<1>4. QED
  BY <1>1, <1>2, <1>3, Zenon DEF FeedInv, HeardOnce

\* One packet, of which n octets arrive.
Arrives(h, p, channel, listens, has_rtcp, n) ==
    /\ f_sent' = Append(f_sent, [hdr |-> h, payload |-> p, len |-> n, channel |-> channel,
                                 listens |-> listens, has_rtcp |-> has_rtcp])
    /\ Feed(channel, SubSeq(Sent(h, p), 1, n), listens, has_rtcp)

LEMMA FeedNextIs ==
    ASSUME FeedNext
    PROVE  \E h \in RtpHeaders, p \in Payloads, channel \in 0 .. 2, listens, has_rtcp \in BOOLEAN, n \in Nat :
               /\ n <= Len(Sent(h, p)) /\ HeaderFits(h) /\ p \in Seq(RtpOctet)
               /\ Arrives(h, p, channel, listens, has_rtcp, n)
<1>1. PICK h \in RtpHeaders, p \in Payloads, channel \in 0 .. 2, listens \in BOOLEAN, has_rtcp \in BOOLEAN :
          \E n \in {0, HeaderSize(h), HeaderSize(h) + Len(p)} \cup {HeaderSize(h) - k : k \in {1, 3, 4, 5}} :
              Arrives(h, p, channel, listens, has_rtcp, n)
  BY Zenon DEF FeedNext, Arrives, Sent
<1>2. PICK n \in {0, HeaderSize(h), HeaderSize(h) + Len(p)} \cup {HeaderSize(h) - k : k \in {1, 3, 4, 5}} :
          Arrives(h, p, channel, listens, has_rtcp, n)
  BY <1>1
<1>3. HeaderFits(h) /\ p \in Seq(RtpOctet)
  BY FeedAssumption
<1> DEFINE H == HeaderSize(h)
           l == Len(p)
<1>4. Len(Sent(h, p)) = H + l /\ l \in Nat /\ H \in Nat
  BY <1>3, PacketIs
<1>5. H >= 12
  <2>1. CsrcEnd(h) \in Nat /\ CsrcEnd(h) >= 12 /\ H >= CsrcEnd(h)
    BY <1>3, HeaderSizes
  <2> HIDE DEF H
  <2>2. QED
    BY <1>4, <2>1, SMT
<1>6. n \in {0, H, H + l} \cup {H - k : k \in {1, 3, 4, 5}}
  BY <1>2
<1> HIDE DEF H, l
<1>7. n \in Nat /\ n <= H + l
  <2>1. n = 0 \/ n = H \/ n = H + l \/ \E k \in {1, 3, 4, 5} : n = H - k
    BY <1>6, Zenon
  <2>2. QED
    BY <1>4, <1>5, <2>1, SMT
<1>8. n <= Len(Sent(h, p))
  BY <1>4, <1>7
<1>9. QED
  BY <1>2, <1>3, <1>7, <1>8

LEMMA PacketsRecord ==
    ASSUME NEW h \in RtpHeaders, NEW p \in Payloads, NEW n \in Nat, NEW channel \in 0 .. 2,
           NEW listens \in BOOLEAN, NEW has_rtcp \in BOOLEAN
    PROVE  [hdr |-> h, payload |-> p, len |-> n, channel |-> channel,
            listens |-> listens, has_rtcp |-> has_rtcp] \in Packets
BY DEF Packets

\* What the packet s changes, in the terms of the invariant.
Effect(s, N, audio, audio2, result, rtcp, rtcp2) ==
    /\ IF s.channel = 1 /\ s.listens /\ WholeHeader(s.hdr, s.len)
       THEN LET c == Call(N, s.hdr, s.payload, s.len)
            IN  audio2 = Append(audio, c) /\ c \in Calls
       ELSE audio2 = audio
    /\ RightResult(s, result)
    /\ rtcp2 = IF s.channel = 0 /\ s.has_rtcp THEN Append(rtcp, N) ELSE rtcp

LEMMA FeedEffect ==
    ASSUME FeedInv, FeedNext
    PROVE  \E s \in Packets, r \in {-1, 0} :
               /\ f_sent' = Append(f_sent, s) /\ f_results' = Append(f_results, r)
               /\ Effect(s, Len(f_sent) + 1, f_audio, f_audio', r, f_rtcp, f_rtcp')
<1>1. PICK h \in RtpHeaders, p \in Payloads, channel \in 0 .. 2, listens \in BOOLEAN, has_rtcp \in BOOLEAN, n \in Nat :
          /\ n <= Len(Sent(h, p)) /\ HeaderFits(h) /\ p \in Seq(RtpOctet)
          /\ Arrives(h, p, channel, listens, has_rtcp, n)
  BY FeedNextIs
<1> DEFINE s == [hdr |-> h, payload |-> p, len |-> n, channel |-> channel,
                 listens |-> listens, has_rtcp |-> has_rtcp]
           d == SubSeq(Sent(h, p), 1, n)
           N == Len(f_sent) + 1
           H == HeaderSize(h)
<1>2. s \in Packets
  BY PacketsRecord
<1>3. Len(f_sent) \in Nat
  BY SeqFacts DEF FeedInv
<1>4. f_sent' = Append(f_sent, s) /\ Feed(channel, d, listens, has_rtcp)
  BY <1>1 DEF Arrives
<1>5. Deserialize(d) = IF WholeHeader(h, n) THEN H ELSE Failure
  BY <1>1, DeserializeIs
<1>6. H # Failure
  <2>1. H \in Nat
    BY <1>1, HeaderSizes
  <2> HIDE DEF H
  <2>2. QED
    BY <2>1 DEF Failure
<1>7. WholeHeader(h, n) => OnAudio(d, H) = Call(N, h, p, n) /\ Call(N, h, p, n) \in Calls
  <2>1. WholeHeader(h, n) => n >= H
    BY DEF WholeHeader
  <2>2. QED
    BY <1>1, <1>3, <2>1, OnAudioIs
<1>8. s.hdr = h /\ s.payload = p /\ s.len = n /\ s.channel = channel /\ s.listens = listens /\ s.has_rtcp = has_rtcp
  OBVIOUS
<1> HIDE DEF s, d, H
<1>9. PICK r \in {-1, 0} : Returned(f_results', f_results, r, channel, listens, d)
  BY <1>4, FeedIs
<1>10. /\ f_audio' = IF channel = 1 /\ listens /\ Deserialize(d) # Failure
                     THEN Append(f_audio, OnAudio(d, Deserialize(d))) ELSE f_audio
       /\ f_rtcp' = IF channel = 0 /\ has_rtcp THEN Append(f_rtcp, N) ELSE f_rtcp
  BY <1>4, FeedIs
<1>11. Deserialize(d) = Failure <=> ~WholeHeader(h, n)
  BY <1>5, <1>6
<1>12. RightResult(s, r)
  BY <1>8, <1>9, <1>11, Zenon DEF RightResult, Returned
<1>13. Effect(s, N, f_audio, f_audio', r, f_rtcp, f_rtcp')
  <2>1. CASE channel = 1 /\ listens /\ WholeHeader(h, n)
    <3>1. f_audio' = Append(f_audio, Call(N, h, p, n)) /\ Call(N, h, p, n) \in Calls
      BY <1>5, <1>7, <1>10, <1>11, <2>1, Zenon
    <3>2. QED
      BY <1>8, <1>10, <1>12, <2>1, <3>1, Zenon DEF Effect
  <2>2. CASE ~(channel = 1 /\ listens /\ WholeHeader(h, n))
    <3>1. f_audio' = f_audio
      BY <1>10, <1>11, <2>2, Zenon
    <3>2. QED
      BY <1>8, <1>10, <1>12, <2>2, <3>1, Zenon DEF Effect
  <2>3. QED
    BY <2>1, <2>2, Zenon
<1>14. f_results' = Append(f_results, r)
  BY <1>9 DEF Returned
<1>15. QED
  BY <1>2, <1>4, <1>13, <1>14

LEMMA FeedStep ==
    ASSUME FeedInv, FeedNext
    PROVE  FeedInv'
<1> DEFINE N == Len(f_sent) + 1
<1>1. PICK s \in Packets, r \in {-1, 0} :
          /\ f_sent' = Append(f_sent, s) /\ f_results' = Append(f_results, r)
          /\ Effect(s, N, f_audio, f_audio', r, f_rtcp, f_rtcp')
  BY FeedEffect
<1>2. /\ f_sent \in Seq(Packets) /\ f_results \in Seq({-1, 0}) /\ Len(f_results) = Len(f_sent)
      /\ HeardOnce(f_audio, f_sent) /\ f_audio \in Seq(Calls)
      /\ f_rtcp \in Seq(Nat) /\ \A i \in 1 .. Len(f_rtcp) : f_rtcp[i] \in 1 .. Len(f_sent)
  BY DEF FeedInv, HeardOnce
<1>3. f_sent' \in Seq(Packets) /\ Longer(f_sent', f_sent, s)
  BY <1>1, <1>2, AppendLonger
<1>4. f_results' \in Seq({-1, 0}) /\ Longer(f_results', f_results, r)
  BY <1>1, <1>2, AppendLonger
<1>5. Len(f_sent) \in Nat /\ Len(f_sent') = N /\ Len(f_results') = N /\ N \in Nat /\ N \notin 1 .. Len(f_sent)
      /\ (\A n \in 1 .. N : n \in 1 .. Len(f_sent) \/ n = N) /\ \A n \in 1 .. Len(f_sent) : n \in 1 .. N /\ n # N
  BY <1>2, <1>3, <1>4 DEF Longer
<1>6. f_sent'[N] = s /\ f_results'[N] = r
      /\ \A n \in 1 .. Len(f_sent) : f_sent'[n] = f_sent[n] /\ f_results'[n] = f_results[n]
  BY <1>2, <1>3, <1>4 DEF Longer
<1> DEFINE heard == s.channel = 1 /\ s.listens /\ WholeHeader(s.hdr, s.len)
           c == Call(N, s.hdr, s.payload, s.len)
<1>7. c.nth = N
  BY DEF Call
<1> HIDE DEF N
<1>8. /\ heard => f_audio' \in Seq(Calls) /\ Longer(f_audio', f_audio, c)
      /\ ~heard => f_audio' = f_audio
  <2>1. heard => f_audio' = Append(f_audio, c) /\ c \in Calls
    BY <1>1, Zenon DEF Effect
  <2>2. ~heard => f_audio' = f_audio
    BY <1>1, Zenon DEF Effect
  <2> HIDE DEF heard, c
  <2>3. QED
    BY <1>2, <2>1, <2>2, AppendLonger
<1> DEFINE told == s.channel = 0 /\ s.has_rtcp
<1>9. /\ told => f_rtcp' \in Seq(Nat) /\ Longer(f_rtcp', f_rtcp, N)
      /\ ~told => f_rtcp' = f_rtcp
  <2>1. (told => f_rtcp' = Append(f_rtcp, N)) /\ (~told => f_rtcp' = f_rtcp)
    BY <1>1, Zenon DEF Effect
  <2> HIDE DEF told
  <2>2. QED
    BY <1>2, <1>5, <2>1, AppendLonger
<1> HIDE DEF c
<1>10. HeardOnce(f_audio', f_sent')
  <2>1. CASE ~heard
    BY <1>2, <1>5, <1>8, <2>1 DEF HeardOnce
  <2>2. CASE heard
    <3>1. Longer(f_audio', f_audio, c) /\ f_audio' \in Seq(Calls)
      BY <1>8, <2>2
    <3>2. ASSUME NEW i \in 1 .. Len(f_audio')
          PROVE  \/ i \in 1 .. Len(f_audio) /\ f_audio'[i] = f_audio[i] /\ f_audio'[i].nth \in 1 .. Len(f_sent)
                 \/ i = Len(f_audio) + 1 /\ f_audio'[i].nth = N
      <4>1. (i \in 1 .. Len(f_audio) /\ f_audio'[i] = f_audio[i]) \/ (i = Len(f_audio) + 1 /\ f_audio'[i] = c)
        BY <3>1, LongerPlaces
      <4>2. QED
        BY <1>2, <1>7, <4>1 DEF HeardOnce
    <3>3. \A i \in 1 .. Len(f_audio') : f_audio'[i].nth \in 1 .. Len(f_sent')
      <4>1. N \in 1 .. N
        BY <1>5 DEF N
      <4>2. QED
        BY <1>5, <3>2, <4>1
    <3>4. ASSUME NEW i \in 1 .. Len(f_audio'), NEW j \in 1 .. Len(f_audio'), f_audio'[i].nth = f_audio'[j].nth
          PROVE  i = j
      <4>1. CASE i = Len(f_audio) + 1 /\ f_audio'[i].nth = N
        BY <1>5, <3>2, <3>4, <4>1
      <4>2. CASE j = Len(f_audio) + 1 /\ f_audio'[j].nth = N
        BY <1>5, <3>2, <3>4, <4>2
      <4>3. CASE i \in 1 .. Len(f_audio) /\ f_audio'[i] = f_audio[i] /\ j \in 1 .. Len(f_audio) /\ f_audio'[j] = f_audio[j]
        BY <1>2, <3>4, <4>3 DEF HeardOnce
      <4>4. QED
        BY <3>2, <4>1, <4>2, <4>3
    <3>5. QED
      BY <3>1, <3>3, <3>4 DEF HeardOnce
  <2>3. QED
    BY <2>1, <2>2
<1>11. f_rtcp' \in Seq(Nat) /\ \A i \in 1 .. Len(f_rtcp') : f_rtcp'[i] \in 1 .. Len(f_sent')
  <2>1. CASE ~told
    BY <1>2, <1>5, <1>9, <2>1
  <2>2. CASE told
    <3>1. f_rtcp' \in Seq(Nat) /\ Longer(f_rtcp', f_rtcp, N)
      BY <1>9, <2>2
    <3>2. ASSUME NEW i \in 1 .. Len(f_rtcp') PROVE f_rtcp'[i] \in 1 .. N
      <4>1. (i \in 1 .. Len(f_rtcp) /\ f_rtcp'[i] = f_rtcp[i]) \/ (i = Len(f_rtcp) + 1 /\ f_rtcp'[i] = N)
        BY <3>1, LongerPlaces
      <4>2. N \in 1 .. N
        BY <1>5 DEF N
      <4>3. QED
        BY <1>2, <1>5, <4>1, <4>2
    <3>3. QED
      BY <1>5, <3>1, <3>2
  <2>3. QED
    BY <2>1, <2>2
<1>12. ASSUME NEW n \in 1 .. Len(f_sent)
       PROVE  /\ RightAudio(f_sent[n], n, f_audio') /\ RightResult(f_sent[n], f_results[n])
              /\ RightRtcp(f_sent[n], n, f_rtcp')
  <2>1. RightAudio(f_sent[n], n, f_audio) /\ RightResult(f_sent[n], f_results[n]) /\ RightRtcp(f_sent[n], n, f_rtcp)
    BY DEF FeedInv
  <2>2. N # n
    BY <1>5
  <2>3. RightAudio(f_sent[n], n, f_audio')
    BY <1>7, <1>8, <2>1, <2>2, AudioOld
  <2>4. RightRtcp(f_sent[n], n, f_rtcp')
    BY <1>9, <2>1, <2>2, RtcpOld
  <2>5. QED
    BY <2>1, <2>3, <2>4
<1>13. RightAudio(s, N, f_audio')
  <2>1. \A i \in 1 .. Len(f_audio) : f_audio[i].nth # N
    BY <1>2, <1>5 DEF HeardOnce
  <2>2. CASE heard
    <3>1. Longer(f_audio', f_audio, c)
      BY <1>8, <2>2
    <3>2. \A i \in 1 .. Len(f_audio') : f_audio'[i].nth = N => f_audio'[i] = c
      BY <2>1, <3>1, LongerPlaces
    <3>3. \E i \in 1 .. Len(f_audio') : f_audio'[i].nth = N
      BY <1>7, <3>1, LongerHas
    <3>4. QED
      BY <2>2, <3>2, <3>3, Zenon DEF RightAudio, c
  <2>3. CASE ~heard
    BY <1>8, <2>1, <2>3, Zenon DEF RightAudio
  <2>4. QED
    BY <2>2, <2>3
<1>14. RightRtcp(s, N, f_rtcp')
  <2>1. \A i \in 1 .. Len(f_rtcp) : f_rtcp[i] # N
    BY <1>2, <1>5
  <2>2. CASE told
    <3>1. Longer(f_rtcp', f_rtcp, N)
      BY <1>9, <2>2
    <3>2. \E i \in 1 .. Len(f_rtcp') : f_rtcp'[i] = N
      BY <3>1, LongerHas
    <3>3. QED
      BY <2>2, <3>2, Zenon DEF RightRtcp
  <2>3. CASE ~told
    BY <1>9, <2>1, <2>3, Zenon DEF RightRtcp
  <2>4. QED
    BY <2>2, <2>3
<1>15. RightResult(s, r)
  BY <1>1 DEF Effect
<1>16. ASSUME NEW n \in 1 .. Len(f_sent')
       PROVE  /\ RightAudio(f_sent'[n], n, f_audio') /\ RightResult(f_sent'[n], f_results'[n])
              /\ RightRtcp(f_sent'[n], n, f_rtcp')
  <2>1. CASE n \in 1 .. Len(f_sent)
    BY <1>6, <1>12, <2>1
  <2>2. CASE n = N
    BY <1>6, <1>13, <1>14, <1>15, <2>2
  <2>3. QED
    BY <1>5, <2>1, <2>2
<1>17. QED
  BY <1>3, <1>4, <1>5, <1>10, <1>11, <1>16 DEF FeedInv

LEMMA FeedInvExact ==
    ASSUME FeedInv
    PROVE  FeedExact
<1>1. /\ f_sent \in Seq(Packets) /\ f_audio \in Seq(Calls) /\ f_rtcp \in Seq(Nat)
      /\ \A i, j \in 1 .. Len(f_audio) : f_audio[i].nth = f_audio[j].nth => i = j
  BY DEF FeedInv, HeardOnce
<1>2. DOMAIN f_sent = 1 .. Len(f_sent) /\ DOMAIN f_audio = 1 .. Len(f_audio) /\ DOMAIN f_rtcp = 1 .. Len(f_rtcp)
  BY <1>1, SeqFacts
<1>3. IsInjective([i \in DOMAIN f_audio |-> f_audio[i].nth])
  BY <1>1, <1>2 DEF IsInjective
<1>4. ASSUME NEW n \in DOMAIN f_sent
      PROVE  LET s == f_sent[n]
                 heard == {i \in DOMAIN f_audio : f_audio[i].nth = n}
                 whole == s.len >= HeaderSize(s.hdr) /\ s.hdr.version = 2
             IN  /\ heard # {} <=> s.channel = 1 /\ s.listens /\ whole
                 /\ \A i \in heard :
                        f_audio[i] = [nth |-> n, payload_ty |-> s.hdr.payload_ty,
                                      timestamp |-> s.hdr.timestamp, ssrc |-> s.hdr.ssrc,
                                      payload |-> SubSeq(s.payload, 1, s.len - HeaderSize(s.hdr))]
                 /\ s.channel # 0 =>
                        (f_results[n] = -1 <=> s.channel = 2 \/ (s.listens /\ ~whole))
                 /\ (\E i \in DOMAIN f_rtcp : f_rtcp[i] = n) <=> s.channel = 0 /\ s.has_rtcp
                 /\ HeaderSize(s.hdr) = Len(Serialize(s.hdr))
                 /\ HeaderSize(s.hdr) = SrtpHeaderLen(Serialize(s.hdr) \o s.payload)
  <2> DEFINE s == f_sent[n]
             heard == {i \in DOMAIN f_audio : f_audio[i].nth = n}
             whole == s.len >= HeaderSize(s.hdr) /\ s.hdr.version = 2
  <2>1. n \in 1 .. Len(f_sent)
    BY <1>2
  <2>2. RightAudio(s, n, f_audio) /\ RightResult(s, f_results[n]) /\ RightRtcp(s, n, f_rtcp)
    BY <2>1 DEF FeedInv
  <2>3. s.hdr \in RtpHeaders /\ s.payload \in Payloads
    <3>1. s \in Packets
      BY <1>1, <2>1, SeqFacts
    <3>2. QED
      BY <3>1 DEF Packets
  <2>4. HeaderFits(s.hdr) /\ s.payload \in Seq(RtpOctet)
    BY <2>3, FeedAssumption
  <2>5. HeaderSize(s.hdr) = Len(Serialize(s.hdr))
    BY <2>4, SerializeIs
  <2>6. HeaderSize(s.hdr) = SrtpHeaderLen(Serialize(s.hdr) \o s.payload)
    BY <2>4, SrtpHeaderLenIs DEF Sent
  <2>7. whole <=> WholeHeader(s.hdr, s.len)
    BY DEF WholeHeader
  <2>8. heard # {} <=> \E i \in 1 .. Len(f_audio) : f_audio[i].nth = n
    BY <1>2
  <2>9. heard # {} <=> s.channel = 1 /\ s.listens /\ whole
    BY <2>2, <2>7, <2>8, Zenon DEF RightAudio
  <2>10. \A i \in heard : f_audio[i] = Call(n, s.hdr, s.payload, s.len)
    BY <1>2, <2>2, Zenon DEF RightAudio
  <2>11. s.channel # 0 => (f_results[n] = -1 <=> s.channel = 2 \/ (s.listens /\ ~whole))
    BY <2>2, <2>7, Zenon DEF RightResult
  <2>12. (\E i \in DOMAIN f_rtcp : f_rtcp[i] = n) <=> s.channel = 0 /\ s.has_rtcp
    BY <1>2, <2>2, Zenon DEF RightRtcp
  <2>13. QED
    BY <2>5, <2>6, <2>9, <2>10, <2>11, <2>12, Zenon DEF Call
<1>5. QED
  BY <1>3, <1>4, Zenon DEF FeedExact

\* For all headers, payloads and cuts: what Compy_RtpReceiver_feed tells on_audio
\* is what was sent, once, and only of packets whose header arrived whole; and
\* Compy_RtpHeader_size, Compy_RtpHeader_deserialize and the SRTP layer agree on
\* where the header ends.
THEOREM FeedsExact == FeedSpec => []FeedExact
<1>1. FeedInit => FeedInv
  BY FeedInitInv
<1>2. FeedInv /\ [FeedNext]_feedVars => FeedInv'
  <2>1. FeedInv /\ UNCHANGED feedVars => FeedInv'
    BY DEF FeedInv, feedVars
  <2>2. QED
    BY <2>1, FeedStep
<1>3. FeedInv => FeedExact
  BY FeedInvExact
<1>4. QED
  BY <1>1, <1>2, <1>3, PTL DEF FeedSpec
-----------------------------------------------------------------------------
(* JpegTransport: the parser.                                              *)

JpegTables == Seq([id : 0 .. 15, wide : BOOLEAN])
Infos == [is_jpeg : BOOLEAN, type : {0, 1}, width_8 : Nat, height_8 : Nat, restart_interval : Nat,
          qt_data : JpegTables, qt_precision : SUBSET Nat, scan_len : Nat,
          found_sof : BOOLEAN, found_sos : BOOLEAN]

LEMMA InfoTypes == NoInfo \in Infos /\ NotJpeg \in Infos /\ ~NotJpeg.is_jpeg /\ NoInfo.is_jpeg
<1>1. <<>> \in JpegTables /\ {} \in SUBSET Nat
  BY DEF JpegTables
<1>2. NoInfo \in Infos
  BY <1>1, SMT DEF NoInfo, Infos
<1>3. NotJpeg \in Infos /\ ~NotJpeg.is_jpeg
  <2>1. ASSUME NEW x \in Infos PROVE [x EXCEPT !.is_jpeg = FALSE] \in Infos
    BY DEF Infos
  <2>2. ASSUME NEW x \in Infos PROVE [x EXCEPT !.is_jpeg = FALSE].is_jpeg = FALSE
    BY DEF Infos
  <2>3. QED
    BY <1>2, <2>1, <2>2, Zenon DEF NotJpeg
<1>4. NoInfo.is_jpeg
  BY DEF NoInfo
<1>5. QED
  BY <1>2, <1>3, <1>4

\* The octets of the tables: more with more tables.
LEMMA QtLenIs ==
    ASSUME NEW q \in JpegTables
    PROVE  /\ WideOnes(q) \subseteq 1 .. Len(q) /\ IsFiniteSet(WideOnes(q))
           /\ Cardinality(WideOnes(q)) \in Nat
           /\ QtLen(q) \in Nat /\ 64 * Len(q) <= QtLen(q)
<1>1. Len(q) \in Nat /\ DOMAIN q = 1 .. Len(q)
  BY DEF JpegTables
<1>2. WideOnes(q) \subseteq 1 .. Len(q)
  BY <1>1 DEF WideOnes
<1>3. IsFiniteSet(1 .. Len(q))
  BY <1>1, FS_Interval
<1>4. IsFiniteSet(WideOnes(q))
  BY <1>2, <1>3, FS_Subset
<1>5. Cardinality(WideOnes(q)) \in Nat
  BY <1>4, FS_CardinalityType
<1>6. QED
  BY <1>1, <1>2, <1>4, <1>5, SMT DEF QtLen

LEMMA QtLenMore ==
    ASSUME NEW q \in JpegTables, NEW r \in JpegTables
    PROVE  q \o r \in JpegTables /\ QtLen(q) <= QtLen(q \o r)
<1> DEFINE w == q \o r
<1>1. w \in JpegTables /\ Behind(w, q, r)
  BY Joined DEF JpegTables
<1> HIDE DEF w
<1>2. Len(q) \in Nat /\ DOMAIN q = 1 .. Len(q) /\ DOMAIN w = 1 .. Len(w) /\ Len(w) \in Nat
  BY <1>1 DEF JpegTables
<1>3. Len(q) <= Len(w) /\ \A i \in 1 .. Len(q) : i \in 1 .. Len(w) /\ w[i] = q[i]
  BY <1>1, <1>2 DEF Behind
<1>4. WideOnes(q) \subseteq WideOnes(w)
  BY <1>2, <1>3 DEF WideOnes
<1>5. Cardinality(WideOnes(q)) <= Cardinality(WideOnes(w))
  BY <1>1, <1>4, QtLenIs, FS_Subset
<1>6. Cardinality(WideOnes(q)) \in Nat /\ Cardinality(WideOnes(w)) \in Nat
  BY <1>1, QtLenIs
<1>7. QtLen(q) <= QtLen(w)
  BY <1>2, <1>3, <1>5, <1>6, SMT DEF QtLen
<1>8. QED
  BY <1>1, <1>7 DEF w

\* The tables that need a bit in qt_precision.
Precise(t) == {t[i].id : i \in {j \in DOMAIN t : t[j].wide /\ t[j].id < 8}}

LEMMA PreciseMore ==
    ASSUME NEW q \in JpegTables, NEW r \in JpegTables
    PROVE  /\ Precise(q \o r) = Precise(q) \cup {t.id : t \in {x \in ToSet(r) : x.wide /\ x.id < 8}}
           /\ {t.id : t \in {x \in ToSet(r) : x.wide /\ x.id < 8}} \subseteq Nat
<1> DEFINE w == q \o r
           P == {t.id : t \in {x \in ToSet(r) : x.wide /\ x.id < 8}}
<1>1. w \in JpegTables /\ Behind(w, q, r)
  BY Joined DEF JpegTables
<1> HIDE DEF w
<1>2. /\ Len(q) \in Nat /\ DOMAIN q = 1 .. Len(q) /\ DOMAIN w = 1 .. Len(w) /\ Len(w) \in Nat
      /\ Len(r) \in Nat /\ DOMAIN r = 1 .. Len(r)
  BY <1>1 DEF JpegTables
<1>3. P = Precise(r)
  BY <1>2 DEF Precise, ToSet
<1>4. P \subseteq Nat
  <2>1. \A i \in 1 .. Len(r) : r[i].id \in Nat
    <3>1. \A i \in 1 .. Len(r) : r[i] \in [id : 0 .. 15, wide : BOOLEAN]
      BY SeqFacts DEF JpegTables
    <3>2. QED
      BY <3>1
  <2>2. QED
    BY <1>2, <1>3, <2>1 DEF Precise
<1> HIDE DEF P
<1>5. ASSUME NEW x \in Precise(w) PROVE x \in Precise(q) \cup Precise(r)
  <2>1. PICK i \in 1 .. Len(w) : w[i].wide /\ w[i].id < 8 /\ x = w[i].id
    BY <1>2 DEF Precise
  <2>2. \/ i \in 1 .. Len(q) /\ w[i] = q[i]
        \/ i - Len(q) \in 1 .. Len(r) /\ w[i] = r[i - Len(q)]
    BY <1>1, BehindPlaces
  <2>3. QED
    BY <1>2, <2>1, <2>2 DEF Precise
<1>6. ASSUME NEW x \in Precise(q) PROVE x \in Precise(w)
  <2>1. PICK i \in 1 .. Len(q) : q[i].wide /\ q[i].id < 8 /\ x = q[i].id
    BY <1>2 DEF Precise
  <2>2. i \in 1 .. Len(w) /\ w[i] = q[i]
    BY <1>1, <1>2 DEF Behind
  <2>3. QED
    BY <1>2, <2>1, <2>2 DEF Precise
<1>7. ASSUME NEW x \in Precise(r) PROVE x \in Precise(w)
  <2>1. PICK i \in 1 .. Len(r) : r[i].wide /\ r[i].id < 8 /\ x = r[i].id
    BY <1>2 DEF Precise
  <2>2. Len(q) + i \in 1 .. Len(w) /\ w[Len(q) + i] = r[i]
    BY <1>1, <1>2 DEF Behind
  <2>3. QED
    BY <1>2, <2>1, <2>2 DEF Precise
<1>8. Precise(w) = Precise(q) \cup P
  BY <1>3, <1>5, <1>6, <1>7
<1>9. QED
  BY <1>4, <1>8 DEF w, P

\* Updates of the info keep its types.
LEMMA InfoTables ==
    ASSUME NEW x \in Infos, NEW t \in JpegTables, NEW P \in SUBSET Nat
    PROVE  [x EXCEPT !.qt_data = t, !.qt_precision = P] \in Infos
BY DEF Infos

LEMMA InfoSof ==
    ASSUME NEW x \in Infos, NEW w \in Nat, NEW h \in Nat, NEW t \in {0, 1}
    PROVE  [x EXCEPT !.width_8 = w, !.height_8 = h, !.type = t, !.found_sof = TRUE] \in Infos
BY DEF Infos

LEMMA InfoDri ==
    ASSUME NEW x \in Infos, NEW n \in Nat
    PROVE  [x EXCEPT !.restart_interval = n] \in Infos
BY DEF Infos

LEMMA InfoSos ==
    ASSUME NEW x \in Infos, NEW n \in Nat
    PROVE  [x EXCEPT !.scan_len = n, !.found_sos = TRUE] \in Infos
BY DEF Infos

LEMMA EighthsNat == ASSUME NEW n \in Nat PROVE Eighths(n) \in Nat
BY SMT DEF Eighths

LEMMA ReadTypes ==
    ASSUME NEW frame, FrameFits(frame), NEW x \in Infos, NEW seg, SegmentFits(seg)
    PROVE  ReadSegment(frame, x, seg) \in Infos
<1> SUFFICES ASSUME x.is_jpeg, ~x.found_sos, seg.ok
             PROVE  ParseSegment(frame, x, seg) \in Infos
  BY InfoTypes DEF ReadSegment, ParseSegment
<1>1. CASE seg.marker = "DQT"
  <2>1. seg.tables \in JpegTables /\ x.qt_data \in JpegTables /\ x.qt_precision \in SUBSET Nat
    BY <1>1 DEF SegmentFits, Infos, JpegTables
  <2>2. ParseDqt(x, seg.tables) \in Infos
    <3> DEFINE P == {t.id : t \in {y \in ToSet(seg.tables) : y.wide /\ y.id < 8}}
    <3>1. P \in SUBSET Nat /\ x.qt_data \o seg.tables \in JpegTables
      BY <2>1, PreciseMore, QtLenMore
    <3>2. x.qt_precision \cup P \in SUBSET Nat
      BY <2>1, <3>1
    <3> HIDE DEF P
    <3>3. [x EXCEPT !.qt_data = x.qt_data \o seg.tables, !.qt_precision = x.qt_precision \cup P] \in Infos
      BY <3>1, <3>2, InfoTables
    <3>4. QED
      BY <3>3, InfoTypes DEF ParseDqt, P
  <2>3. QED
    BY <1>1, <2>2 DEF ParseSegment
<1>2. CASE seg.marker = "SOF0"
  <2>1. Eighths(seg.width) \in Nat /\ Eighths(seg.height) \in Nat
    BY <1>2, EighthsNat DEF SegmentFits
  <2>2. ParseSof0(x, seg) \in Infos
    BY <2>1, InfoSof DEF ParseSof0
  <2>3. QED
    BY <1>2, <2>2 DEF ParseSegment
<1>3. CASE seg.marker = "DRI"
  BY <1>3, InfoDri DEF ParseSegment, SegmentFits
<1>4. CASE seg.marker = "SOS"
  BY <1>4, InfoSos, InfoTypes DEF ParseSegment, FrameFits
<1>5. CASE seg.marker \in {"other", "alone"}
  BY <1>5 DEF ParseSegment
<1>6. QED
  BY <1>1, <1>2, <1>3, <1>4, <1>5 DEF SegmentFits

\* The rounds of the loop.
Rounds(frame, infos) ==
    /\ infos \in [0 .. Len(frame.segs) -> Infos]
    /\ infos[0] = NoInfo
    /\ \A n \in 1 .. Len(frame.segs) : infos[n] = ReadSegment(frame, infos[n - 1], frame.segs[n])

LEMMA SegmentsFit ==
    ASSUME NEW frame, FrameFits(frame)
    PROVE  /\ Len(frame.segs) \in Nat /\ DOMAIN frame.segs = 1 .. Len(frame.segs)
           /\ \A i \in 1 .. Len(frame.segs) : SegmentFits(frame.segs[i])
<1>1. frame.segs \in Seq(ToSet(frame.segs))
  BY DEF FrameFits
<1>2. Len(frame.segs) \in Nat /\ DOMAIN frame.segs = 1 .. Len(frame.segs)
  BY <1>1, SeqFacts
<1>3. QED
  BY <1>2 DEF FrameFits

LEMMA ParseRounds ==
    ASSUME NEW frame, FrameFits(frame)
    PROVE  \E infos : Rounds(frame, infos) /\ ParseJpegFrame(frame) = Accept(frame, infos[Len(frame.segs)])
<1> DEFINE k == Len(frame.segs)
           A == Infos
           Def(g) == [n \in 0 .. k |-> IF n = 0 THEN NoInfo ELSE ReadSegment(frame, g[n - 1], frame.segs[n])]
           infos == CHOOSE g : g = Def(g)
           step == [y \in Nat \X A |-> IF y[1] \in 1 .. k THEN ReadSegment(frame, y[2], frame.segs[y[1]])
                                       ELSE y[2]]
<1>1. k \in Nat /\ \A i \in 1 .. k : SegmentFits(frame.segs[i])
  BY SegmentsFit
<1>2. ParseJpegFrame(frame) = Accept(frame, infos[k])
  BY DEF ParseJpegFrame
<1> HIDE DEF k, A
<1>3. step \in [Nat \X A -> A]
  <2>1. ASSUME NEW y \in Nat \X A, y[1] \in 1 .. k
        PROVE  ReadSegment(frame, y[2], frame.segs[y[1]]) \in A
    BY <1>1, <2>1, ReadTypes DEF A
  <2>2. QED
    BY <2>1
<1>4. NoInfo \in A
  BY InfoTypes DEF A
<1>5. PICK h : Continues(h, A, 0, k, NoInfo, step)
  <2> HIDE DEF step
  <2>1. 0 \in Nat
    OBVIOUS
  <2>2. QED
    BY <1>1, <1>3, <1>4, <2>1, Continued
<1>6. h \in [0 .. k -> A] /\ h[0] = NoInfo /\ \A i \in 1 .. k : h[i] = step[<<i, h[i - 1]>>]
  <2>1. 0 + 1 = 1 /\ 0 + k = k
    BY <1>1
  <2> HIDE DEF step
  <2>2. QED
    BY <1>5, <2>1 DEF Continues
<1>7. ASSUME NEW i \in 1 .. k PROVE h[i] = ReadSegment(frame, h[i - 1], frame.segs[i])
  <2>1. i - 1 \in 0 .. k /\ i \in Nat /\ i # 0
    BY <1>1
  <2>2. <<i, h[i - 1]>> \in Nat \X A
    BY <1>6, <2>1
  <2>3. QED
    BY <1>6, <2>2
<1>8. h = Def(h)
  <2>1. \A n \in 0 .. k : h[n] = IF n = 0 THEN NoInfo ELSE ReadSegment(frame, h[n - 1], frame.segs[n])
    <3>1. \A n \in 0 .. k : n = 0 \/ n \in 1 .. k
      BY <1>1
    <3> HIDE DEF step
    <3>2. QED
      BY <1>6, <1>7, <3>1
  <2>2. h = [n \in 0 .. k |-> h[n]]
    BY <1>6
  <2>3. QED
    BY <2>1, <2>2
<1>9. infos = Def(infos)
  <2> HIDE DEF Def
  <2>1. \E g : g = Def(g)
    BY <1>8
  <2>2. QED
    BY <2>1
<1> HIDE DEF infos, step
<1>10. DOMAIN infos = 0 .. k /\ \A n \in 0 .. k : infos[n] = IF n = 0 THEN NoInfo
                                                       ELSE ReadSegment(frame, infos[n - 1], frame.segs[n])
  <2>1. infos = [n \in 0 .. k |-> IF n = 0 THEN NoInfo ELSE ReadSegment(frame, infos[n - 1], frame.segs[n])]
    BY <1>9, Zenon
  <2> HIDE DEF Def
  <2>2. QED
    BY <2>1, Zenon
<1>11. infos[0] = NoInfo /\ \A n \in 1 .. k : infos[n] = ReadSegment(frame, infos[n - 1], frame.segs[n])
  <2>1. 0 \in 0 .. k /\ \A n \in 1 .. k : n \in 0 .. k /\ n # 0
    BY <1>1
  <2>2. QED
    BY <1>10, <2>1
<1> DEFINE T == {n \in Nat : n <= k => infos[n] \in A}
<1>12. 0 \in T
  BY <1>4, <1>11
<1>13. ASSUME NEW n \in T PROVE n + 1 \in T
  <2> SUFFICES ASSUME n + 1 <= k PROVE infos[n + 1] \in A
    OBVIOUS
  <2>1. n \in Nat /\ infos[n] \in A
    BY <1>1
  <2> DEFINE m == n + 1
  <2>2. m \in 1 .. k /\ m - 1 = n
    BY <1>1, <2>1
  <2> HIDE DEF m, T
  <2>3. infos[m] = ReadSegment(frame, infos[n], frame.segs[m]) /\ SegmentFits(frame.segs[m])
    BY <1>1, <1>11, <2>2
  <2>4. infos[m] \in A
    BY <2>1, <2>3, ReadTypes DEF A
  <2>5. QED
    BY <2>4 DEF m
<1>14. T = Nat
  <2> HIDE DEF T
  <2>1. T \in SUBSET Nat
    BY DEF T
  <2>2. QED
    BY <1>12, <1>13, <2>1, Induction
<1>15. infos \in [0 .. k -> A]
  <2>1. ASSUME NEW n \in 0 .. k PROVE infos[n] \in A
    <3>1. n \in T /\ n <= k
      BY <1>1, <1>14
    <3>2. QED
      BY <3>1
  <2>2. infos = [n \in 0 .. k |-> infos[n]]
    BY <1>10, <1>9
  <2>3. QED
    BY <2>1, <2>2
<1>16. Rounds(frame, infos)
  BY <1>11, <1>15 DEF Rounds, k, A
<1>17. QED
  BY <1>2, <1>16 DEF k

\* i is the last one of T.
IsLast(i, T) == i \in T /\ \A j \in T : j <= i

LEMMA MarkedNext ==
    ASSUME NEW frame, NEW marker, NEW n \in Nat
    PROVE  Marked(frame, marker, n + 1) =
               IF frame.segs[n + 1].marker = marker THEN Marked(frame, marker, n) \cup {n + 1}
               ELSE Marked(frame, marker, n)
<1>1. 1 .. n + 1 = (1 .. n) \cup {n + 1}
  OBVIOUS
<1>2. QED
  BY <1>1, Zenon DEF Marked

LEMMA LastNext ==
    ASSUME NEW frame, NEW marker, NEW n \in Nat
    PROVE  IF frame.segs[n + 1].marker = marker
           THEN /\ Marked(frame, marker, n + 1) # {}
                /\ \A i : IsLast(i, Marked(frame, marker, n + 1)) => i = n + 1
           ELSE Marked(frame, marker, n + 1) = Marked(frame, marker, n)
<1>1. Marked(frame, marker, n) \subseteq 1 .. n
  BY DEF Marked
<1>2. CASE frame.segs[n + 1].marker = marker
  <2>1. n + 1 \in Marked(frame, marker, n + 1)
    BY <1>2 DEF Marked
  <2>2. ASSUME NEW i, IsLast(i, Marked(frame, marker, n + 1)) PROVE i = n + 1
    <3>1. i \in 1 .. n + 1 /\ n + 1 <= i
      BY <2>1, <2>2 DEF IsLast, Marked
    <3>2. QED
      BY <3>1
  <2>3. QED
    BY <1>2, <2>1, <2>2
<1>3. CASE frame.segs[n + 1].marker # marker
  BY <1>3, MarkedNext
<1>4. QED
  BY <1>2, <1>3

\* What the info holds of the first n segments.
TablesRead(frame, n, x) ==
    /\ x.qt_data = TablesUpto(frame, n) /\ QtLen(x.qt_data) <= MAX_QT_DATA
    /\ x.qt_precision = Precise(x.qt_data)
SofRead(frame, n, x) ==
    /\ x.found_sof <=> Marked(frame, "SOF0", n) # {}
    /\ \A i : IsLast(i, Marked(frame, "SOF0", n)) =>
           /\ x.width_8 = Eighths(frame.segs[i].width) /\ x.height_8 = Eighths(frame.segs[i].height)
           /\ x.type = IF frame.segs[i].sampling = "420" THEN 1 ELSE 0
DriRead(frame, n, x) ==
    /\ Marked(frame, "DRI", n) = {} => x.restart_interval = 0
    /\ \A i : IsLast(i, Marked(frame, "DRI", n)) => x.restart_interval = frame.segs[i].interval
SosRead(frame, n, x) ==
    /\ x.found_sos <=> Marked(frame, "SOS", n) # {}
    /\ x.found_sos => frame.eoi /\ x.scan_len = frame.scan
AllRead(frame, n, x) ==
    /\ \A i \in 1 .. n : frame.segs[i].ok
    /\ TablesRead(frame, n, x) /\ SofRead(frame, n, x) /\ DriRead(frame, n, x) /\ SosRead(frame, n, x)

\* Why a frame is refused.
Faulty(frame, n) ==
    \/ \E i \in 1 .. n : ~frame.segs[i].ok
    \/ ~frame.eoi
    \/ QtLen(TablesUpto(frame, n)) > MAX_QT_DATA

ReadUpto(frame, n, x) == IF x.is_jpeg THEN AllRead(frame, n, x) ELSE Faulty(frame, n)

\* One segment has the tables that it has.
LEMMA TablesNext ==
    ASSUME NEW frame, FrameFits(frame), NEW n \in Nat, n < Len(frame.segs)
    PROVE  /\ TablesUpto(frame, n) \in JpegTables /\ TablesIn(frame.segs[n + 1]) \in JpegTables
           /\ TablesUpto(frame, n + 1) = TablesUpto(frame, n) \o TablesIn(frame.segs[n + 1])
           /\ QtLen(TablesUpto(frame, n)) <= QtLen(TablesUpto(frame, n + 1))
           /\ QtLen(TablesUpto(frame, n)) \in Nat /\ QtLen(TablesUpto(frame, n + 1)) \in Nat
           /\ TablesUpto(frame, n + 1) \in JpegTables
<1> DEFINE k == Len(frame.segs)
           f == [i \in 1 .. k |-> TablesIn(frame.segs[i])]
           S == [id : 0 .. 15, wide : BOOLEAN]
<1>1. k \in Nat /\ \A i \in 1 .. k : SegmentFits(frame.segs[i])
  BY SegmentsFit
<1>2. ASSUME NEW i \in 1 .. k PROVE TablesIn(frame.segs[i]) \in JpegTables
  <2>1. SegmentFits(frame.segs[i]) /\ <<>> \in JpegTables
    BY <1>1 DEF JpegTables
  <2>2. QED
    BY <2>1 DEF SegmentFits, TablesIn, JpegTables
<1>3. n + 1 \in 1 .. k /\ \A i \in 1 .. n + 1 : i \in 1 .. k
  BY <1>1
<1>4. ASSUME NEW m \in Nat, m <= k PROVE TablesUpto(frame, m) = Flat(f, m)
  <2>1. \A i \in 1 .. m : i \in 1 .. k
    BY <1>1, <1>4
  <2>2. [i \in 1 .. m |-> TablesIn(frame.segs[i])] = [i \in 1 .. m |-> f[i]]
    BY <2>1
  <2> HIDE DEF f, k
  <2>3. QED
    BY <2>2 DEF TablesUpto, Flat
<1>5. \A i \in 1 .. n + 1 : f[i] \in Seq(S)
  BY <1>2, <1>3 DEF JpegTables
<1>6. f[n + 1] = TablesIn(frame.segs[n + 1])
  BY <1>3
<1>7. TablesUpto(frame, n) = Flat(f, n) /\ TablesUpto(frame, n + 1) = Flat(f, n + 1)
  BY <1>1, <1>3, <1>4
<1> HIDE DEF f, k, S
<1>8. Flat(f, n) \in Seq(S) /\ Flat(f, n + 1) = Flat(f, n) \o f[n + 1]
  BY <1>5, FlatNext
<1>9. TablesUpto(frame, n) \in JpegTables /\ TablesIn(frame.segs[n + 1]) \in JpegTables
  BY <1>2, <1>3, <1>7, <1>8 DEF JpegTables, S
<1>10. TablesUpto(frame, n + 1) = TablesUpto(frame, n) \o TablesIn(frame.segs[n + 1])
  BY <1>6, <1>7, <1>8
<1>11. QED
  BY <1>9, <1>10, QtLenMore, QtLenIs

\* Behind an error nothing changes, and the error stays one.
LEMMA FaultyStays ==
    ASSUME NEW frame, FrameFits(frame), NEW n \in Nat, n < Len(frame.segs), Faulty(frame, n)
    PROVE  Faulty(frame, n + 1)
<1>1. CASE \E i \in 1 .. n : ~frame.segs[i].ok
  BY <1>1 DEF Faulty
<1>2. CASE ~frame.eoi
  BY <1>2 DEF Faulty
<1>3. CASE QtLen(TablesUpto(frame, n)) > MAX_QT_DATA
  <2>1. MAX_QT_DATA \in Nat
    BY SMT DEF MAX_QT_DATA
  <2>2. /\ QtLen(TablesUpto(frame, n)) <= QtLen(TablesUpto(frame, n + 1))
        /\ QtLen(TablesUpto(frame, n)) \in Nat /\ QtLen(TablesUpto(frame, n + 1)) \in Nat
    BY TablesNext
  <2>3. QtLen(TablesUpto(frame, n + 1)) > MAX_QT_DATA
    BY <1>3, <2>1, <2>2
  <2>4. QED
    BY <2>3 DEF Faulty
<1>4. QED
  BY <1>1, <1>2, <1>3 DEF Faulty

LEMMA NoTables == ASSUME NEW q \in JpegTables PROVE q \o <<>> = q
BY ConcatEmptySeq DEF JpegTables

\* One round.
LEMMA ReadNext ==
    ASSUME NEW frame, FrameFits(frame), NEW n \in Nat, n < Len(frame.segs),
           Marked(frame, "SOS", n) = {}, NEW x \in Infos, ReadUpto(frame, n, x)
    PROVE  ReadUpto(frame, n + 1, ReadSegment(frame, x, frame.segs[n + 1]))
<1> DEFINE seg == frame.segs[n + 1]
           y == ReadSegment(frame, x, seg)
<1> SUFFICES ReadUpto(frame, n + 1, y)
  OBVIOUS
<1>1. SegmentFits(seg)
  BY SegmentsFit
<1>2. CASE ~x.is_jpeg
  <2>1. y = x /\ Faulty(frame, n)
    BY <1>2 DEF ReadSegment, ReadUpto
  <2>2. QED
    BY <1>2, <2>1, FaultyStays DEF ReadUpto
<1>3. CASE x.is_jpeg
  <2>1. AllRead(frame, n, x) /\ ~x.found_sos
    BY <1>3 DEF ReadUpto, AllRead, SosRead
  <2>2. y = ParseSegment(frame, x, seg)
    BY <1>3, <2>1 DEF ReadSegment
  <2>3. x.qt_data = TablesUpto(frame, n) /\ x.qt_data \in JpegTables
    BY <2>1, TablesNext DEF AllRead, TablesRead
  <2>4. n + 1 \in 1 .. n + 1 /\ \A i \in 1 .. n + 1 : i \in 1 .. n \/ i = n + 1
    OBVIOUS
  <2>5. CASE ~seg.ok
    <3>1. y = NotJpeg
      BY <2>2, <2>5 DEF ParseSegment
    <3>2. QED
      BY <2>4, <2>5, <3>1, InfoTypes DEF ReadUpto, Faulty
  <2>6. CASE seg.ok
    <3>1. \A i \in 1 .. n + 1 : frame.segs[i].ok
      BY <2>1, <2>4, <2>6 DEF AllRead
    <3>2. seg.marker # "DQT" => TablesUpto(frame, n + 1) = TablesUpto(frame, n)
      <4>1. seg.marker # "DQT" => TablesIn(seg) = <<>>
        BY DEF TablesIn
      <4>2. QED
        BY <2>3, <4>1, TablesNext, NoTables
    <3>3. \A marker : seg.marker # marker => Marked(frame, marker, n + 1) = Marked(frame, marker, n)
      BY LastNext
    <3>4. CASE seg.marker = "DQT"
      <4> DEFINE P == {t.id : t \in {z \in ToSet(seg.tables) : z.wide /\ z.id < 8}}
                 w == x.qt_data \o seg.tables
      <4>1. TablesIn(seg) = seg.tables /\ seg.tables \in JpegTables
        BY <1>1, <2>6, <3>4 DEF TablesIn, SegmentFits, JpegTables
      <4>2. TablesUpto(frame, n + 1) = w /\ QtLen(w) \in Nat
        BY <2>3, <4>1, TablesNext
      <4>3. y = ParseDqt(x, seg.tables)
        BY <2>2, <2>6, <3>4 DEF ParseSegment
      <4>4. MAX_QT_DATA \in Nat
        BY SMT DEF MAX_QT_DATA
      <4>5. CASE QtLen(w) > MAX_QT_DATA
        <5>1. y = NotJpeg
          BY <4>3, <4>5 DEF ParseDqt
        <5>2. QED
          BY <4>2, <4>5, <5>1, InfoTypes DEF ReadUpto, Faulty
      <4>6. CASE QtLen(w) <= MAX_QT_DATA
        <5>1. y = [x EXCEPT !.qt_data = w, !.qt_precision = x.qt_precision \cup P]
          <6>1. ~(QtLen(w) > MAX_QT_DATA)
            BY <4>2, <4>4, <4>6
          <6>2. QED
            BY <4>3, <6>1 DEF ParseDqt
        <5>2. Precise(w) = x.qt_precision \cup P
          BY <2>1, <2>3, <4>1, PreciseMore DEF AllRead, TablesRead
        <5> HIDE DEF P, w
        <5>3. /\ y.qt_data = w /\ y.qt_precision = x.qt_precision \cup P
              /\ y.is_jpeg = x.is_jpeg /\ y.found_sof = x.found_sof /\ y.found_sos = x.found_sos
              /\ y.width_8 = x.width_8 /\ y.height_8 = x.height_8 /\ y.type = x.type
              /\ y.restart_interval = x.restart_interval /\ y.scan_len = x.scan_len
          BY <5>1 DEF Infos
        <5>4. TablesRead(frame, n + 1, y)
          BY <4>2, <4>6, <5>2, <5>3 DEF TablesRead
        <5>5. SofRead(frame, n + 1, y) /\ DriRead(frame, n + 1, y) /\ SosRead(frame, n + 1, y)
          BY <2>1, <3>3, <3>4, <5>3 DEF AllRead, SofRead, DriRead, SosRead
        <5> HIDE DEF y
        <5>6. QED
          BY <1>3, <3>1, <5>3, <5>4, <5>5 DEF ReadUpto, AllRead, seg
      <4>7. QED
        BY <4>2, <4>4, <4>5, <4>6
    <3>5. CASE seg.marker = "SOF0"
      <4>1. y = ParseSof0(x, seg)
        BY <2>2, <2>6, <3>5 DEF ParseSegment
      <4>2. /\ y.width_8 = Eighths(seg.width) /\ y.height_8 = Eighths(seg.height)
            /\ y.type = (IF seg.sampling = "420" THEN 1 ELSE 0) /\ y.found_sof = TRUE
            /\ y.is_jpeg = x.is_jpeg /\ y.found_sos = x.found_sos
            /\ y.qt_data = x.qt_data /\ y.qt_precision = x.qt_precision
            /\ y.restart_interval = x.restart_interval /\ y.scan_len = x.scan_len
        BY <4>1 DEF Infos, ParseSof0
      <4>3. SofRead(frame, n + 1, y)
        <5>1. /\ Marked(frame, "SOF0", n + 1) # {}
              /\ \A i : IsLast(i, Marked(frame, "SOF0", n + 1)) => i = n + 1
          BY <3>5, LastNext
        <5> HIDE DEF y
        <5>2. QED
          BY <4>2, <5>1 DEF SofRead
      <4>4. TablesRead(frame, n + 1, y)
        BY <2>1, <3>2, <3>5, <4>2 DEF AllRead, TablesRead
      <4>5. DriRead(frame, n + 1, y) /\ SosRead(frame, n + 1, y)
        BY <2>1, <3>3, <3>5, <4>2 DEF AllRead, DriRead, SosRead
      <4> HIDE DEF y
      <4>6. QED
        BY <1>3, <3>1, <4>2, <4>3, <4>4, <4>5 DEF ReadUpto, AllRead, seg
    <3>6. CASE seg.marker = "DRI"
      <4>1. y = [x EXCEPT !.restart_interval = seg.interval]
        BY <2>2, <2>6, <3>6 DEF ParseSegment
      <4>2. /\ y.restart_interval = seg.interval
            /\ y.is_jpeg = x.is_jpeg /\ y.found_sof = x.found_sof /\ y.found_sos = x.found_sos
            /\ y.width_8 = x.width_8 /\ y.height_8 = x.height_8 /\ y.type = x.type
            /\ y.qt_data = x.qt_data /\ y.qt_precision = x.qt_precision /\ y.scan_len = x.scan_len
        BY <4>1 DEF Infos
      <4>3. DriRead(frame, n + 1, y)
        <5>1. /\ Marked(frame, "DRI", n + 1) # {}
              /\ \A i : IsLast(i, Marked(frame, "DRI", n + 1)) => i = n + 1
          BY <3>6, LastNext
        <5> HIDE DEF y
        <5>2. QED
          BY <4>2, <5>1 DEF DriRead
      <4>4. TablesRead(frame, n + 1, y)
        BY <2>1, <3>2, <3>6, <4>2 DEF AllRead, TablesRead
      <4>5. SofRead(frame, n + 1, y) /\ SosRead(frame, n + 1, y)
        BY <2>1, <3>3, <3>6, <4>2 DEF AllRead, SofRead, SosRead
      <4> HIDE DEF y
      <4>6. QED
        BY <1>3, <3>1, <4>2, <4>3, <4>4, <4>5 DEF ReadUpto, AllRead, seg
    <3>7. CASE seg.marker = "SOS" /\ ~frame.eoi
      <4>1. y = NotJpeg
        BY <2>2, <2>6, <3>7 DEF ParseSegment
      <4>2. QED
        BY <3>7, <4>1, InfoTypes DEF ReadUpto, Faulty
    <3>8. CASE seg.marker = "SOS" /\ frame.eoi
      <4>1. y = [x EXCEPT !.scan_len = frame.scan, !.found_sos = TRUE]
        BY <2>2, <2>6, <3>8 DEF ParseSegment
      <4>2. /\ y.scan_len = frame.scan /\ y.found_sos = TRUE
            /\ y.is_jpeg = x.is_jpeg /\ y.found_sof = x.found_sof
            /\ y.width_8 = x.width_8 /\ y.height_8 = x.height_8 /\ y.type = x.type
            /\ y.qt_data = x.qt_data /\ y.qt_precision = x.qt_precision
            /\ y.restart_interval = x.restart_interval
        BY <4>1 DEF Infos
      <4>3. SosRead(frame, n + 1, y)
        <5>1. Marked(frame, "SOS", n + 1) # {}
          BY <3>8, LastNext
        <5> HIDE DEF y
        <5>2. QED
          BY <3>8, <4>2, <5>1 DEF SosRead
      <4>4. TablesRead(frame, n + 1, y)
        BY <2>1, <3>2, <3>8, <4>2 DEF AllRead, TablesRead
      <4>5. SofRead(frame, n + 1, y) /\ DriRead(frame, n + 1, y)
        BY <2>1, <3>3, <3>8, <4>2 DEF AllRead, SofRead, DriRead
      <4> HIDE DEF y
      <4>6. QED
        BY <1>3, <3>1, <4>2, <4>3, <4>4, <4>5 DEF ReadUpto, AllRead, seg
    <3>9. CASE seg.marker \in {"other", "alone"}
      <4>1. y = x
        BY <2>2, <2>6, <3>9 DEF ParseSegment
      <4>2. TablesRead(frame, n + 1, x)
        BY <2>1, <3>2, <3>9 DEF AllRead, TablesRead
      <4>3. SofRead(frame, n + 1, x) /\ DriRead(frame, n + 1, x) /\ SosRead(frame, n + 1, x)
        BY <2>1, <3>3, <3>9 DEF AllRead, SofRead, DriRead, SosRead
      <4> HIDE DEF y
      <4>4. QED
        BY <1>3, <3>1, <4>1, <4>2, <4>3 DEF ReadUpto, AllRead, seg
    <3>10. QED
      BY <1>1, <3>4, <3>5, <3>6, <3>7, <3>8, <3>9 DEF SegmentFits
  <2>7. QED
    BY <1>1, <2>5, <2>6 DEF SegmentFits
<1>4. QED
  BY <1>2, <1>3

\* Where the loop ends.
LEMMA ReachIs ==
    ASSUME NEW frame, FrameFits(frame)
    PROVE  /\ Reach(frame) \in 0 .. Len(frame.segs)
           /\ \A n \in Nat : n < Reach(frame) => Marked(frame, "SOS", n) = {}
           /\ Reach(frame) < Len(frame.segs) => Marked(frame, "SOS", Reach(frame)) # {}
<1> DEFINE k == Len(frame.segs)
           R == {i \in DOMAIN frame.segs : frame.segs[i].marker = "SOS"}
           T == R \cup {k}
           r == Reach(frame)
<1>1. k \in Nat /\ DOMAIN frame.segs = 1 .. k
  BY SegmentsFit
<1>2. r = Min(T)
  BY DEF Reach
<1>3. T \in SUBSET Nat /\ T # {} /\ k \in T
  BY <1>1
<1>4. r \in T /\ \A y \in T : r <= y
  <2> HIDE DEF T, r
  <2>1. QED
    BY <1>2, <1>3, LeastOf
<1>5. r \in 0 .. k /\ r <= k
  BY <1>1, <1>4
<1>6. ASSUME NEW n \in Nat, n < r PROVE Marked(frame, "SOS", n) = {}
  <2>1. SUFFICES ASSUME NEW i \in Marked(frame, "SOS", n) PROVE FALSE
    OBVIOUS
  <2>2. i \in 1 .. n /\ frame.segs[i].marker = "SOS"
    BY <2>1 DEF Marked
  <2>3. i \in T /\ i < r
    BY <1>1, <1>5, <1>6, <2>2
  <2> HIDE DEF T, r
  <2>4. QED
    BY <1>1, <1>4, <1>5, <2>2, <2>3
<1>7. ASSUME r < k PROVE Marked(frame, "SOS", r) # {}
  <2>1. r \in R
    BY <1>4, <1>5, <1>7
  <2>2. r \in 1 .. r /\ frame.segs[r].marker = "SOS"
    BY <1>1, <2>1
  <2>3. QED
    BY <2>2 DEF Marked
<1> HIDE DEF r, T
<1>8. QED
  BY <1>5, <1>6, <1>7 DEF r

LEMMA ReadFirst == ASSUME NEW frame PROVE ReadUpto(frame, 0, NoInfo)
<1>1. NoInfo.is_jpeg
  BY InfoTypes
<1>2. \A marker : Marked(frame, marker, 0) = {}
  BY DEF Marked
<1>3. SofRead(frame, 0, NoInfo) /\ DriRead(frame, 0, NoInfo) /\ SosRead(frame, 0, NoInfo)
  BY <1>2 DEF SofRead, DriRead, SosRead, IsLast, NoInfo
<1>4. TablesRead(frame, 0, NoInfo)
  <2>1. NoInfo.qt_data = <<>> /\ NoInfo.qt_precision = {}
    BY DEF NoInfo
  <2>2. TablesUpto(frame, 0) = <<>>
    <3> DEFINE f == [i \in 1 .. 0 |-> TablesIn(frame.segs[i])]
    <3>1. f = [i \in 1 .. 0 |-> f[i]]
      OBVIOUS
    <3> HIDE DEF f
    <3>2. FlattenSeq(f) = <<>>
      BY <3>1, FlatNone DEF Flat
    <3>3. QED
      BY <3>2 DEF f, TablesUpto
  <2>3. <<>> \in JpegTables /\ DOMAIN <<>> = {} /\ Len(<<>>) = 0
    BY DEF JpegTables
  <2>4. WideOnes(<<>>) = {} /\ Precise(<<>>) = {}
    BY <2>3 DEF WideOnes, Precise
  <2>5. QtLen(<<>>) <= MAX_QT_DATA
    <3>1. Cardinality(WideOnes(<<>>)) = 0
      BY <2>4, FS_EmptySet
    <3>2. QED
      BY <2>3, <3>1, SMT DEF QtLen, MAX_QT_DATA
  <2>6. QED
    BY <2>1, <2>2, <2>4, <2>5 DEF TablesRead
<1>5. QED
  BY <1>1, <1>3, <1>4 DEF ReadUpto, AllRead

LEMMA RoundsRead ==
    ASSUME NEW frame, FrameFits(frame), NEW infos, Rounds(frame, infos)
    PROVE  /\ infos[Len(frame.segs)] = infos[Reach(frame)]
           /\ infos[Reach(frame)] \in Infos
           /\ ReadUpto(frame, Reach(frame), infos[Reach(frame)])
<1> DEFINE k == Len(frame.segs)
           r == Reach(frame)
           T == {n \in Nat : n <= r => ReadUpto(frame, n, infos[n])}
           U == {n \in Nat : r + n <= k => infos[r + n] = infos[r]}
<1>1. k \in Nat /\ r \in Nat /\ r <= k
  BY SegmentsFit, ReachIs
<1>2. /\ \A n \in 0 .. k : infos[n] \in Infos
      /\ infos[0] = NoInfo
      /\ \A n \in 1 .. k : infos[n] = ReadSegment(frame, infos[n - 1], frame.segs[n])
  BY DEF Rounds
<1> HIDE DEF k, r
<1>3. 0 \in T
  BY <1>2, ReadFirst
<1>4. ASSUME NEW n \in T PROVE n + 1 \in T
  <2> SUFFICES ASSUME n + 1 <= r PROVE ReadUpto(frame, n + 1, infos[n + 1])
    OBVIOUS
  <2>1. n \in Nat /\ n < r /\ n < k /\ ReadUpto(frame, n, infos[n])
    BY <1>1
  <2>2. infos[n] \in Infos
    BY <1>1, <1>2, <2>1
  <2> DEFINE m == n + 1
  <2>3. m \in 1 .. k /\ m - 1 = n
    BY <1>1, <2>1
  <2> HIDE DEF m, T
  <2>4. infos[m] = ReadSegment(frame, infos[n], frame.segs[m])
    BY <1>2, <2>3
  <2>5. Marked(frame, "SOS", n) = {}
    BY <2>1, ReachIs DEF r
  <2>6. ReadUpto(frame, n + 1, ReadSegment(frame, infos[n], frame.segs[n + 1]))
    BY <2>1, <2>2, <2>5, ReadNext DEF k
  <2>7. QED
    BY <2>4, <2>6 DEF m
<1>5. T = Nat
  <2> HIDE DEF T
  <2>1. T \in SUBSET Nat
    BY DEF T
  <2>2. QED
    BY <1>3, <1>4, <2>1, Induction
<1>6. ReadUpto(frame, r, infos[r]) /\ infos[r] \in Infos
  BY <1>1, <1>2, <1>5
<1>7. 0 \in U
  <2>1. r + 0 = r
    BY <1>1
  <2>2. QED
    BY <2>1
<1>8. ASSUME NEW n \in U PROVE n + 1 \in U
  <2> SUFFICES ASSUME r + (n + 1) <= k PROVE infos[r + (n + 1)] = infos[r]
    OBVIOUS
  <2>1. n \in Nat /\ infos[r + n] = infos[r] /\ r < k
    BY <1>1
  <2> DEFINE m == r + (n + 1)
  <2>2. m \in 1 .. k /\ m - 1 = r + n
    BY <1>1, <2>1
  <2> HIDE DEF m, U, T
  <2>3. infos[m] = ReadSegment(frame, infos[r], frame.segs[m])
    BY <1>2, <2>1, <2>2
  <2>4. ~infos[r].is_jpeg \/ infos[r].found_sos
    BY <1>6, <2>1, ReachIs DEF ReadUpto, AllRead, SosRead, r, k
  <2>5. infos[m] = infos[r]
    BY <2>3, <2>4 DEF ReadSegment
  <2>6. QED
    BY <2>5 DEF m
<1>9. U = Nat
  <2> HIDE DEF U
  <2>1. U \in SUBSET Nat
    BY DEF U
  <2>2. QED
    BY <1>7, <1>8, <2>1, Induction
<1>10. infos[k] = infos[r]
  <2> DEFINE d == k - r
  <2>1. d \in Nat /\ r + d = k
    BY <1>1
  <2>2. d \in U
    <3> HIDE DEF U, d
    <3>1. QED
      BY <1>9, <2>1
  <2> HIDE DEF d
  <2>3. infos[r + d] = infos[r]
    BY <1>1, <2>1, <2>2
  <2>4. QED
    BY <2>1, <2>3
<1>11. QED
  BY <1>6, <1>10 DEF r, k

\* The info of a frame that is taken for JPEG.
Bits(n) == IF n > 0 THEN 64 ELSE 0
Known(frame, p) ==
    /\ frame.eoi /\ frame.soi /\ p.scan_len = frame.scan
    /\ p.qt_data = Tables(frame) /\ p.qt_data \in JpegTables /\ QtLen(p.qt_data) <= MAX_QT_DATA
    /\ p.qt_precision = Precise(Tables(frame))
    /\ p.restart_interval = Interval(frame) /\ Interval(frame) \in Nat
    /\ p.width_8 = Eighths(Latest(frame, "SOF0").width)
    /\ p.height_8 = Eighths(Latest(frame, "SOF0").height)
    /\ Latest(frame, "SOF0").width \in Nat /\ Latest(frame, "SOF0").height \in Nat
    /\ p.type = (IF Latest(frame, "SOF0").sampling = "420" THEN 1 ELSE 0) + Bits(Interval(frame))

LEMMA LatestIs ==
    ASSUME NEW frame, FrameFits(frame), NEW marker, Named(frame, marker) # {}
    PROVE  \E i \in 1 .. Reach(frame) :
               /\ IsLast(i, Marked(frame, marker, Reach(frame)))
               /\ Latest(frame, marker) = frame.segs[i]
               /\ frame.segs[i].marker = marker /\ SegmentFits(frame.segs[i])
<1> DEFINE r == Reach(frame)
           T == Marked(frame, marker, r)
           i == Max(T)
<1>1. r \in Nat /\ r <= Len(frame.segs) /\ Len(frame.segs) \in Nat
  BY ReachIs, SegmentsFit
<1>2. T \in SUBSET (1 .. r) /\ T # {}
  BY DEF Marked, Named
<1> HIDE DEF r
<1>3. i \in T /\ \A y \in T : y <= i
  <2> HIDE DEF T
  <2>1. QED
    BY <1>1, <1>2, GreatestOf
<1>4. Latest(frame, marker) = frame.segs[i]
  BY DEF Latest, Named, r
<1> HIDE DEF i
<1>5. i \in 1 .. r /\ frame.segs[i].marker = marker
  BY <1>3 DEF Marked
<1>6. i \in 1 .. Len(frame.segs)
  BY <1>1, <1>5
<1>7. QED
  BY <1>3, <1>4, <1>5, <1>6, SegmentsFit DEF IsLast, r

LEMMA ParseKnows ==
    ASSUME NEW frame, FrameFits(frame), ParseJpegFrame(frame).is_jpeg
    PROVE  Known(frame, ParseJpegFrame(frame))
<1> DEFINE r == Reach(frame)
           p == ParseJpegFrame(frame)
<1>1. PICK infos : Rounds(frame, infos) /\ p = Accept(frame, infos[Len(frame.segs)])
  BY ParseRounds
<1> DEFINE x == infos[r]
<1>2. infos[Len(frame.segs)] = x /\ x \in Infos /\ ReadUpto(frame, r, x)
  BY <1>1, RoundsRead
<1>3. p = Accept(frame, x)
  BY <1>1, <1>2
<1> HIDE DEF p, x
<1>4. p.is_jpeg /\ ~NotJpeg.is_jpeg
  BY InfoTypes DEF p
<1>5. frame.soi /\ x.is_jpeg /\ x.found_sof /\ x.found_sos /\ x.qt_data # <<>>
  BY <1>3, <1>4 DEF Accept
<1>6. p = IF x.restart_interval > 0 THEN [x EXCEPT !.type = @ + 64] ELSE x
  BY <1>3, <1>5 DEF Accept
<1>7. AllRead(frame, r, x)
  BY <1>2, <1>5 DEF ReadUpto
<1>8. /\ p.width_8 = x.width_8 /\ p.height_8 = x.height_8 /\ p.scan_len = x.scan_len
      /\ p.qt_data = x.qt_data /\ p.qt_precision = x.qt_precision
      /\ p.restart_interval = x.restart_interval
      /\ p.type = x.type + Bits(x.restart_interval)
  <2>1. x.restart_interval \in Nat /\ x.type \in Nat
    BY <1>2 DEF Infos
  <2>2. CASE x.restart_interval > 0
    <3>1. p = [x EXCEPT !.type = x.type + 64]
      BY <1>6, <2>2
    <3>2. QED
      BY <1>2, <2>2, <3>1 DEF Infos, Bits
  <2>3. CASE ~(x.restart_interval > 0)
    <3>1. p = x /\ Bits(x.restart_interval) = 0
      BY <1>6, <2>3 DEF Bits
    <3>2. QED
      BY <2>1, <3>1
  <2>4. QED
    BY <2>2, <2>3
<1>9. frame.eoi /\ p.scan_len = frame.scan
  BY <1>5, <1>7, <1>8 DEF AllRead, SosRead
<1>10. /\ p.qt_data = Tables(frame) /\ p.qt_data \in JpegTables /\ QtLen(p.qt_data) <= MAX_QT_DATA
       /\ p.qt_precision = Precise(Tables(frame))
  BY <1>2, <1>7, <1>8 DEF AllRead, TablesRead, Tables, r, Infos
<1>11. p.restart_interval = Interval(frame) /\ Interval(frame) \in Nat
  <2>1. p.restart_interval \in Nat
    BY <1>2, <1>8 DEF Infos
  <2>2. CASE Named(frame, "DRI") = {}
    BY <1>7, <1>8, <2>2 DEF AllRead, DriRead, Interval, Named, r
  <2>3. CASE Named(frame, "DRI") # {}
    <3>1. PICK i : IsLast(i, Marked(frame, "DRI", r)) /\ Latest(frame, "DRI") = frame.segs[i]
      BY <2>3, LatestIs DEF r
    <3>2. p.restart_interval = Latest(frame, "DRI").interval
      BY <1>7, <1>8, <3>1 DEF AllRead, DriRead
    <3>3. QED
      BY <2>1, <2>3, <3>2 DEF Interval
  <2>4. QED
    BY <2>2, <2>3
<1>12. PICK i \in 1 .. r : /\ IsLast(i, Marked(frame, "SOF0", r)) /\ Latest(frame, "SOF0") = frame.segs[i]
                           /\ frame.segs[i].marker = "SOF0" /\ SegmentFits(frame.segs[i])
  <2>1. Named(frame, "SOF0") # {}
    BY <1>5, <1>7 DEF AllRead, SofRead, Named, r
  <2>2. QED
    BY <2>1, LatestIs DEF r
<1>13. /\ p.width_8 = Eighths(frame.segs[i].width) /\ p.height_8 = Eighths(frame.segs[i].height)
       /\ p.type = (IF frame.segs[i].sampling = "420" THEN 1 ELSE 0) + Bits(Interval(frame))
  BY <1>7, <1>8, <1>11, <1>12 DEF AllRead, SofRead
<1>14. frame.segs[i].width \in Nat /\ frame.segs[i].height \in Nat
  BY <1>7, <1>12 DEF AllRead, SegmentFits
<1>15. QED
  BY <1>5, <1>9, <1>10, <1>11, <1>12, <1>13, <1>14 DEF Known, p

LEMMA ParseRefuses ==
    ASSUME NEW frame, FrameFits(frame), ~ParseJpegFrame(frame).is_jpeg
    PROVE  ~IsJpeg(frame) \/ QtLen(Tables(frame)) > MAX_QT_DATA
<1> DEFINE r == Reach(frame)
           p == ParseJpegFrame(frame)
<1>1. PICK infos : Rounds(frame, infos) /\ p = Accept(frame, infos[Len(frame.segs)])
  BY ParseRounds
<1> DEFINE x == infos[r]
<1>2. infos[Len(frame.segs)] = x /\ x \in Infos /\ ReadUpto(frame, r, x)
  BY <1>1, RoundsRead
<1>3. p = Accept(frame, x)
  BY <1>1, <1>2
<1> HIDE DEF p, x
<1>4. ~p.is_jpeg
  BY DEF p
<1>5. CASE ~x.is_jpeg
  <2>1. Faulty(frame, r)
    BY <1>2, <1>5 DEF ReadUpto
  <2>2. QED
    BY <2>1 DEF Faulty, IsJpeg, Tables, r
<1>6. CASE x.is_jpeg
  <2>1. AllRead(frame, r, x)
    BY <1>2, <1>6 DEF ReadUpto
  <2>2. \/ ~frame.soi \/ ~x.found_sof \/ ~x.found_sos \/ x.qt_data = <<>>
    <3>1. SUFFICES ASSUME frame.soi, x.found_sof, x.found_sos, x.qt_data # <<>> PROVE FALSE
      OBVIOUS
    <3>2. p = IF x.restart_interval > 0 THEN [x EXCEPT !.type = @ + 64] ELSE x
      BY <1>3, <1>6, <3>1 DEF Accept
    <3>3. [x EXCEPT !.type = x.type + 64].is_jpeg = x.is_jpeg
      BY <1>2 DEF Infos
    <3>4. QED
      BY <1>4, <1>6, <3>2, <3>3
  <2>3. ~x.found_sof => Named(frame, "SOF0") = {}
    BY <2>1 DEF AllRead, SofRead, Named, r
  <2>4. ~x.found_sos => Named(frame, "SOS") = {}
    BY <2>1 DEF AllRead, SosRead, Named, r
  <2>5. x.qt_data = Tables(frame)
    BY <2>1 DEF AllRead, TablesRead, Tables, r
  <2>6. QED
    BY <2>2, <2>3, <2>4, <2>5 DEF IsJpeg
<1>7. QED
  BY <1>5, <1>6

\* A frame that send_frame sends.
LEMMA Sends ==
    ASSUME NEW frame, FrameFits(frame), ~Refuses(frame), NEW p, p = ParseJpegFrame(frame)
    PROVE  /\ Known(frame, p) /\ frame.scan \in 1 .. MaxScan
           /\ BaseHdr(p) \in Nat /\ FirstHdr(p) \in Nat
           /\ BaseHdr(p) <= FirstHdr(p) /\ FirstHdr(p) < MaxFrag
<1>1. p.is_jpeg /\ p.scan_len # 0 /\ ~(p.scan_len > MaxScan) /\ ~(FirstHdr(p) >= MaxFrag)
  BY DEF Refuses
<1>2. Known(frame, p)
  BY <1>1, ParseKnows
<1>3. p.scan_len = frame.scan /\ frame.scan \in Nat /\ MaxScan \in Nat /\ MaxFrag \in Nat
  BY <1>2, JpegAssumption DEF Known, FrameFits
<1>4. frame.scan \in 1 .. MaxScan
  BY <1>1, <1>3
<1>5. QtLen(p.qt_data) \in Nat
  BY <1>2, QtLenIs DEF Known
<1>6. BaseHdr(p) \in Nat /\ FirstHdr(p) \in Nat /\ BaseHdr(p) <= FirstHdr(p)
  BY <1>5 DEF BaseHdr, FirstHdr, JPEG_RTP_HDR_SIZE, QT_HDR_SIZE, RST_HDR_SIZE
<1>7. QED
  BY <1>1, <1>2, <1>3, <1>4, <1>6

\* One that it refuses.
Unfit(frame) ==
    \/ ~IsJpeg(frame)
    \/ frame.scan \notin 1 .. MaxScan
    \/ QtLen(Tables(frame)) > MAX_QT_DATA
    \/ JPEG_RTP_HDR_SIZE + QT_HDR_SIZE + QtLen(Tables(frame))
         + (IF Interval(frame) > 0 THEN RST_HDR_SIZE ELSE 0) >= MaxFrag

LEMMA RefusesUnfit ==
    ASSUME NEW frame, FrameFits(frame), Refuses(frame)
    PROVE  Unfit(frame)
<1> DEFINE p == ParseJpegFrame(frame)
<1>1. CASE ~p.is_jpeg
  BY <1>1, ParseRefuses DEF Unfit
<1>2. CASE p.is_jpeg
  <2>1. Known(frame, p)
    BY <1>2, ParseKnows
  <2>2. p.scan_len = 0 \/ p.scan_len > MaxScan \/ FirstHdr(p) >= MaxFrag
    BY <1>2 DEF Refuses
  <2> HIDE DEF p
  <2>3. p.scan_len = frame.scan /\ frame.scan \in Nat /\ MaxScan \in Nat /\ MaxFrag \in Nat
    BY <2>1, JpegAssumption DEF Known, FrameFits
  <2>4. CASE p.scan_len = 0 \/ p.scan_len > MaxScan
    <3>1. frame.scan \notin 1 .. MaxScan
      BY <2>3, <2>4
    <3>2. QED
      BY <3>1 DEF Unfit
  <2>5. CASE FirstHdr(p) >= MaxFrag
    <3>1. QtLen(Tables(frame)) \in Nat /\ p.qt_data = Tables(frame) /\ p.restart_interval = Interval(frame)
      BY <2>1, QtLenIs DEF Known
    <3> DEFINE q == QtLen(Tables(frame))
               i == IF Interval(frame) > 0 THEN RST_HDR_SIZE ELSE 0
    <3>2. FirstHdr(p) = (JPEG_RTP_HDR_SIZE + i) + QT_HDR_SIZE + q
      BY <3>1 DEF FirstHdr, BaseHdr
    <3>3. i \in Nat /\ JPEG_RTP_HDR_SIZE \in Nat /\ QT_HDR_SIZE \in Nat
      BY DEF JPEG_RTP_HDR_SIZE, QT_HDR_SIZE, RST_HDR_SIZE
    <3> HIDE DEF i, q
    <3>4. JPEG_RTP_HDR_SIZE + QT_HDR_SIZE + q + i >= MaxFrag
      BY <2>3, <2>5, <3>1, <3>2, <3>3 DEF q
    <3>5. QED
      BY <3>4 DEF Unfit, q, i
  <2>6. QED
    BY <2>2, <2>4, <2>5
<1>3. QED
  BY <1>1, <1>2
-----------------------------------------------------------------------------
(* JpegTransport: the packets.                                             *)

JpegPackets == {JpegPacket(n, ParseJpegFrame(frame), o) : n \in Nat, frame \in JpegFrames, o \in Nat}

\* p is the packet of frame number n at some offset.
IsFragment(p, n, frame) ==
    \E o \in Nat : o < frame.scan /\ p = JpegPacket(n, ParseJpegFrame(frame), o)

LEMMA FragmentFacts ==
    ASSUME NEW frame, FrameFits(frame), ~Refuses(frame), NEW n, NEW o \in Nat, o < frame.scan,
           NEW p, p = JpegPacket(n, ParseJpegFrame(frame), o)
    PROVE  /\ p.ts = n /\ p.offset = o /\ p.type = ParseJpegFrame(frame).type
           /\ p.octets[1] = o /\ p.octets[2] = o + Chunk(ParseJpegFrame(frame), o)
           /\ p.octets[2] \in Nat /\ o < p.octets[2] /\ p.octets[2] <= frame.scan
           /\ p.marker \in BOOLEAN /\ (p.marker <=> p.octets[2] = frame.scan)
           /\ p.size <= MaxFrag
<1> DEFINE i == ParseJpegFrame(frame)
           first == FirstHdr(i)
           base == BaseHdr(i)
           c == Chunk(i, o)
           hdr == IF o = 0 THEN first ELSE base
<1>1. /\ Known(frame, i) /\ frame.scan \in 1 .. MaxScan
      /\ base \in Nat /\ first \in Nat /\ base <= first /\ first < MaxFrag
  BY Sends
<1>2. i.scan_len = frame.scan /\ frame.scan \in Nat /\ MaxScan \in Nat /\ MaxFrag \in Nat
  BY <1>1, JpegAssumption DEF Known
<1> HIDE DEF i
<1>3. hdr \in Nat /\ hdr < MaxFrag
  BY <1>1, <1>2
<1>4. c = IF frame.scan - o < MaxFrag - hdr THEN frame.scan - o ELSE MaxFrag - hdr
  BY <1>2 DEF Chunk
<1> HIDE DEF hdr, c
<1>5. c \in Nat /\ c > 0 /\ o + c <= frame.scan /\ hdr + c <= MaxFrag
  BY <1>2, <1>3, <1>4
<1>6. /\ p.ts = n /\ p.offset = o % (MaxScan + 1) /\ p.type = i.type
      /\ p.octets = <<o, o + c>> /\ p.size = hdr + c /\ p.marker = (o + c >= i.scan_len)
  BY DEF JpegPacket, i, hdr, c
<1>7. o % (MaxScan + 1) = o
  <2>1. o < MaxScan + 1 /\ MaxScan + 1 \in Nat \ {0}
    BY <1>1, <1>2
  <2>2. QED
    BY <2>1, SmallRemainder
<1>8. p.octets[1] = o /\ p.octets[2] = o + c
  BY <1>6
<1>9. p.marker <=> o + c = frame.scan
  <2>1. p.marker = (o + c >= frame.scan)
    BY <1>2, <1>6
  <2>2. (o + c >= frame.scan) <=> o + c = frame.scan
    BY <1>2, <1>5
  <2>3. QED
    BY <2>1, <2>2
<1>10. p.marker \in BOOLEAN
  BY <1>6
<1>11. QED
  BY <1>2, <1>5, <1>6, <1>7, <1>8, <1>9, <1>10 DEF i, c

\* got is the beginning of frame number n, without a gap.
Chain(got, n, frame) ==
    /\ got \in Seq(JpegPackets) /\ Len(got) > 0 /\ ~Refuses(frame) /\ FrameFits(frame)
    /\ \A i \in 1 .. Len(got) : IsFragment(got[i], n, frame)
    /\ got[1].offset = 0
    /\ \A i \in 1 .. Len(got) - 1 : got[i].octets[2] = got[i + 1].octets[1] /\ ~got[i].marker

LEMMA ChainFirst ==
    ASSUME NEW frame, FrameFits(frame), ~Refuses(frame), NEW n, NEW p \in JpegPackets,
           IsFragment(p, n, frame), p.offset = 0
    PROVE  Chain(<<p>>, n, frame) /\ Last(<<p>>) = p
<1>1. <<p>> \in Seq(JpegPackets) /\ Len(<<p>>) = 1 /\ <<p>>[1] = p
  OBVIOUS
<1> DEFINE q == <<p>>
<1> HIDE DEF q
<1>2. q \in Seq(JpegPackets) /\ Len(q) = 1 /\ q[1] = p
  BY <1>1 DEF q
<1>3. Chain(q, n, frame)
  BY <1>2 DEF Chain
<1>4. Last(q) = p
  BY <1>2 DEF Last
<1>5. QED
  BY <1>3, <1>4 DEF q

LEMMA ChainNext ==
    ASSUME NEW frame, NEW n, NEW got, Chain(got, n, frame), NEW p \in JpegPackets,
           IsFragment(p, n, frame), ~Last(got).marker, Last(got).octets[2] = p.offset
    PROVE  Chain(Append(got, p), n, frame) /\ Last(Append(got, p)) = p
<1> DEFINE q == Append(got, p)
           k == Len(got)
<1>1. /\ got \in Seq(JpegPackets) /\ k \in Nat /\ k > 0
      /\ FrameFits(frame) /\ ~Refuses(frame) /\ Last(got) = got[k]
  BY DEF Chain, Last
<1>2. q \in Seq(JpegPackets) /\ Longer(q, got, p)
  BY <1>1, AppendLonger
<1>3. Len(q) = k + 1 /\ q[k + 1] = p /\ \A i \in 1 .. k : q[i] = got[i]
  BY <1>2 DEF Longer
<1> HIDE DEF q
<1>4. p.octets[1] = p.offset
  <2>1. PICK o \in Nat : o < frame.scan /\ p = JpegPacket(n, ParseJpegFrame(frame), o)
    BY DEF IsFragment
  <2>2. QED
    BY <1>1, <2>1, FragmentFacts
<1>5. \A i \in 1 .. Len(q) : IsFragment(q[i], n, frame)
  <2>1. \A i \in 1 .. k + 1 : i \in 1 .. k \/ i = k + 1
    BY <1>1
  <2>2. QED
    BY <1>3, <2>1 DEF Chain
<1>6. ASSUME NEW i \in 1 .. Len(q) - 1
      PROVE  q[i].octets[2] = q[i + 1].octets[1] /\ ~q[i].marker
  <2>1. i \in 1 .. k
    BY <1>1, <1>3
  <2>2. CASE i = k
    <3>1. q[i] = got[k] /\ q[i + 1] = p
      BY <1>3, <2>1, <2>2
    <3>2. QED
      BY <1>1, <1>4, <3>1
  <2>3. CASE i # k
    <3>1. i \in 1 .. k - 1 /\ i + 1 \in 1 .. k
      BY <1>1, <2>1, <2>3
    <3>2. q[i] = got[i] /\ q[i + 1] = got[i + 1]
      BY <1>3, <2>1, <3>1
    <3>3. QED
      BY <3>1, <3>2 DEF Chain
  <2>4. QED
    BY <2>2, <2>3
<1>7. q[1].offset = 0 /\ Len(q) > 0
  BY <1>1, <1>3 DEF Chain
<1>8. Last(q) = p
  BY <1>3 DEF Last
<1>9. Chain(q, n, frame)
  BY <1>1, <1>2, <1>5, <1>6, <1>7 DEF Chain
<1>10. QED
  BY <1>8, <1>9 DEF q

\* What the receiver knows of the packets it collects.
LEMMA ChainFacts ==
    ASSUME NEW frame, NEW n, NEW got, Chain(got, n, frame)
    PROVE  /\ got # <<>> /\ Last(got) = got[Len(got)] /\ Len(got) \in Nat \ {0}
           /\ \A i \in 1 .. Len(got) : /\ got[i].ts = n /\ got[i].size <= MaxFrag
                                       /\ got[i].type = ParseJpegFrame(frame).type
           /\ got[1].octets[1] = 0 /\ got[1] = JpegPacket(n, ParseJpegFrame(frame), 0)
           /\ Last(got).ts = n
           /\ Last(got).marker => Last(got).octets[2] = frame.scan
<1>1. /\ got \in Seq(JpegPackets) /\ Len(got) \in Nat \ {0} /\ FrameFits(frame) /\ ~Refuses(frame)
      /\ Last(got) = got[Len(got)]
  BY DEF Chain, Last
<1>2. ASSUME NEW i \in 1 .. Len(got)
      PROVE  \E o \in Nat : /\ got[i].ts = n /\ got[i].size <= MaxFrag
                            /\ got[i].type = ParseJpegFrame(frame).type
                            /\ got[i] = JpegPacket(n, ParseJpegFrame(frame), o)
                            /\ got[i].offset = o /\ got[i].octets[1] = o
                            /\ got[i].marker => got[i].octets[2] = frame.scan
  <2>1. PICK o \in Nat : o < frame.scan /\ got[i] = JpegPacket(n, ParseJpegFrame(frame), o)
    BY DEF Chain, IsFragment
  <2>2. QED
    BY <1>1, <2>1, FragmentFacts
<1>3. 1 \in 1 .. Len(got) /\ Len(got) \in 1 .. Len(got) /\ got # <<>>
  BY <1>1
<1>4. got[1].octets[1] = 0 /\ got[1] = JpegPacket(n, ParseJpegFrame(frame), 0)
  BY <1>2, <1>3 DEF Chain
<1>5. Last(got).ts = n /\ (Last(got).marker => Last(got).octets[2] = frame.scan)
  BY <1>1, <1>2, <1>3
<1>6. QED
  BY <1>1, <1>2, <1>3, <1>4, <1>5

\* What the headers say is what the segments said.
LEMMA EighthsBack ==
    ASSUME NEW w \in Nat, w > 2040 \/ w % 8 = 0
    PROVE  8 * Eighths(w) = IF w > 2040 THEN 0 ELSE w
<1>1. CASE w > 2040
  BY <1>1, SMT DEF Eighths
<1>2. CASE ~(w > 2040)
  <2>1. w % 8 = 0 /\ Eighths(w) = w \div 8
    BY <1>2, SMT DEF Eighths
  <2>2. 8 * (w \div 8) = w
    BY <2>1, SMT
  <2>3. QED
    BY <1>2, <2>1, <2>2, SMT
<1>3. QED
  BY <1>1, <1>2

LEMMA TypeBack ==
    ASSUME NEW t \in {0, 1}, NEW n \in Nat
    PROVE  /\ ((t + Bits(n)) % 64 = 1) <=> t = 1
           /\ (t + Bits(n) >= 64) <=> n > 0
BY SMT DEF Bits

LEMMA PreciseBack ==
    ASSUME NEW q \in JpegTables, QtLen(q) <= MAX_QT_DATA, \A i \in DOMAIN q : q[i].id = i - 1
    PROVE  [i \in DOMAIN q |-> i - 1 \in Precise(q)] = [i \in DOMAIN q |-> q[i].wide]
<1>1. Len(q) \in Nat /\ DOMAIN q = 1 .. Len(q) /\ \A i \in 1 .. Len(q) : q[i] \in [id : 0 .. 15, wide : BOOLEAN]
  BY SeqFacts DEF JpegTables
<1>2. Len(q) <= 8
  <2>1. QtLen(q) \in Nat /\ 64 * Len(q) <= QtLen(q)
    BY QtLenIs
  <2>2. QED
    BY <1>1, <2>1, SMT DEF MAX_QT_DATA
<1>3. ASSUME NEW i \in DOMAIN q PROVE (i - 1 \in Precise(q)) = q[i].wide
  <2>1. q[i].wide \in BOOLEAN /\ q[i].id = i - 1 /\ i \in 1 .. Len(q)
    BY <1>1
  <2>2. i - 1 < 8
    BY <1>1, <1>2, <2>1
  <2>3. CASE q[i].wide
    BY <2>1, <2>2, <2>3 DEF Precise
  <2>4. CASE ~q[i].wide
    <3>1. SUFFICES ASSUME i - 1 \in Precise(q) PROVE FALSE
      BY <2>1, <2>4
    <3>2. PICK j \in DOMAIN q : q[j].wide /\ i - 1 = q[j].id
      BY <3>1 DEF Precise
    <3>3. j - 1 = i - 1 /\ j \in Nat /\ i \in Nat
      BY <1>1, <2>1, <3>2
    <3>4. j = i
      BY <3>3
    <3>5. QED
      BY <2>4, <3>2, <3>4
  <2>5. QED
    BY <2>1, <2>3, <2>4
<1>4. QED
  BY <1>3

LEMMA PictureIs ==
    ASSUME NEW frame, NEW n, NEW got, Chain(got, n, frame), Last(got).marker, Carried(frame)
    PROVE  Picture(got) = Described(frame)
<1> DEFINE p == ParseJpegFrame(frame)
           sof == Latest(frame, "SOF0")
           g == got[1]
<1>1. g = JpegPacket(n, p, 0) /\ Last(got).octets[2] = frame.scan
  BY ChainFacts
<1>2. Known(frame, p)
  <2>1. FrameFits(frame) /\ ~Refuses(frame)
    BY DEF Chain
  <2>2. QED
    BY <2>1, Sends
<1> HIDE DEF p
<1>3. /\ g.type = p.type /\ g.width_8 = p.width_8 /\ g.height_8 = p.height_8
      /\ g.restart = p.restart_interval /\ g.tables = p.qt_data /\ g.precision = p.qt_precision
  BY <1>1 DEF JpegPacket
<1> HIDE DEF g
<1> DEFINE t == IF sof.sampling = "420" THEN 1 ELSE 0
<1>4. t \in {0, 1} /\ g.type = t + Bits(Interval(frame)) /\ Interval(frame) \in Nat
  BY <1>2, <1>3 DEF Known
<1>5. (g.type % 64 = 1 <=> t = 1) /\ (g.type >= 64 <=> Interval(frame) > 0)
  <2> HIDE DEF t
  <2>1. QED
    BY <1>4, TypeBack
<1>6. (IF g.type % 64 = 1 THEN "420" ELSE "422") = sof.sampling
  <2>1. sof.sampling \in {"420", "422"} /\ (t = 1 <=> sof.sampling = "420")
    BY DEF Carried
  <2> HIDE DEF t
  <2>2. QED
    BY <1>5, <2>1
<1>7. (IF g.type >= 64 THEN g.restart ELSE 0) = Interval(frame)
  BY <1>2, <1>3, <1>4, <1>5 DEF Known
<1>8. /\ 8 * g.width_8 = (IF sof.width > 2040 THEN 0 ELSE sof.width)
      /\ 8 * g.height_8 = (IF sof.height > 2040 THEN 0 ELSE sof.height)
  <2>1. /\ sof.width > 2040 \/ sof.width % 8 = 0
        /\ sof.height > 2040 \/ sof.height % 8 = 0
    <3>1. \A pixels \in {sof.width, sof.height} : pixels > 2040 \/ pixels % 8 = 0
      BY Zenon DEF Carried
    <3> HIDE DEF sof
    <3>2. sof.width \in {sof.width, sof.height} /\ sof.height \in {sof.width, sof.height}
      OBVIOUS
    <3>3. QED
      BY <3>1, <3>2, SMT
  <2>2. /\ sof.width \in Nat /\ sof.height \in Nat
        /\ g.width_8 = Eighths(sof.width) /\ g.height_8 = Eighths(sof.height)
    BY <1>2, <1>3 DEF Known
  <2> HIDE DEF sof
  <2>3. /\ 8 * Eighths(sof.width) = IF sof.width > 2040 THEN 0 ELSE sof.width
        /\ 8 * Eighths(sof.height) = IF sof.height > 2040 THEN 0 ELSE sof.height
    BY <2>1, <2>2, EighthsBack, SMT
  <2>4. QED
    BY <2>2, <2>3, SMT
<1>9. [i \in DOMAIN g.tables |-> i - 1 \in g.precision] = [i \in DOMAIN Tables(frame) |-> Tables(frame)[i].wide]
  <2>1. /\ g.tables = Tables(frame) /\ g.precision = Precise(Tables(frame))
        /\ Tables(frame) \in JpegTables /\ QtLen(Tables(frame)) <= MAX_QT_DATA
    BY <1>2, <1>3 DEF Known
  <2>2. \A i \in DOMAIN Tables(frame) : Tables(frame)[i].id = i - 1
    BY Zenon DEF Carried
  <2>3. QED
    BY <2>1, <2>2, PreciseBack
<1> DEFINE Rec(a, b, c, d, e, f) ==
               [sampling |-> a, interval |-> b, width |-> c, height |-> d, tables |-> e, scan |-> f]
           tables == [i \in DOMAIN g.tables |-> i - 1 \in g.precision]
           wide == [i \in DOMAIN Tables(frame) |-> Tables(frame)[i].wide]
<1>10. Picture(got) = Rec(IF g.type % 64 = 1 THEN "420" ELSE "422",
                          IF g.type >= 64 THEN g.restart ELSE 0, 8 * g.width_8, 8 * g.height_8,
                          tables, Last(got).octets[2])
  BY DEF Picture, g
<1>11. Described(frame) = Rec(sof.sampling, Interval(frame),
                              IF sof.width > 2040 THEN 0 ELSE sof.width,
                              IF sof.height > 2040 THEN 0 ELSE sof.height, wide, frame.scan)
  BY DEF Described
<1>12. tables = wide
  BY <1>9
<1> HIDE DEF sof, tables, wide, Rec
<1>13. QED
  BY <1>1, <1>6, <1>7, <1>8, <1>10, <1>11, <1>12, SMT
-----------------------------------------------------------------------------
(* JpegTransport: the sender, the network and the receiver.                *)

JpegTypes ==
    /\ jpegs \in Seq(JpegFrames) /\ j_offset \in Nat /\ j_results \in Seq({-1, 0})
    /\ Len(j_results) <= Len(jpegs) /\ Len(jpegs) <= Len(j_results) + 1
    /\ j_partial \in Seq(JpegPackets) /\ j_rebuilt \in Seq(Seq(JpegPackets))

\* The frame that is being sent.
JpegSending == JpegBusy => ~Refuses(jpegs[Len(jpegs)]) /\ j_offset < jpegs[Len(jpegs)].scan

\* What the receiver collects is the beginning of some frame, and of the frame
\* in hand unless a packet of it is missing.
Begins(got, fs) == \E n \in 1 .. Len(fs) : Chain(got, n, fs[n]) /\ ~Last(got).marker
JpegPartialInv == j_partial # <<>> => Begins(j_partial, jpegs)
JpegFollowInv ==
    JpegBusy /\ j_offset > 0 /\ Len(jpegs) \notin j_lost =>
        /\ j_partial # <<>> /\ Last(j_partial).ts = Len(jpegs)
        /\ Last(j_partial).octets[2] = j_offset

\* What it has passed on are frames that were sent successfully.
IsFrame(got, fs, outcomes) ==
    \E n \in 1 .. Len(outcomes) : /\ n \in 1 .. Len(fs) /\ outcomes[n] = 0
                                 /\ Chain(got, n, fs[n]) /\ Last(got).marker
JpegWholeInv == \A g \in 1 .. Len(j_rebuilt) : IsFrame(j_rebuilt[g], jpegs, j_results)
JpegResultInv ==
    \A n \in 1 .. Len(j_results) :
        /\ j_results[n] = 0 /\ n \notin j_lost => \E g \in 1 .. Len(j_rebuilt) : j_rebuilt[g][1].ts = n
        /\ j_results[n] = -1 /\ n \notin j_errors => Refuses(jpegs[n])

JpegInv == JpegTypes /\ JpegSending /\ JpegPartialInv /\ JpegFollowInv /\ JpegWholeInv /\ JpegResultInv

LEMMA JpegInvInit == JpegInit => JpegInv
<1> SUFFICES ASSUME JpegInit PROVE JpegInv
  OBVIOUS
<1>1. /\ jpegs = <<>> /\ j_offset = 0 /\ j_results = <<>> /\ j_partial = <<>> /\ j_rebuilt = <<>>
  BY DEF JpegInit
<1>2. Len(<<>>) = 0
  OBVIOUS
<1>3. JpegTypes
  BY <1>1, <1>2 DEF JpegTypes
<1>4. ~JpegBusy
  BY <1>1, <1>2 DEF JpegBusy
<1>5. QED
  BY <1>1, <1>2, <1>3, <1>4
  DEF JpegInv, JpegSending, JpegPartialInv, JpegFollowInv, JpegWholeInv, JpegResultInv

\* What was said of earlier frames stays true.
LEMMA BeginsStill ==
    ASSUME NEW got, NEW a, NEW b, NEW e, Longer(b, a, e), Begins(got, a)
    PROVE  Begins(got, b)
BY LongerHas DEF Begins

LEMMA IsFrameStill ==
    ASSUME NEW got, NEW a, NEW b, NEW e, Longer(b, a, e) \/ b = a,
           NEW q, NEW r, NEW x, Longer(r, q, x) \/ r = q, IsFrame(got, a, q)
    PROVE  IsFrame(got, b, r)
<1>1. PICK n \in 1 .. Len(q) : /\ n \in 1 .. Len(a) /\ q[n] = 0
                               /\ Chain(got, n, a[n]) /\ Last(got).marker
  BY DEF IsFrame
<1>2. n \in 1 .. Len(b) /\ b[n] = a[n]
  BY <1>1, LongerHas
<1>3. n \in 1 .. Len(r) /\ r[n] = q[n]
  BY <1>1, LongerHas
<1>4. QED
  BY <1>1, <1>2, <1>3 DEF IsFrame

\* The head of send_frame.
LEMMA JpegInvSendFrame ==
    ASSUME JpegInv, NEW frame \in JpegFrames, SendFrame(frame)
    PROVE  JpegInv'
<1> DEFINE n == Len(jpegs)
<1>1. /\ jpegs \in Seq(JpegFrames) /\ n \in Nat /\ j_results \in Seq({-1, 0}) /\ Len(j_results) = n
      /\ j_partial \in Seq(JpegPackets) /\ j_rebuilt \in Seq(Seq(JpegPackets))
  <2>1. /\ jpegs \in Seq(JpegFrames) /\ j_results \in Seq({-1, 0})
        /\ Len(j_results) <= n /\ ~(Len(j_results) < n)
        /\ j_partial \in Seq(JpegPackets) /\ j_rebuilt \in Seq(Seq(JpegPackets))
    BY DEF JpegInv, JpegTypes, SendFrame, JpegBusy
  <2>2. n \in Nat /\ Len(j_results) \in Nat
    BY <2>1
  <2>3. QED
    BY <2>1, <2>2
<1>2. /\ jpegs' = Append(jpegs, frame) /\ j_offset' = 0
      /\ j_results' = IF Refuses(frame) THEN Append(j_results, -1) ELSE j_results
      /\ j_errors' = j_errors /\ j_lost' = j_lost /\ j_partial' = j_partial /\ j_rebuilt' = j_rebuilt
  BY DEF SendFrame, jpegRecvVars
<1>3. jpegs' \in Seq(JpegFrames) /\ Longer(jpegs', jpegs, frame)
  BY <1>1, <1>2, AppendLonger
<1>4. Len(jpegs') = n + 1 /\ jpegs'[n + 1] = frame /\ \A i \in 1 .. n : jpegs'[i] = jpegs[i]
  BY <1>3 DEF Longer
<1>5. FrameFits(frame)
  BY JpegAssumption
<1>6. j_results' \in Seq({-1, 0}) /\ (IF Refuses(frame) THEN Longer(j_results', j_results, -1)
                                      ELSE j_results' = j_results)
  <2>1. -1 \in {-1, 0}
    OBVIOUS
  <2>2. Append(j_results, -1) \in Seq({-1, 0}) /\ Longer(Append(j_results, -1), j_results, -1)
    BY <1>1, <2>1, AppendLonger
  <2>3. QED
    BY <1>1, <1>2, <2>2
<1>7. IF Refuses(frame) THEN Len(j_results') = n + 1 /\ j_results'[n + 1] = -1 ELSE Len(j_results') = n
  BY <1>1, <1>6 DEF Longer
<1>8. JpegTypes'
  BY <1>1, <1>2, <1>3, <1>4, <1>6, <1>7 DEF JpegTypes
<1>9. JpegBusy' => ~Refuses(frame)
  BY <1>1, <1>4, <1>7 DEF JpegBusy
<1>10. JpegSending'
  <2>1. SUFFICES ASSUME JpegBusy' PROVE ~Refuses(frame) /\ 0 < frame.scan
    BY <1>2, <1>4 DEF JpegSending
  <2>2. ~Refuses(frame)
    BY <1>9, <2>1
  <2>3. frame.scan \in 1 .. MaxScan
    BY <1>5, <2>2, Sends
  <2>4. QED
    BY <2>2, <2>3
<1>11. JpegPartialInv'
  <2>1. j_partial # <<>> => Begins(j_partial, jpegs)
    BY DEF JpegInv, JpegPartialInv
  <2>2. QED
    BY <1>2, <1>3, <2>1, BeginsStill DEF JpegPartialInv
<1>12. JpegFollowInv'
  BY <1>2 DEF JpegFollowInv
<1>13. JpegWholeInv'
  <2>1. SUFFICES ASSUME NEW g \in 1 .. Len(j_rebuilt) PROVE IsFrame(j_rebuilt[g], jpegs', j_results')
    BY <1>2 DEF JpegWholeInv
  <2>2. IsFrame(j_rebuilt[g], jpegs, j_results)
    BY DEF JpegInv, JpegWholeInv
  <2>3. QED
    BY <1>3, <1>6, <2>2, IsFrameStill
<1>14. JpegResultInv'
  <2>1. SUFFICES ASSUME NEW i \in 1 .. Len(j_results')
                 PROVE  /\ j_results'[i] = 0 /\ i \notin j_lost =>
                               \E g \in 1 .. Len(j_rebuilt) : j_rebuilt[g][1].ts = i
                        /\ j_results'[i] = -1 /\ i \notin j_errors => Refuses(jpegs'[i])
    BY <1>2 DEF JpegResultInv
  <2>2. CASE i \in 1 .. n
    <3>1. j_results'[i] = j_results[i] /\ i \in 1 .. Len(j_results) /\ jpegs'[i] = jpegs[i]
      BY <1>1, <1>4, <1>6, <2>2 DEF Longer
    <3>2. QED
      BY <3>1 DEF JpegInv, JpegResultInv
  <2>3. CASE i \notin 1 .. n
    <3>1. i = n + 1 /\ Refuses(frame)
      BY <1>1, <1>7, <2>3
    <3>2. j_results'[i] = -1 /\ jpegs'[i] = frame
      BY <1>4, <1>7, <3>1
    <3>3. QED
      BY <3>1, <3>2
  <2>4. QED
    BY <2>2, <2>3
<1>15. QED
  BY <1>8, <1>10, <1>11, <1>12, <1>13, <1>14 DEF JpegInv

\* What the loop of send_frame has in hand.
JpegInHand(n, frame, p) ==
    /\ n \in Nat \ {0} /\ Len(jpegs) = n /\ Len(j_results) = n - 1 /\ frame = jpegs[n]
    /\ frame \in JpegFrames /\ FrameFits(frame) /\ ~Refuses(frame)
    /\ j_offset < frame.scan /\ p = JpegPacket(n, ParseJpegFrame(frame), j_offset)
    /\ p \in JpegPackets /\ IsFragment(p, n, frame)
    /\ p.ts = n /\ p.offset = j_offset /\ p.octets[2] \in Nat /\ p.octets[2] <= frame.scan
    /\ p.octets[2] = j_offset + Chunk(ParseJpegFrame(frame), j_offset)
    /\ p.octets[2] > 0 /\ p.marker \in BOOLEAN /\ (p.marker <=> p.octets[2] = frame.scan)
    /\ frame.scan \in Nat /\ ParseJpegFrame(frame).scan_len = frame.scan

LEMMA JpegInHandFacts ==
    ASSUME JpegInv, JpegBusy
    PROVE  /\ Last(jpegs) = jpegs[Len(jpegs)]
           /\ JpegInHand(Len(jpegs), Last(jpegs),
                     JpegPacket(Len(jpegs), ParseJpegFrame(Last(jpegs)), j_offset))
<1> DEFINE n == Len(jpegs)
           frame == jpegs[n]
           p == JpegPacket(n, ParseJpegFrame(frame), j_offset)
<1>1. /\ jpegs \in Seq(JpegFrames) /\ j_offset \in Nat /\ Len(j_results) \in Nat /\ n \in Nat
      /\ Len(j_results) <= n /\ n <= Len(j_results) + 1 /\ Len(j_results) < n
  BY DEF JpegInv, JpegTypes, JpegBusy
<1>2. n \in Nat \ {0} /\ Len(j_results) = n - 1
  BY <1>1
<1>3. frame \in JpegFrames /\ Last(jpegs) = frame
  BY <1>1, <1>2 DEF Last
<1>4. FrameFits(frame)
  BY <1>3, JpegAssumption
<1>5. ~Refuses(frame) /\ j_offset < frame.scan
  BY DEF JpegInv, JpegSending
<1> HIDE DEF frame
<1>6. p \in JpegPackets
  BY <1>1, <1>3 DEF JpegPackets
<1>7. IsFragment(p, n, frame)
  BY <1>1, <1>5 DEF IsFragment
<1>8. /\ p.ts = n /\ p.offset = j_offset /\ p.octets[2] \in Nat /\ p.octets[2] <= frame.scan
      /\ p.octets[2] = j_offset + Chunk(ParseJpegFrame(frame), j_offset)
      /\ j_offset < p.octets[2] /\ p.marker \in BOOLEAN /\ (p.marker <=> p.octets[2] = frame.scan)
  BY <1>1, <1>4, <1>5, FragmentFacts
<1>9. p.octets[2] > 0
  BY <1>1, <1>8
<1>10. frame.scan \in Nat /\ ParseJpegFrame(frame).scan_len = frame.scan
  BY <1>4, <1>5, Sends DEF Known, FrameFits
<1>11. JpegInHand(n, frame, p)
  BY <1>2, <1>3, <1>4, <1>5, <1>6, <1>7, <1>8, <1>9, <1>10, Zenon DEF JpegInHand, frame
<1>12. QED
  BY <1>3, <1>11 DEF frame

\* A packet fails.
LEMMA JpegInvError ==
    ASSUME JpegInv, JpegBusy, UNCHANGED <<jpegs, j_offset, j_lost, jpegRecvVars>>,
           j_results' = Append(j_results, JpegResult), j_errors' = j_errors \cup {Len(jpegs)}
    PROVE  JpegInv'
<1> DEFINE n == Len(jpegs)
<1>1. n \in Nat \ {0} /\ Len(j_results) = n - 1
  BY JpegInHandFacts DEF JpegInHand
<1>2. /\ jpegs' = jpegs /\ j_offset' = j_offset /\ j_lost' = j_lost
      /\ j_partial' = j_partial /\ j_rebuilt' = j_rebuilt
  BY DEF jpegRecvVars
<1>3. j_results' \in Seq({-1, 0}) /\ Longer(j_results', j_results, -1)
  <2>1. JpegResult = -1 /\ -1 \in {-1, 0} /\ j_results \in Seq({-1, 0})
    BY DEF JpegResult, JpegInv, JpegTypes
  <2>2. QED
    BY <2>1, AppendLonger
<1>4. Len(j_results') = n /\ j_results'[n] = -1
  BY <1>1, <1>3 DEF Longer
<1>5. JpegTypes'
  BY <1>1, <1>2, <1>3, <1>4 DEF JpegInv, JpegTypes
<1>6. JpegSending' /\ JpegFollowInv'
  <2>1. ~JpegBusy'
    BY <1>1, <1>2, <1>4 DEF JpegBusy
  <2>2. QED
    BY <2>1 DEF JpegSending, JpegFollowInv
<1>7. JpegPartialInv'
  BY <1>2 DEF JpegInv, JpegPartialInv
<1>8. JpegWholeInv'
  <2>1. SUFFICES ASSUME NEW g \in 1 .. Len(j_rebuilt) PROVE IsFrame(j_rebuilt[g], jpegs, j_results')
    BY <1>2 DEF JpegWholeInv
  <2>2. IsFrame(j_rebuilt[g], jpegs, j_results)
    BY DEF JpegInv, JpegWholeInv
  <2>3. QED
    BY <1>3, <2>2, IsFrameStill
<1>9. JpegResultInv'
  <2>1. SUFFICES ASSUME NEW i \in 1 .. Len(j_results')
                 PROVE  /\ j_results'[i] = 0 /\ i \notin j_lost =>
                               \E g \in 1 .. Len(j_rebuilt) : j_rebuilt[g][1].ts = i
                        /\ j_results'[i] = -1 /\ i \notin j_errors' => Refuses(jpegs[i])
    BY <1>2 DEF JpegResultInv
  <2>2. CASE i \in 1 .. n - 1
    <3>1. j_results'[i] = j_results[i] /\ i \in 1 .. Len(j_results)
      BY <1>1, <1>3, <2>2 DEF Longer
    <3>2. QED
      BY <3>1 DEF JpegInv, JpegResultInv
  <2>3. CASE i \notin 1 .. n - 1
    <3>1. i = n
      BY <1>1, <1>4, <2>3
    <3>2. QED
      BY <1>4, <3>1
  <2>4. QED
    BY <2>2, <2>3
<1>10. QED
  BY <1>5, <1>6, <1>7, <1>8, <1>9 DEF JpegInv

\* A packet is sent: what the sender does next, and the parts of the invariant
\* that are his.
Advances(n, frame, p) ==
    /\ j_offset' = p.octets[2] /\ jpegs' = jpegs /\ j_errors' = j_errors
    /\ j_results' = IF p.marker THEN Append(j_results, 0) ELSE j_results

LEMMA JpegAdvance ==
    ASSUME JpegInv, NEW n, NEW frame, NEW p, JpegInHand(n, frame, p), Advances(n, frame, p)
    PROVE  /\ j_results' \in Seq({-1, 0})
           /\ Len(j_results') <= Len(jpegs') /\ Len(jpegs') <= Len(j_results') + 1
           /\ Longer(j_results', j_results, 0) \/ j_results' = j_results
           /\ \A i \in 1 .. Len(j_results') : \/ i \in 1 .. Len(j_results) /\ j_results'[i] = j_results[i]
                                              \/ i = n /\ j_results'[i] = 0 /\ p.marker
           /\ p.marker => n \in 1 .. Len(j_results') /\ j_results'[n] = 0
           /\ JpegBusy' <=> ~p.marker
           /\ JpegSending'
<1>1. /\ n \in Nat \ {0} /\ Len(jpegs) = n /\ Len(j_results) = n - 1 /\ p.octets[2] \in Nat
      /\ p.octets[2] <= frame.scan /\ (p.marker <=> p.octets[2] = frame.scan) /\ frame.scan \in Nat
      /\ frame = jpegs[n] /\ ~Refuses(frame) /\ p.marker \in BOOLEAN
  BY DEF JpegInHand
<1>2. j_results \in Seq({-1, 0})
  BY DEF JpegInv, JpegTypes
<1>3. Append(j_results, 0) \in Seq({-1, 0}) /\ Longer(Append(j_results, 0), j_results, 0)
  <2>1. 0 \in {-1, 0}
    OBVIOUS
  <2>2. QED
    BY <1>2, <2>1, AppendLonger
<1>4. jpegs' = jpegs /\ j_offset' = p.octets[2]
  BY DEF Advances
<1>5. CASE p.marker
  <2>1. j_results' \in Seq({-1, 0}) /\ Longer(j_results', j_results, 0)
    BY <1>3, <1>5 DEF Advances
  <2>2. Len(j_results') = n /\ j_results'[n] = 0 /\ \A i \in 1 .. n - 1 : j_results'[i] = j_results[i]
    BY <1>1, <2>1 DEF Longer
  <2>3. ~JpegBusy'
    BY <1>1, <1>4, <2>2 DEF JpegBusy
  <2>4. \A i \in 1 .. n : i \in 1 .. n - 1 \/ i = n
    BY <1>1
  <2>5. n \in 1 .. n /\ n <= n + 1
    BY <1>1
  <2>6. QED
    BY <1>1, <1>4, <1>5, <2>1, <2>2, <2>3, <2>4, <2>5 DEF JpegSending
<1>6. CASE ~p.marker
  <2>1. j_results' = j_results
    BY <1>6 DEF Advances
  <2>2. JpegBusy'
    BY <1>1, <1>4, <2>1 DEF JpegBusy
  <2>3. p.octets[2] < frame.scan
    BY <1>1, <1>6
  <2>4. JpegSending'
    BY <1>1, <1>4, <2>3 DEF JpegSending
  <2>5. QED
    BY <1>1, <1>2, <1>4, <1>6, <2>1, <2>2, <2>4
<1>7. QED
  BY <1>1, <1>5, <1>6

LEMMA JpegInvLost ==
    ASSUME JpegInv, NEW n, NEW frame, NEW p, JpegInHand(n, frame, p), Advances(n, frame, p),
           j_lost' = j_lost \cup {n}, UNCHANGED jpegRecvVars
    PROVE  JpegInv'
<1>1. j_partial' = j_partial /\ j_rebuilt' = j_rebuilt /\ jpegs' = jpegs /\ j_errors' = j_errors
  BY DEF jpegRecvVars, Advances
<1>2. n = Len(jpegs) /\ n \in Nat /\ Len(j_results) = n - 1 /\ p.octets[2] \in Nat
  BY DEF JpegInHand
<1>3. JpegTypes'
  BY <1>1, <1>2, JpegAdvance DEF JpegInv, JpegTypes, Advances
<1>4. JpegPartialInv'
  BY <1>1 DEF JpegInv, JpegPartialInv
<1>5. JpegFollowInv'
  BY <1>1, <1>2 DEF JpegFollowInv
<1>6. JpegWholeInv'
  <2>1. SUFFICES ASSUME NEW g \in 1 .. Len(j_rebuilt) PROVE IsFrame(j_rebuilt[g], jpegs, j_results')
    BY <1>1 DEF JpegWholeInv
  <2>2. IsFrame(j_rebuilt[g], jpegs, j_results)
    BY DEF JpegInv, JpegWholeInv
  <2>3. Longer(j_results', j_results, 0) \/ j_results' = j_results
    BY JpegAdvance
  <2>4. QED
    BY <2>2, <2>3, IsFrameStill
<1>7. JpegResultInv'
  <2>1. SUFFICES ASSUME NEW i \in 1 .. Len(j_results')
                 PROVE  /\ j_results'[i] = 0 /\ i \notin j_lost' =>
                               \E g \in 1 .. Len(j_rebuilt) : j_rebuilt[g][1].ts = i
                        /\ j_results'[i] = -1 /\ i \notin j_errors => Refuses(jpegs[i])
    BY <1>1 DEF JpegResultInv
  <2>2. CASE i \in 1 .. Len(j_results) /\ j_results'[i] = j_results[i]
    BY <2>2 DEF JpegInv, JpegResultInv
  <2>3. CASE i = n /\ j_results'[i] = 0
    BY <2>3
  <2>4. QED
    BY <2>2, <2>3, JpegAdvance
<1>8. QED
  BY <1>3, <1>4, <1>5, <1>6, <1>7, JpegAdvance DEF JpegInv

\* What the receiver has when the packet has come.
Gathered(p) ==
    IF p.offset = 0 THEN <<p>>
    ELSE IF /\ j_partial # <<>>
            /\ Last(j_partial).ts = p.ts
            /\ Last(j_partial).octets[2] = p.offset
    THEN Append(j_partial, p) ELSE <<>>

LEMMA GatheredIs ==
    ASSUME JpegInv, JpegBusy, NEW n, NEW frame, NEW p, JpegInHand(n, frame, p)
    PROVE  /\ Gathered(p) = <<>> \/ (Chain(Gathered(p), n, frame) /\ Last(Gathered(p)) = p)
           /\ n \notin j_lost => Gathered(p) # <<>>
           /\ Gathered(p) \in Seq(JpegPackets)
<1> DEFINE got == Gathered(p)
<1>1. /\ n = Len(jpegs) /\ n \in Nat \ {0} /\ p.ts = n /\ p.offset = j_offset /\ frame = jpegs[n]
      /\ p \in JpegPackets /\ IsFragment(p, n, frame) /\ FrameFits(frame) /\ ~Refuses(frame)
  BY DEF JpegInHand
<1>2. CASE p.offset = 0
  <2>1. got = <<p>>
    BY <1>2 DEF Gathered
  <2>2. Chain(<<p>>, n, frame) /\ Last(<<p>>) = p
    BY <1>1, <1>2, ChainFirst
  <2>3. QED
    BY <2>1, <2>2, ChainFacts DEF Chain
<1>3. CASE p.offset # 0 /\ j_partial # <<>> /\ Last(j_partial).ts = p.ts /\ Last(j_partial).octets[2] = p.offset
  <2>1. got = Append(j_partial, p)
    BY <1>3 DEF Gathered
  <2>2. PICK m \in 1 .. Len(jpegs) : Chain(j_partial, m, jpegs[m]) /\ ~Last(j_partial).marker
    BY <1>3 DEF JpegInv, JpegPartialInv, Begins
  <2>3. m = n
    BY <1>1, <1>3, <2>2, ChainFacts
  <2>4. Chain(Append(j_partial, p), n, frame) /\ Last(Append(j_partial, p)) = p
    BY <1>1, <1>3, <2>2, <2>3, ChainNext
  <2>5. QED
    BY <2>1, <2>4, ChainFacts DEF Chain
<1>4. CASE p.offset # 0 /\ ~(j_partial # <<>> /\ Last(j_partial).ts = p.ts /\ Last(j_partial).octets[2] = p.offset)
  <2>1. got = <<>>
    BY <1>4 DEF Gathered
  <2>2. n \in j_lost
    <3>1. j_offset \in Nat /\ j_offset > 0
      BY <1>1, <1>4 DEF JpegInv, JpegTypes
    <3>2. QED
      BY <1>1, <1>4, <3>1 DEF JpegInv, JpegFollowInv
  <2>3. QED
    BY <2>1, <2>2
<1>5. QED
  BY <1>2, <1>3, <1>4

LEMMA JpegInvReceive ==
    ASSUME JpegInv, JpegBusy, NEW n, NEW frame, NEW p, JpegInHand(n, frame, p), Advances(n, frame, p),
           j_lost' = j_lost, JpegReceive(p)
    PROVE  JpegInv'
<1> DEFINE got == Gathered(p)
<1>1. jpegs' = jpegs /\ j_errors' = j_errors /\ j_offset' = p.octets[2]
  BY DEF Advances
<1>2. /\ n = Len(jpegs) /\ n \in Nat \ {0} /\ Len(j_results) = n - 1 /\ p.octets[2] \in Nat
      /\ p.ts = n /\ frame = jpegs[n] /\ p.marker \in BOOLEAN
  BY DEF JpegInHand
<1>3. /\ got = <<>> \/ (Chain(got, n, frame) /\ Last(got) = p)
      /\ n \notin j_lost => got # <<>>
      /\ got \in Seq(JpegPackets)
  BY GatheredIs
<1>4. IF p.marker /\ got # <<>>
      THEN j_rebuilt' = Append(j_rebuilt, got) /\ j_partial' = <<>>
      ELSE j_partial' = got /\ j_rebuilt' = j_rebuilt
  BY DEF JpegReceive, Gathered
<1> HIDE DEF got
<1>5. /\ j_rebuilt \in Seq(Seq(JpegPackets)) /\ j_partial \in Seq(JpegPackets)
      /\ Append(j_rebuilt, got) \in Seq(Seq(JpegPackets)) /\ Longer(Append(j_rebuilt, got), j_rebuilt, got)
  <2>1. j_rebuilt \in Seq(Seq(JpegPackets)) /\ j_partial \in Seq(JpegPackets)
    BY DEF JpegInv, JpegTypes
  <2>2. QED
    BY <1>3, <2>1, AppendLonger
<1>6. \/ j_rebuilt' = j_rebuilt
      \/ p.marker /\ got # <<>> /\ Longer(j_rebuilt', j_rebuilt, got)
  BY <1>4, <1>5
<1>7. JpegTypes'
  <2>1. j_partial' \in Seq(JpegPackets) /\ j_rebuilt' \in Seq(Seq(JpegPackets))
    <3>1. <<>> \in Seq(JpegPackets)
      OBVIOUS
    <3>2. CASE p.marker /\ got # <<>>
      BY <1>4, <1>5, <3>1, <3>2
    <3>3. CASE ~(p.marker /\ got # <<>>)
      BY <1>3, <1>4, <1>5, <3>3
    <3>4. QED
      BY <3>2, <3>3
  <2>2. QED
    BY <1>1, <1>2, <2>1, JpegAdvance DEF JpegInv, JpegTypes
<1>8. JpegPartialInv'
  <2>1. SUFFICES ASSUME j_partial' # <<>> PROVE Begins(j_partial', jpegs)
    BY <1>1 DEF JpegPartialInv
  <2>2. j_partial' = got /\ got # <<>> /\ ~p.marker
    BY <1>2, <1>4, <2>1
  <2>3. n \in 1 .. Len(jpegs)
    BY <1>2
  <2>4. QED
    BY <1>2, <1>3, <2>2, <2>3 DEF Begins
<1>9. JpegFollowInv'
  <2>1. SUFFICES ASSUME ~p.marker, n \notin j_lost
                 PROVE  j_partial' # <<>> /\ Last(j_partial').ts = n /\ Last(j_partial').octets[2] = p.octets[2]
    BY <1>1, <1>2, JpegAdvance DEF JpegFollowInv
  <2>2. j_partial' = got
    BY <1>4, <2>1
  <2>3. QED
    BY <1>2, <1>3, <2>1, <2>2
<1>10. ASSUME p.marker, got # <<>> PROVE IsFrame(got, jpegs, j_results')
  <2>1. n \in 1 .. Len(jpegs)
    BY <1>2
  <2>2. n \in 1 .. Len(j_results') /\ j_results'[n] = 0
    BY <1>10, JpegAdvance
  <2>3. QED
    BY <1>2, <1>3, <1>10, <2>1, <2>2 DEF IsFrame
<1>11. JpegWholeInv'
  <2>1. SUFFICES ASSUME NEW g \in 1 .. Len(j_rebuilt') PROVE IsFrame(j_rebuilt'[g], jpegs, j_results')
    BY <1>1 DEF JpegWholeInv
  <2>2. CASE g \in 1 .. Len(j_rebuilt) /\ j_rebuilt'[g] = j_rebuilt[g]
    <3>1. IsFrame(j_rebuilt[g], jpegs, j_results)
      BY <2>2 DEF JpegInv, JpegWholeInv
    <3>2. Longer(j_results', j_results, 0) \/ j_results' = j_results
      BY JpegAdvance
    <3>3. QED
      BY <2>2, <3>1, <3>2, IsFrameStill
  <2>3. CASE p.marker /\ got # <<>> /\ j_rebuilt'[g] = got
    BY <1>10, <2>3
  <2>4. QED
    BY <1>6, <2>2, <2>3, LongerPlaces
<1>12. ASSUME NEW i, \E g \in 1 .. Len(j_rebuilt) : j_rebuilt[g][1].ts = i
       PROVE  \E g \in 1 .. Len(j_rebuilt') : j_rebuilt'[g][1].ts = i
  BY <1>6, <1>12, LongerHas
<1>13. ASSUME p.marker, n \notin j_lost
       PROVE  \E g \in 1 .. Len(j_rebuilt') : j_rebuilt'[g][1].ts = n
  <2>1. got # <<>> /\ Chain(got, n, frame)
    BY <1>3, <1>13
  <2>2. Longer(j_rebuilt', j_rebuilt, got)
    BY <1>4, <1>5, <1>13, <2>1
  <2>3. got[1].ts = n
    BY <2>1, ChainFacts
  <2>4. QED
    BY <2>2, <2>3, LongerHas
<1>14. JpegResultInv'
  <2>1. SUFFICES ASSUME NEW i \in 1 .. Len(j_results')
                 PROVE  /\ j_results'[i] = 0 /\ i \notin j_lost =>
                               \E g \in 1 .. Len(j_rebuilt') : j_rebuilt'[g][1].ts = i
                        /\ j_results'[i] = -1 /\ i \notin j_errors => Refuses(jpegs[i])
    BY <1>1 DEF JpegResultInv
  <2>2. CASE i \in 1 .. Len(j_results) /\ j_results'[i] = j_results[i]
    BY <1>12, <2>2 DEF JpegInv, JpegResultInv
  <2>3. CASE i = n /\ j_results'[i] = 0 /\ p.marker
    BY <1>13, <2>3
  <2>4. QED
    BY <2>2, <2>3, JpegAdvance
<1>15. QED
  BY <1>7, <1>8, <1>9, <1>11, <1>14, JpegAdvance DEF JpegInv

LEMMA JpegInvSendFragment ==
    ASSUME JpegInv, SendFragment
    PROVE  JpegInv'
<1> DEFINE n == Len(jpegs)
           frame == Last(jpegs)
           info == ParseJpegFrame(frame)
           p == JpegPacket(n, info, j_offset)
<1>1. JpegBusy /\ jpegs' = jpegs
  BY DEF SendFragment
<1>2. JpegInHand(n, frame, p)
  BY <1>1, JpegInHandFacts
<1>3. CASE /\ j_results' = Append(j_results, JpegResult) /\ j_errors' = j_errors \cup {n}
           /\ UNCHANGED <<j_offset, j_lost, jpegRecvVars>>
  BY <1>1, <1>3, JpegInvError
<1>4. CASE /\ j_offset' = j_offset + Chunk(info, j_offset)
           /\ j_results' = (IF j_offset' < info.scan_len THEN j_results ELSE Append(j_results, 0))
           /\ (JpegReceive(p) /\ UNCHANGED j_lost) \/ (j_lost' = j_lost \cup {n} /\ UNCHANGED jpegRecvVars)
           /\ UNCHANGED j_errors
  <2>1. /\ j_offset' = p.octets[2] /\ info.scan_len = frame.scan /\ frame.scan \in Nat
        /\ p.octets[2] \in Nat /\ p.octets[2] <= frame.scan /\ (p.marker <=> p.octets[2] = frame.scan)
    BY <1>2, <1>4 DEF JpegInHand
  <2> HIDE DEF p, info, frame
  <2>2. j_offset' < info.scan_len <=> ~p.marker
    BY <2>1
  <2>3. Advances(n, frame, p)
    BY <1>1, <1>4, <2>1, <2>2 DEF Advances
  <2>4. CASE JpegReceive(p) /\ UNCHANGED j_lost
    BY <1>1, <1>2, <2>3, <2>4, JpegInvReceive
  <2>5. CASE j_lost' = j_lost \cup {n} /\ UNCHANGED jpegRecvVars
    BY <1>2, <2>3, <2>5, JpegInvLost
  <2>6. QED
    BY <1>4, <2>4, <2>5
<1>5. QED
  BY <1>3, <1>4 DEF SendFragment

LEMMA JpegInvNext == JpegInv /\ [JpegNext]_jpegVars => JpegInv'
<1> SUFFICES ASSUME JpegInv, [JpegNext]_jpegVars PROVE JpegInv'
  OBVIOUS
<1>1. CASE \E frame \in JpegFrames : SendFrame(frame)
  BY <1>1, JpegInvSendFrame
<1>2. CASE SendFragment
  BY <1>2, JpegInvSendFragment
<1>3. CASE UNCHANGED jpegVars
  BY <1>3 DEF jpegVars, jpegRecvVars, JpegInv, JpegTypes, JpegSending, JpegBusy, JpegPartialInv,
              JpegFollowInv, JpegWholeInv, JpegResultInv
<1>4. QED
  BY <1>1, <1>2, <1>3 DEF JpegNext

LEMMA JpegAlways == JpegSpec => []JpegInv
<1>1. QED
  BY JpegInvInit, JpegInvNext, PTL DEF JpegSpec

LEMMA JpegInvRebuilt == JpegInv => JpegRebuilt
<1> SUFFICES ASSUME JpegInv, NEW g \in DOMAIN j_rebuilt
             PROVE  LET got == j_rebuilt[g]
                        frame == jpegs[got[1].ts]
                    IN  /\ got[1].octets[1] = 0
                        /\ \A i \in 1 .. Len(got) - 1 :
                               /\ got[i].octets[2] = got[i + 1].octets[1]
                               /\ ~got[i].marker
                               /\ got[i + 1].type = got[1].type
                        /\ \A i \in DOMAIN got : got[i].size <= MaxFrag
                        /\ Last(got).octets[2] = frame.scan
                        /\ Carried(frame) => Picture(got) = Described(frame)
  BY DEF JpegRebuilt
<1> DEFINE got == j_rebuilt[g]
<1>1. g \in 1 .. Len(j_rebuilt)
  BY DEF JpegInv, JpegTypes
<1>2. PICK n \in 1 .. Len(j_results) : /\ n \in 1 .. Len(jpegs) /\ j_results[n] = 0
                                       /\ Chain(got, n, jpegs[n]) /\ Last(got).marker
  BY <1>1 DEF JpegInv, JpegWholeInv, IsFrame
<1> HIDE DEF got
<1>3. /\ got \in Seq(JpegPackets) /\ Len(got) \in Nat \ {0} /\ DOMAIN got = 1 .. Len(got)
  BY <1>2, ChainFacts DEF Chain
<1>4. \A i \in 1 .. Len(got) - 1 : i + 1 \in 1 .. Len(got) /\ 1 \in 1 .. Len(got)
  BY <1>3
<1>5. /\ \A i \in 1 .. Len(got) : got[i].ts = n /\ got[i].size <= MaxFrag
                                  /\ got[i].type = ParseJpegFrame(jpegs[n]).type
      /\ got[1].octets[1] = 0 /\ Last(got).octets[2] = jpegs[n].scan
  BY <1>2, ChainFacts
<1>6. got[1].ts = n
  BY <1>3, <1>5
<1>7. \A i \in 1 .. Len(got) - 1 : got[i].octets[2] = got[i + 1].octets[1] /\ ~got[i].marker
  BY <1>2 DEF Chain
<1>8. Carried(jpegs[n]) => Picture(got) = Described(jpegs[n])
  BY <1>2, PictureIs
<1>9. QED
  BY <1>3, <1>4, <1>5, <1>6, <1>7, <1>8 DEF got

\* A frame that the receiver of RFC 2435 puts together is one that send_frame was
\* given and returned 0 for: its scan from the first octet to the last, in packets
\* of at most max_fragment_size, with the picture that its segments describe.
THEOREM JpegsRebuilt == JpegSpec => []JpegRebuilt
<1>1. QED
  BY JpegAlways, JpegInvRebuilt, PTL

LEMMA JpegInvTruthful == JpegInv => JpegTruthful
<1> SUFFICES ASSUME JpegInv, NEW n \in 1 .. Len(j_results)
             PROVE  /\ n \notin j_lost =>
                           (j_results[n] = 0 <=> \E g \in DOMAIN j_rebuilt : j_rebuilt[g][1].ts = n)
                    /\ j_results[n] = -1 /\ n \notin j_errors => Unfit(jpegs[n])
  <2>1. DOMAIN j_results = 1 .. Len(j_results)
    BY DEF JpegInv, JpegTypes
  <2>2. QED
    BY <2>1 DEF JpegTruthful, Unfit
<1>1. /\ DOMAIN j_rebuilt = 1 .. Len(j_rebuilt) /\ jpegs \in Seq(JpegFrames)
      /\ Len(jpegs) \in Nat /\ Len(j_results) \in Nat /\ Len(j_results) <= Len(jpegs)
  BY DEF JpegInv, JpegTypes
<1>2. n \in 1 .. Len(jpegs) /\ FrameFits(jpegs[n])
  <2>1. n \in 1 .. Len(jpegs)
    BY <1>1
  <2>2. jpegs[n] \in JpegFrames
    BY <1>1, <2>1
  <2>3. QED
    BY <2>1, <2>2, JpegAssumption
<1>3. ASSUME NEW g \in 1 .. Len(j_rebuilt), j_rebuilt[g][1].ts = n PROVE j_results[n] = 0
  <2>1. PICK m \in 1 .. Len(j_results) : j_results[m] = 0 /\ Chain(j_rebuilt[g], m, jpegs[m])
    BY DEF JpegInv, JpegWholeInv, IsFrame
  <2>2. j_rebuilt[g][1].ts = m
    <3>1. Len(j_rebuilt[g]) \in Nat \ {0}
      BY <2>1, ChainFacts
    <3>2. 1 \in 1 .. Len(j_rebuilt[g])
      BY <3>1
    <3>3. QED
      BY <2>1, <3>2, ChainFacts
  <2>3. QED
    BY <1>3, <2>1, <2>2
<1>4. j_results[n] = -1 /\ n \notin j_errors => Unfit(jpegs[n])
  BY <1>2, RefusesUnfit DEF JpegInv, JpegResultInv
<1>5. n \notin j_lost /\ j_results[n] = 0 => \E g \in 1 .. Len(j_rebuilt) : j_rebuilt[g][1].ts = n
  BY DEF JpegInv, JpegResultInv
<1>6. QED
  BY <1>1, <1>3, <1>4, <1>5

\* send_frame tells the truth: 0 exactly if the receiver gets the frame, unless
\* the network loses part of it; without an I/O error it refuses only what is no
\* JPEG frame or does not fit.
THEOREM JpegsTruthful == JpegSpec => []JpegTruthful
<1>1. QED
  BY JpegAlways, JpegInvTruthful, PTL
=============================================================================
