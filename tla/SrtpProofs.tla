----------------------------- MODULE SrtpProofs -----------------------------
(***************************************************************************)
(* Proofs about the SRTP receiver, the sender and the stream they make,    *)
(* for every width of the sequence number, of the rollover counter, of the *)
(* index and of the window.  The receiver is proved against every peer and *)
(* network; then the rollover counter of the sender is exact, the stream   *)
(* implements AtMostOnce, and what is in range gets through.               *)
(***************************************************************************)
EXTENDS SrtpStream, ReplayWindowProofs, FiniteSetTheorems

\* The inductive invariant: nothing consumed lies above the highest index, the
\* window is the exact picture of what was consumed just below it, and the
\* deliveries are counted by a finite set.
RecvInv ==
    /\ RecvTypeOK
    /\ ~initialized => consumed = {}
    /\ IndexesBelow
    /\ WindowExact
    /\ IsFiniteSet(delivered)
    /\ NoReplay

-----------------------------------------------------------------------------
\* A remainder fits the modulus, so an index fits its width.
LEMMA PacketIndexType ==
    ASSUME NEW v \in Roc, NEW seq \in SeqNum
    PROVE  PacketIndex(v, seq) \in Index
<1>1. v * SeqMod + seq \in Int
  BY WidthAssumption DEF Roc, SeqNum
<1>2. IdxMod \in Nat \ {0}
  <2>1. PICK k \in 1 .. RocMod : IdxMod = k * SeqMod
    BY WidthAssumption
  <2>2. k \in Nat /\ k >= 1 /\ SeqMod \in Nat /\ SeqMod >= 1
    BY WidthAssumption
  <2>3. k * SeqMod \in Nat /\ k * SeqMod >= 1
    BY <2>2, SMTT(30)
  <2>4. QED
    BY <2>1, <2>3
<1>3. QED
  BY <1>1, <1>2 DEF PacketIndex, Index

\* estimate_roc yields a uint32_t whatever the context holds.
LEMMA EstimateType ==
    ASSUME RecvTypeOK, NEW seq \in SeqNum
    PROVE  Estimate(seq) \in Roc
BY WidthAssumption DEF Estimate, EstimateRoc, RecvTypeOK, Roc, SeqNum

-----------------------------------------------------------------------------
\* The indexes of a set of packets.
Indexes(C) == { PacketIndex(c[1], c[2]) : c \in C }

LEMMA RecvInitInv == RecvInit => RecvInv
<1> SUFFICES ASSUME RecvInit PROVE RecvInv
  OBVIOUS
<1>1. IsFiniteSet(delivered) /\ Cardinality(delivered) = 0
  BY FS_EmptySet DEF RecvInit
<1>2. RecvTypeOK
  <2>1. 0 \in Roc /\ 0 \in SeqNum /\ 0 \in Nat
    BY WidthAssumption DEF Roc, SeqNum
  <2>2. QED
    BY <2>1 DEF RecvInit, RecvTypeOK
<1>3. IndexesBelow /\ WindowExact
  BY DEF RecvInit, IndexesBelow, WindowExact
<1>4. NoReplay
  BY <1>1 DEF RecvInit, NoReplay
<1>5. QED
  BY <1>1, <1>2, <1>3, <1>4 DEF RecvInit, RecvInv

LEMMA IndexesAdd ==
    ASSUME NEW C, NEW v, NEW seq
    PROVE  Indexes(C \cup {<<v, seq>>}) = Indexes(C) \cup {PacketIndex(v, seq)}
<1>1. <<v, seq>>[1] = v /\ <<v, seq>>[2] = seq
  OBVIOUS
<1>2. QED
  BY <1>1, Zenon DEF Indexes

\* The context after a packet is accepted.
LEMMA AcceptContext ==
    ASSUME RecvInv, NEW p \in Packet, Unprotect_Accept(p)
    PROVE  /\ RecvTypeOK'
           /\ initialized'
           /\ Id(p) \notin consumed
           /\ IndexesBelow'
           /\ WindowExact'
<1> DEFINE v == Estimate(p.seq)
           index == PacketIndex(v, p.seq)
           S == Indexes(consumed)
<1>1. /\ p.seq \in SeqNum
      /\ v \in Roc
      /\ index \in Index
      /\ Id(p) = <<v, p.seq>>
  <2>1. p.seq \in SeqNum
    BY DEF Packet
  <2>2. v \in Roc
    BY <2>1, EstimateType DEF RecvInv
  <2>3. index \in Index
    BY <2>1, <2>2, PacketIndexType
  <2>4. Id(p) = <<v, p.seq>>
    BY DEF Unprotect_Accept, Verifies, Id
  <2>5. QED
    BY <2>1, <2>2, <2>3, <2>4
<1>2. Highest \in Index
  BY PacketIndexType DEF RecvInv, RecvTypeOK, Highest
<1>3. S \subseteq Index
  BY PacketIndexType DEF RecvInv, RecvTypeOK, Indexes
<1>4. consumed' = consumed \cup {<<v, p.seq>>}
  BY <1>1 DEF Unprotect_Accept
<1>5. Indexes(consumed') = S \cup {index}
  BY <1>4, IndexesAdd
<1> HIDE DEF v, index
<1>6. CASE ~initialized
  <2>1. /\ consumed = {}
        /\ initialized' = TRUE
        /\ replay_window' = {0}
        /\ recv_roc' = v
        /\ s_l' = p.seq
    BY <1>6 DEF RecvInv, Unprotect_Accept, ReplayUpdate, v
  <2>2. Highest' = index
    BY <2>1 DEF Highest, index
  <2>3. consumed' = {<<v, p.seq>>}
    BY <1>4, <2>1
  <2>4. IndexesBelow'
    BY <1>1, <2>2, <2>3 DEF IndexesBelow, index, Index
  <2>5. WindowExact'
    BY <1>1, <2>1, <2>2, <2>3, WindowAssumption DEF WindowExact, index, Index, Bits
  <2>6. RecvTypeOK'
    BY <1>1, <2>1, <2>3, WindowAssumption
    DEF RecvInv, RecvTypeOK, Unprotect_Accept, Bits
  <2>7. QED
    BY <1>1, <2>1, <2>4, <2>5, <2>6
<1>7. CASE initialized
  <2> DEFINE top == Top(Highest, index)
  <2>1. /\ initialized' = TRUE
        /\ replay_window' = Slide(replay_window, Highest, index)
        /\ recv_roc' = IF index > Highest THEN v ELSE recv_roc
        /\ s_l' = IF index > Highest THEN p.seq ELSE s_l
        /\ Fresh(replay_window, Highest, index)
    BY <1>7 DEF Unprotect_Accept, Verifies, ReplayCheck, ReplayUpdate, v, index
  <2>2. Highest' = top
    BY <2>1 DEF Highest, index, Top
  <2>3. replay_window = Below(Highest, S)
    BY <1>7 DEF RecvInv, WindowExact, Indexes, Below
  <2>4. \A i \in S : i <= Highest
    BY DEF RecvInv, IndexesBelow, Indexes
  <2>5. /\ replay_window' = Below(top, S \cup {index})
        /\ index \notin S
        /\ \A i \in S \cup {index} : i <= top
    <3>1. S \in SUBSET Nat /\ Highest \in Nat /\ index \in Nat
      BY <1>1, <1>2, <1>3 DEF Index
    <3>2. QED
      BY <2>1, <2>3, <2>4, <3>1, SlideExact
  <2>6. WindowExact'
    BY <1>5, <2>2, <2>5 DEF WindowExact, Indexes, Below
  <2>7. IndexesBelow'
    BY <1>5, <2>2, <2>5 DEF IndexesBelow, Indexes
  <2>8. Id(p) \notin consumed
    BY <1>1, <2>5 DEF Indexes, index
  <2>9. RecvTypeOK'
    BY <1>1, <1>4, <2>1, <2>5 DEF RecvInv, RecvTypeOK, Unprotect_Accept, Below
  <2>10. QED
    BY <2>1, <2>6, <2>7, <2>8, <2>9
<1>8. QED
  BY <1>6, <1>7

LEMMA RecvStepInv == RecvInv /\ [RecvNext]_recvVars => RecvInv'
<1> SUFFICES ASSUME RecvInv, [RecvNext]_recvVars
             PROVE  RecvInv'
  OBVIOUS
<1>1. CASE UNCHANGED recvVars
  BY <1>1 DEF RecvInv, RecvTypeOK, IndexesBelow, WindowExact, NoReplay,
              Highest, recvVars
<1>2. ASSUME NEW p \in Packet, Unprotect_Accept(p)
      PROVE  RecvInv'
  <2>1. /\ RecvTypeOK'
        /\ initialized'
        /\ Id(p) \notin consumed
        /\ IndexesBelow'
        /\ WindowExact'
    BY <1>2, AcceptContext
  <2>2. IsFiniteSet(delivered') /\ NoReplay'
    <3>1. CASE p.shape = "ok"
      <4>1. delivered' = delivered \cup {Id(p)} /\ deliveries' = deliveries + 1
        BY <1>2, <3>1 DEF Unprotect_Accept
      <4>2. IsFiniteSet(delivered) /\ Id(p) \notin delivered
        BY <2>1 DEF RecvInv, RecvTypeOK
      <4>3. QED
        BY <4>1, <4>2, FS_AddElement DEF RecvInv, NoReplay
    <3>2. CASE p.shape # "ok"
      BY <1>2, <3>2 DEF Unprotect_Accept, RecvInv, NoReplay
    <3>3. QED
      BY <3>1, <3>2
  <2>3. QED
    BY <2>1, <2>2 DEF RecvInv
<1>3. QED
  BY <1>1, <1>2 DEF RecvNext, Unprotect, Unprotect_Reject

\* The inductive invariant holds in every reachable state of the receiver.
THEOREM RecvInvariant == RecvSpec => []RecvInv
<1>1. RecvInit => RecvInv
  BY RecvInitInv
<1>2. RecvInv /\ [RecvNext]_recvVars => RecvInv'
  BY RecvStepInv
<1>3. QED
  BY <1>1, <1>2, PTL DEF RecvSpec

\* The receive context stays within the widths of its fields.
THEOREM RecvTypeCorrect == RecvSpec => []RecvTypeOK
<1>1. RecvInv => RecvTypeOK
  BY DEF RecvInv
<1>2. QED
  BY <1>1, RecvInvariant, PTL

\* compy_srtp_recv_unprotect hands no packet over twice, whoever sends what.
THEOREM RecvNoReplay == RecvSpec => []NoReplay
<1>1. RecvInv => NoReplay
  BY DEF RecvInv
<1>2. QED
  BY <1>1, RecvInvariant, PTL

\* The bitmask is the exact picture of the last Window indexes.
THEOREM RecvWindowExact == RecvSpec => []WindowExact
<1>1. RecvInv => WindowExact
  BY DEF RecvInv
<1>2. QED
  BY <1>1, RecvInvariant, PTL

\* No step of the receiver moves its highest index back.
THEOREM RecvMonotonic == RecvSpec => HighestMonotonic
<1>1. RecvInv /\ RecvInv' /\ [RecvNext]_recvVars
        => [initialized => Highest' >= Highest]_recvVars
  <2> SUFFICES ASSUME RecvInv, RecvInv', RecvNext, initialized
               PROVE  Highest' >= Highest
    OBVIOUS
  <2>1. Highest \in Int /\ Highest' \in Int
    BY PacketIndexType DEF RecvInv, RecvTypeOK, Highest, Index
  <2>2. PICK p \in Packet : Unprotect(p)
    BY DEF RecvNext
  <2>3. CASE Unprotect_Reject(p)
    BY <2>1, <2>3 DEF Unprotect_Reject, recvVars, Highest
  <2>4. CASE Unprotect_Accept(p)
    <3> DEFINE index == PacketIndex(Estimate(p.seq), p.seq)
    <3>1. Highest' = IF index > Highest THEN index ELSE Highest
      BY <2>4 DEF Unprotect_Accept, ReplayUpdate, Highest
    <3>2. QED
      BY <2>1, <3>1
  <2>5. QED
    BY <2>2, <2>3, <2>4 DEF Unprotect
<1>2. QED
  BY <1>1, RecvInvariant, PTL DEF RecvSpec, HighestMonotonic

-----------------------------------------------------------------------------
\* What the next attempt will be numbered: counting the rollover on the way, the
\* sequence number of the RTP transport and the ROC of the SRTP transport spell
\* the extended number of the next packet.
NextExt ==
    SenderRoc(roc, prev_seq, seq_num) * SeqMod + seq_num = first_seq + packet_count

SendInv ==
    /\ SendTypeOK
    /\ packet_count <= MaxPackets
    /\ NextExt
    /\ SentConsecutive

\* A product does not exceed another with a larger factor.
LEMMA FactorLess ==
    ASSUME NEW a \in Int, NEW b \in Int, NEW s \in Nat, s > 0, a * s < b * s
    PROVE  a < b
BY SMTT(30)

LEMMA SenderRocType ==
    ASSUME NEW r \in Roc, NEW p \in SeqNum, NEW q \in SeqNum
    PROVE  SenderRoc(r, p, q) \in Roc
BY WidthAssumption DEF SenderRoc, RolledOver, Roc, SeqNum

\* A retry of the same number is not a rollover.
LEMMA RetryNoRollover ==
    ASSUME NEW r \in Roc, NEW q \in SeqNum
    PROVE  SenderRoc(r, q, q) = r
BY DEF SenderRoc, RolledOver, SeqNum

\* The number after q counts one further, across the wrap too, as long as the
\* rollover counter has room.
LEMMA SuccessorExt ==
    ASSUME NEW r \in Roc, NEW q \in SeqNum, NEW n \in Nat,
           r * SeqMod + q = n, n + 1 < RocMod * SeqMod
    PROVE  SenderRoc(r, q, (q + 1) % SeqMod) * SeqMod + ((q + 1) % SeqMod) = n + 1
<1>1. CASE q < SeqMod - 1
  <2>1. (q + 1) % SeqMod = q + 1
    BY <1>1, WidthAssumption DEF SeqNum
  <2>2. SenderRoc(r, q, q + 1) = r
    BY DEF SenderRoc, RolledOver, SeqNum
  <2>3. r * SeqMod + (q + 1) = n + 1
    BY WidthAssumption DEF Roc, SeqNum
  <2>4. QED
    BY <2>1, <2>2, <2>3
<1>2. CASE q = SeqMod - 1
  <2>1. (q + 1) % SeqMod = 0
    BY <1>2, WidthAssumption DEF SeqNum
  <2>2. (r + 1) * SeqMod = n + 1
    BY <1>2, WidthAssumption DEF Roc, SeqNum
  <2>3. r + 1 < RocMod
    BY <2>2, FactorLess, WidthAssumption DEF Roc
  <2>4. (r + 1) % RocMod = r + 1
    <3>1. RocMod \in Nat /\ r + 1 \in 0 .. RocMod - 1
      BY <2>3, WidthAssumption DEF Roc
    <3>2. QED
      BY <3>1
  <2>5. SenderRoc(r, q, 0) = r + 1
    BY <1>2, <2>4, WidthAssumption DEF SenderRoc, RolledOver
  <2>6. QED
    BY <2>1, <2>2, <2>5, WidthAssumption DEF Roc
<1>3. QED
  BY <1>1, <1>2, WidthAssumption DEF SeqNum
-----------------------------------------------------------------------------
LEMMA SendInitInv == SendInit => SendInv
<1> SUFFICES ASSUME SendInit PROVE SendInv
  OBVIOUS
<1>1. 0 \in Roc /\ 0 \in SeqNum /\ 0 \in Nat /\ 0 <= MaxPackets /\ SeqMod \in Nat
  BY WidthAssumption, MaxPacketsAssumption DEF Roc, SeqNum
<1>2. SendTypeOK
  BY <1>1 DEF SendInit, SendTypeOK
<1>3. NextExt
  <2>1. SenderRoc(0, 0, seq_num) = 0
    BY <1>2 DEF SendTypeOK, SenderRoc, RolledOver, SeqNum
  <2>2. first_seq \in Int /\ 0 * SeqMod = 0
    BY <1>1, <1>2 DEF SendTypeOK, SeqNum
  <2>3. QED
    BY <2>1, <2>2 DEF SendInit, NextExt
<1>4. SentConsecutive
  <2>1. first_seq .. first_seq + 0 - 1 = {}
    BY <1>2 DEF SendTypeOK, SeqNum
  <2>2. { Ext(m) : m \in sent } = {}
    BY DEF SendInit
  <2>3. QED
    BY <2>1, <2>2 DEF SendInit, SentConsecutive
<1>5. QED
  BY <1>1, <1>2, <1>3, <1>4 DEF SendInit, SendInv

\* A failed attempt has counted the rollover; the retry counts it no second time.
LEMMA FailedInv ==
    ASSUME SendInv, SendPacket_Failed
    PROVE  SendInv'
<1> DEFINE r == SenderRoc(roc, prev_seq, seq_num)
<1>1. r \in Roc
  BY SenderRocType DEF SendInv, SendTypeOK
<1>2. SendTypeOK'
  BY <1>1 DEF SendInv, SendTypeOK, SendPacket_Failed
<1>3. SenderRoc(r, seq_num, seq_num) = r
  BY <1>1, RetryNoRollover DEF SendInv, SendTypeOK
<1>4. NextExt'
  BY <1>3 DEF SendInv, NextExt, SendPacket_Failed
<1>5. QED
  BY <1>2, <1>4 DEF SendInv, SentConsecutive, SendPacket_Failed

LEMMA SentInv ==
    ASSUME SendInv, SendPacket_Sent
    PROVE  SendInv'
<1> DEFINE r == SenderRoc(roc, prev_seq, seq_num)
           n == first_seq + packet_count
<1>1. r \in Roc /\ seq_num \in SeqNum /\ first_seq \in SeqNum /\ packet_count \in Nat
  BY SenderRocType DEF SendInv, SendTypeOK
<1>2. SeqMod \in Nat /\ SeqMod > 0
  BY WidthAssumption
<1>3. n \in Nat /\ r * SeqMod + seq_num = n
  BY <1>1, <1>2 DEF SendInv, NextExt, SeqNum
<1>4. (seq_num + 1) % SeqMod \in SeqNum
  BY <1>1, <1>2 DEF SeqNum
<1>5. SendTypeOK'
  <2>1. <<r, seq_num>> \in Roc \X SeqNum
    BY <1>1
  <2>2. QED
    BY <1>1, <1>4, <2>1 DEF SendInv, SendTypeOK, SendPacket_Sent
<1>6. packet_count' <= MaxPackets
  BY <1>1, MaxPacketsAssumption DEF SendPacket_Sent
<1>7. NextExt'
  <2>1. n + 1 < RocMod * SeqMod
    <3>1. (RocMod - 1) * SeqMod = RocMod * SeqMod - SeqMod /\ RocMod * SeqMod \in Int
      BY <1>2, WidthAssumption, SMTT(30)
    <3>2. QED
      BY <1>1, <1>2, <3>1, MaxPacketsAssumption DEF SendPacket_Sent, SeqNum
  <2>2. SenderRoc(r, seq_num, (seq_num + 1) % SeqMod) * SeqMod
          + ((seq_num + 1) % SeqMod) = n + 1
    BY <1>1, <1>3, <2>1, SuccessorExt
  <2>3. n + 1 = first_seq' + packet_count'
    BY <1>1 DEF SendPacket_Sent, SeqNum
  <2>4. QED
    BY <2>2, <2>3 DEF NextExt, SendPacket_Sent
<1>8. SentConsecutive'
  <2>1. Ext(<<r, seq_num>>) = n
    BY <1>3 DEF Ext
  <2>2. { Ext(m) : m \in sent' } = { Ext(m) : m \in sent } \cup {n}
    BY <2>1 DEF SendPacket_Sent
  <2>3. first_seq .. first_seq + (packet_count + 1) - 1
          = (first_seq .. first_seq + packet_count - 1) \cup {n}
    BY <1>1 DEF SeqNum
  <2>4. QED
    BY <2>2, <2>3 DEF SendInv, SentConsecutive, SendPacket_Sent
<1>9. QED
  BY <1>5, <1>6, <1>7, <1>8 DEF SendInv

LEMMA SendStepInv == SendInv /\ [SendPacket]_sendVars => SendInv'
<1>1. ASSUME SendInv, UNCHANGED sendVars
      PROVE  SendInv'
  BY <1>1 DEF SendInv, SendTypeOK, NextExt, SentConsecutive, sendVars
<1>2. QED
  BY <1>1, FailedInv, SentInv DEF SendPacket, SendPacket_Refused

\* The ROC in the tags of the packets sent is exact, for up to about 2^48 of
\* them, wherever attempts to send fail.
THEOREM SenderExact == SendSpec => []SentConsecutive
<1>1. SendInit => SendInv
  BY SendInitInv
<1>2. SendInv /\ [SendPacket]_sendVars => SendInv'
  BY SendStepInv
<1>3. SendInv => SentConsecutive
  BY DEF SendInv
<1>4. QED
  BY <1>1, <1>2, <1>3, PTL DEF SendSpec

-----------------------------------------------------------------------------
StreamInv == SendInv /\ RecvInv

\* A damaged packet never verifies: no ROC estimate equals Forged.
LEMMA DamagedRejected ==
    ASSUME RecvTypeOK, NEW seq \in SeqNum, NEW shape \in Shape,
           Unprotect([seq |-> seq, tag |-> Forged, shape |-> shape])
    PROVE  UNCHANGED recvVars
<1>1. Estimate(seq) \in Roc
  BY EstimateType
<1>2. Forged \notin Roc
  BY DEF Forged, Roc
<1>3. QED
  BY <1>1, <1>2 DEF Unprotect, Unprotect_Reject, Unprotect_Accept, Verifies

LEMMA OnWireIsPacket ==
    ASSUME NEW m \in Roc \X SeqNum
    PROVE  OnWire(m) \in Packet /\ Id(OnWire(m)) = m
BY DEF OnWire, Packet, Shape, Id

\* A step of the stream is a step of the sender and one of the receiver.
LEMMA StreamStep ==
    ASSUME StreamInv, [Next]_vars
    PROVE  [SendPacket]_sendVars /\ [RecvNext]_recvVars
<1>1. CASE Send
  BY <1>1 DEF Send
<1>2. CASE Arrive
  <2>1. PICK m \in sent : Unprotect(OnWire(m))
    BY <1>2 DEF Arrive
  <2>2. OnWire(m) \in Packet
    BY OnWireIsPacket DEF StreamInv, SendInv, SendTypeOK
  <2>3. QED
    BY <1>2, <2>1, <2>2 DEF Arrive, RecvNext
<1>3. CASE ArriveDamaged
  BY <1>3, DamagedRejected DEF ArriveDamaged, StreamInv, RecvInv
<1>4. CASE UNCHANGED vars
  BY <1>4 DEF vars
<1>5. QED
  BY <1>1, <1>2, <1>3, <1>4 DEF Next

LEMMA StreamInvariant == Spec => []StreamInv
<1>1. Init => StreamInv
  BY SendInitInv, RecvInitInv DEF Init, StreamInv
<1>2. StreamInv /\ [Next]_vars => StreamInv'
  BY StreamStep, SendStepInv, RecvStepInv DEF StreamInv
<1>3. QED
  BY <1>1, <1>2, PTL DEF Spec

\* In the composed system too, no packet is delivered twice.
THEOREM StreamNoReplay == Spec => []NoReplay
<1>1. StreamInv => NoReplay
  BY DEF StreamInv, RecvInv
<1>2. QED
  BY <1>1, StreamInvariant, PTL

\* The stream implements its abstract promise: every packet delivered was sent
\* by the holder of the key, and none is delivered twice.
THEOREM StreamKeepsPromise == Spec => KeepsPromise
<1>1. Init => Promise!Init
  BY DEF Init, SendInit, RecvInit, Promise!Init
<1>2. StreamInv /\ [Next]_vars => [Promise!Next]_Promise!vars
  <2> SUFFICES ASSUME StreamInv, [Next]_vars
               PROVE  [Promise!Next]_Promise!vars
    OBVIOUS
  <2>1. CASE Send
    <3>1. CASE SendPacket_Sent
      <4>1. <<roc', seq_num>> \in Roc \X SeqNum
        BY <3>1, SenderRocType DEF SendPacket_Sent, StreamInv, SendInv, SendTypeOK
      <4>2. Promise!Offer(<<roc', seq_num>>)
        BY <2>1, <3>1 DEF SendPacket_Sent, Send, recvVars, Promise!Offer
      <4>3. QED
        BY <4>1, <4>2 DEF Promise!Next
    <3>2. CASE SendPacket_Failed \/ SendPacket_Refused
      BY <2>1, <3>2 DEF Send, SendPacket_Failed, SendPacket_Refused,
                        sendVars, recvVars, Promise!vars
    <3>3. QED
      BY <2>1, <3>1, <3>2 DEF Send, SendPacket
  <2>2. CASE Arrive
    <3>1. PICK m \in sent : Unprotect(OnWire(m))
      BY <2>2 DEF Arrive
    <3>2. m \in Roc \X SeqNum /\ OnWire(m) \in Packet /\ Id(OnWire(m)) = m
      BY OnWireIsPacket DEF StreamInv, SendInv, SendTypeOK
    <3>3. UNCHANGED sent
      BY <2>2 DEF Arrive, sendVars
    <3>4. CASE Unprotect_Reject(OnWire(m))
      BY <3>3, <3>4 DEF Unprotect_Reject, recvVars, Promise!vars
    <3>5. CASE Unprotect_Accept(OnWire(m))
      <4>1. m \notin consumed
        BY <3>2, <3>5, AcceptContext DEF StreamInv
      <4>2. m \in sent \ delivered
        BY <4>1 DEF StreamInv, RecvInv, RecvTypeOK
      <4>3. delivered' = delivered \cup {m} /\ deliveries' = deliveries + 1
        BY <3>2, <3>5 DEF Unprotect_Accept, OnWire
      <4>4. Promise!Accept(m)
        BY <3>3, <4>2, <4>3 DEF Promise!Accept
      <4>5. QED
        BY <3>2, <4>4 DEF Promise!Next
    <3>6. QED
      BY <3>1, <3>4, <3>5 DEF Unprotect
  <2>3. CASE ArriveDamaged
    <3>1. UNCHANGED recvVars
      BY <2>3, DamagedRejected DEF ArriveDamaged, StreamInv, RecvInv
    <3>2. QED
      BY <2>3, <3>1 DEF ArriveDamaged, sendVars, recvVars, Promise!vars
  <2>4. CASE UNCHANGED vars
    BY <2>4 DEF vars, sendVars, recvVars, Promise!vars
  <2>5. QED
    BY <2>1, <2>2, <2>3, <2>4 DEF Next
<1>3. QED
  BY <1>1, <1>2, StreamInvariant, PTL DEF Spec, KeepsPromise, Promise!Spec
-----------------------------------------------------------------------------
\* Nothing past the wrap of the packet index is ever accepted, so below it the
\* index of what was consumed, and of the highest packet, is its extended number.
NoIndexWrap ==
    /\ \A c \in consumed : Ext(c) < IdxMod
    /\ HighestExt < IdxMod

LEMMA WidthTypes ==
    /\ Half \in Nat /\ Half > 0
    /\ SeqMod \in Nat /\ SeqMod = 2 * Half
    /\ RocMod \in Nat
    /\ IdxMod \in Nat /\ IdxMod >= SeqMod
    /\ Window \in Nat /\ Window > 0 /\ Window <= Half
<1>1. PICK k \in 1 .. RocMod : IdxMod = k * SeqMod
  BY WidthAssumption
<1>2. k \in Nat /\ k >= 1 /\ SeqMod \in Nat
  BY WidthAssumption
<1>3. k * SeqMod \in Nat /\ k * SeqMod >= SeqMod
  BY <1>2, SMTT(30)
<1>4. QED
  BY <1>1, <1>3, WidthAssumption, WindowAssumption

LEMMA ProductType ==
    ASSUME NEW v \in Nat
    PROVE  v * SeqMod \in Nat /\ (v + 1) * SeqMod = v * SeqMod + SeqMod
BY WidthTypes, SMTT(30)

\* The quotient and the remainder of an extended number are unique.
LEMMA ExtInjective ==
    ASSUME NEW a \in Roc \X SeqNum, NEW b \in Roc \X SeqNum, Ext(a) = Ext(b)
    PROVE  a = b
<1>1. /\ a[1] \in Nat /\ a[2] \in Nat /\ a[2] < SeqMod /\ a = <<a[1], a[2]>>
      /\ b[1] \in Nat /\ b[2] \in Nat /\ b[2] < SeqMod /\ b = <<b[1], b[2]>>
  BY WidthTypes DEF Roc, SeqNum
<1>2. a[1] * SeqMod + a[2] = b[1] * SeqMod + b[2]
  BY DEF Ext
<1>3. ASSUME NEW u \in Nat, NEW v \in Nat, u + 1 <= v
      PROVE  u * SeqMod + SeqMod <= v * SeqMod
  BY <1>3, WidthTypes, SMTT(30)
<1>4. a[1] * SeqMod \in Nat /\ b[1] * SeqMod \in Nat
  BY <1>1, ProductType
<1>5. ~(a[1] + 1 <= b[1]) /\ ~(b[1] + 1 <= a[1])
  <2>1. ASSUME a[1] + 1 <= b[1] PROVE FALSE
    <3>1. a[1] * SeqMod + SeqMod <= b[1] * SeqMod
      BY <1>1, <1>3, <2>1
    <3>2. QED
      BY <1>1, <1>2, <1>4, <3>1, WidthTypes
  <2>2. ASSUME b[1] + 1 <= a[1] PROVE FALSE
    <3>1. b[1] * SeqMod + SeqMod <= a[1] * SeqMod
      BY <1>1, <1>3, <2>2
    <3>2. QED
      BY <1>1, <1>2, <1>4, <3>1, WidthTypes
  <2>3. QED
    BY <2>1, <2>2
<1>6. a[1] = b[1]
  BY <1>1, <1>5
<1>7. a[2] = b[2]
  BY <1>1, <1>2, <1>4, <1>6
<1>8. QED
  BY <1>1, <1>6, <1>7

\* Below the wrap the packet index is the extended number.
LEMMA IndexIsExt ==
    ASSUME NEW v \in Roc, NEW seq \in SeqNum, v * SeqMod + seq < IdxMod
    PROVE  PacketIndex(v, seq) = v * SeqMod + seq
<1> DEFINE x == v * SeqMod + seq
<1>1. v \in Nat /\ seq \in Nat
  BY WidthTypes DEF Roc, SeqNum
<1>2. x \in Nat
  BY <1>1, ProductType
<1>3. x \in 0 .. IdxMod - 1 /\ IdxMod \in Nat /\ IdxMod > 0
  BY <1>2, WidthTypes
<1> HIDE DEF x
<1>4. x % IdxMod = x
  BY <1>3
<1>5. QED
  BY <1>4 DEF PacketIndex, x

\* The packet estimate_roc puts past the wrap has an index far below the
\* highest one: the replay window refuses it.
LEMMA AcceptBelowWrap ==
    ASSUME RecvInv, NoIndexWrap, NEW p \in Packet, Verifies(p)
    PROVE  Estimate(p.seq) * SeqMod + p.seq < IdxMod
<1> DEFINE v == Estimate(p.seq)
           q == p.seq
<1>1. q \in SeqNum /\ v \in Roc /\ recv_roc \in Roc /\ s_l \in SeqNum
  BY EstimateType DEF Packet, RecvInv, RecvTypeOK
<1>2. /\ q \in Nat /\ q < SeqMod /\ v \in Nat
      /\ recv_roc \in Nat /\ s_l \in Nat /\ s_l < SeqMod
  BY <1>1, WidthTypes DEF Roc, SeqNum
<1>3. v * SeqMod \in Nat /\ recv_roc * SeqMod \in Nat
  BY <1>2, ProductType
<1>4. recv_roc * SeqMod + s_l < IdxMod
  BY DEF NoIndexWrap, HighestExt
<1>5. PICK k \in 1 .. RocMod : IdxMod = k * SeqMod
  BY WidthAssumption
<1>6. recv_roc < k
  <2>1. recv_roc * SeqMod < k * SeqMod
    BY <1>2, <1>3, <1>4, <1>5, WidthTypes
  <2>2. recv_roc \in Int /\ k \in Int
    BY <1>2
  <2>3. QED
    BY <2>1, <2>2, WidthTypes, FactorLess
<1>7. ASSUME v < k PROVE v * SeqMod + q < IdxMod
  <2>1. (v + 1) * SeqMod <= k * SeqMod
    <3>1. v + 1 <= k /\ v + 1 \in Nat /\ k \in Nat
      BY <1>2, <1>7, WidthTypes
    <3>2. ASSUME NEW a \in Nat, NEW b \in Nat, a <= b
          PROVE  a * SeqMod <= b * SeqMod
      BY <3>2, WidthTypes, SMTT(30)
    <3>3. QED
      BY <3>1, <3>2
  <2>2. (v + 1) * SeqMod = v * SeqMod + SeqMod
    BY <1>2, ProductType
  <2>3. QED
    BY <1>2, <1>3, <1>5, <2>1, <2>2, WidthTypes
<1>8. CASE ~initialized
  <2>1. v = 0
    BY <1>8 DEF Estimate, EstimateRoc
  <2>2. QED
    BY <1>2, <1>6, <1>7, <2>1
<1>9. CASE initialized /\ v < k
  BY <1>7, <1>9
<1>10. CASE initialized /\ ~(v < k)
  <2>1. s_l - Half > q /\ v = (recv_roc + 1) % RocMod
    BY <1>2, <1>6, <1>10, WidthTypes DEF Estimate, EstimateRoc
  <2>2. recv_roc + 1 < RocMod
    <3>1. CASE recv_roc + 1 = RocMod
      <4>1. v = 0
        BY <2>1, <3>1, WidthTypes
      <4>2. QED
        BY <1>2, <1>6, <1>10, <4>1
    <3>2. QED
      BY <1>1, <3>1, WidthTypes DEF Roc
  <2>3. v = recv_roc + 1 /\ v = k
    <3>1. (recv_roc + 1) % RocMod = recv_roc + 1
      BY <1>2, <2>2, WidthTypes
    <3>2. QED
      BY <1>2, <1>6, <1>10, <2>1, <3>1
  <2>4. PacketIndex(v, q) = q
    <3>1. v * SeqMod + q = IdxMod + q /\ q \in 0 .. IdxMod - 1
      BY <1>2, <1>5, <2>3, WidthTypes
    <3>2. ASSUME NEW a \in Nat, NEW b \in Nat, b < a
          PROVE  (a + b) % a = b
      BY <3>2, SMTT(30)
    <3>3. QED
      BY <1>2, <3>1, <3>2, WidthTypes DEF PacketIndex
  <2>5. Highest = recv_roc * SeqMod + s_l
    BY <1>1, <1>4, IndexIsExt DEF Highest
  <2>6. Fresh(replay_window, Highest, q)
    BY <1>10, <2>4 DEF Verifies, ReplayCheck
  <2>7. Highest - q > Half /\ Highest \in Nat
    BY <1>2, <1>3, <2>1, <2>5, WidthTypes
  <2>8. QED
    BY <1>2, <2>6, <2>7, WidthTypes DEF Fresh
<1>11. QED
  BY <1>8, <1>9, <1>10

LEMMA NoIndexWrapStep ==
    ASSUME RecvInv, NoIndexWrap, [RecvNext]_recvVars
    PROVE  NoIndexWrap'
<1>1. CASE UNCHANGED recvVars
  BY <1>1 DEF NoIndexWrap, HighestExt, Ext, recvVars
<1>2. ASSUME NEW p \in Packet, Unprotect_Accept(p)
      PROVE  NoIndexWrap'
  <2>1. Estimate(p.seq) * SeqMod + p.seq < IdxMod
    BY <1>2, AcceptBelowWrap DEF Unprotect_Accept
  <2>2. consumed' = consumed \cup {<<Estimate(p.seq), p.seq>>}
    BY <1>2 DEF Unprotect_Accept, Verifies, Id
  <2>3. \A c \in consumed' : Ext(c) < IdxMod
    BY <2>1, <2>2 DEF NoIndexWrap, Ext
  <2>4. \/ recv_roc' = recv_roc /\ s_l' = s_l
        \/ recv_roc' = Estimate(p.seq) /\ s_l' = p.seq
    BY <1>2 DEF Unprotect_Accept, ReplayUpdate
  <2>5. HighestExt' < IdxMod
    BY <2>1, <2>4 DEF NoIndexWrap, HighestExt
  <2>6. QED
    BY <2>3, <2>5 DEF NoIndexWrap, Ext
<1>3. QED
  BY <1>1, <1>2 DEF RecvNext, Unprotect, Unprotect_Reject

\* Within Half of the highest packet on either side estimate_roc finds the ROC
\* the sender used, across a wrap forward and backward.
LEMMA EstimateExact ==
    ASSUME RecvTypeOK, initialized, NEW m \in Roc \X SeqNum,
           Ext(m) - HighestExt < Half, HighestExt - Ext(m) < Half
    PROVE  Estimate(m[2]) = m[1]
<1> DEFINE v == m[1]
           q == m[2]
           r == recv_roc
<1>1. /\ v \in Nat /\ v < RocMod /\ q \in Nat /\ q < SeqMod
      /\ r \in Nat /\ r < RocMod /\ s_l \in Nat /\ s_l < SeqMod
  BY WidthTypes DEF RecvTypeOK, Roc, SeqNum
<1>2. /\ (v * SeqMod + q) - (r * SeqMod + s_l) < Half
      /\ (r * SeqMod + s_l) - (v * SeqMod + q) < Half
  BY DEF Ext, HighestExt
<1>3. /\ v * SeqMod \in Nat /\ (v + 1) * SeqMod = v * SeqMod + SeqMod
      /\ r * SeqMod \in Nat /\ (r + 1) * SeqMod = r * SeqMod + SeqMod
      /\ (v + 2) * SeqMod = v * SeqMod + 2 * SeqMod
      /\ (r + 2) * SeqMod = r * SeqMod + 2 * SeqMod
  <2>1. ASSUME NEW a \in Nat PROVE (a + 2) * SeqMod = a * SeqMod + 2 * SeqMod
    BY WidthTypes, SMTT(30)
  <2>2. QED
    BY <1>1, <2>1, ProductType
<1>4. v < r + 2 /\ r < v + 2
  <2>1. v * SeqMod < (r + 2) * SeqMod /\ r * SeqMod < (v + 2) * SeqMod
    BY <1>1, <1>2, <1>3, WidthTypes
  <2>2. v \in Int /\ r \in Int /\ v + 2 \in Int /\ r + 2 \in Int
    BY <1>1
  <2> HIDE DEF v, r
  <2>3. QED
    BY <2>1, <2>2, WidthTypes, FactorLess
<1> HIDE DEF v, q, r
<1>5. CASE v = r
  <2>1. q - s_l < Half /\ s_l - q < Half
    BY <1>1, <1>2, <1>3, <1>5, WidthTypes
  <2>2. QED
    BY <1>1, <1>5, <2>1, WidthTypes DEF Estimate, EstimateRoc, v, q, r
<1>6. CASE v = r + 1
  <2>1. q - s_l + Half < 0
    BY <1>1, <1>2, <1>3, <1>6, WidthTypes
  <2>2. (r + 1) % RocMod = r + 1
    BY <1>1, <1>6, WidthTypes
  <2>3. QED
    BY <1>1, <1>6, <2>1, <2>2, WidthTypes DEF Estimate, EstimateRoc, v, q, r
<1>7. CASE r = v + 1
  <2>1. q - s_l > Half
    BY <1>1, <1>2, <1>3, <1>7, WidthTypes
  <2>2. QED
    BY <1>1, <1>7, <2>1, WidthTypes DEF Estimate, EstimateRoc, v, q, r
<1>8. v = r \/ v = r + 1 \/ r = v + 1
  BY <1>1, <1>4
<1>9. QED
  BY <1>5, <1>6, <1>7, <1>8 DEF v, q

\* A packet in range is accepted in every state of the invariant.
LEMMA InRangeVerifies ==
    ASSUME StreamInv, NoIndexWrap
    PROVE  AcceptsInRange
<1> SUFFICES ASSUME initialized, NEW m \in sent,
                    Ext(m) < IdxMod,
                    Ext(m) - HighestExt < Half,
                    HighestExt - Ext(m) < Window,
                    m \notin consumed
             PROVE  Verifies(OnWire(m))
  BY DEF AcceptsInRange
<1>1. RecvTypeOK /\ WindowExact /\ m \in Roc \X SeqNum
  BY DEF StreamInv, RecvInv, SendInv, SendTypeOK
<1>2. m[1] \in Roc /\ m[2] \in SeqNum
  BY <1>1
<1>3. Ext(m) \in Nat /\ HighestExt \in Nat
  <2>1. /\ m[1] \in Nat /\ m[2] \in Nat /\ recv_roc \in Nat /\ s_l \in Nat
    BY <1>1, <1>2, WidthTypes DEF RecvTypeOK, Roc, SeqNum
  <2>2. m[1] * SeqMod \in Nat /\ recv_roc * SeqMod \in Nat
    BY <2>1, ProductType
  <2>3. QED
    BY <2>1, <2>2 DEF Ext, HighestExt
<1>4. Estimate(m[2]) = m[1]
  <2>1. HighestExt - Ext(m) < Half
    BY <1>3, WidthTypes
  <2>2. QED
    BY <1>1, <2>1, EstimateExact
<1>5. PacketIndex(m[1], m[2]) = Ext(m)
  BY <1>2, IndexIsExt DEF Ext
<1>6. Highest = HighestExt
  BY <1>1, IndexIsExt DEF Highest, HighestExt, NoIndexWrap, RecvTypeOK
<1>7. ASSUME HighestExt - Ext(m) \in replay_window
      PROVE  FALSE
  <2>1. PICK c \in consumed : PacketIndex(c[1], c[2]) = Highest - (HighestExt - Ext(m))
    BY <1>1, <1>7 DEF WindowExact
  <2>2. c \in Roc \X SeqNum /\ Ext(c) < IdxMod
    BY <1>1 DEF RecvTypeOK, NoIndexWrap
  <2>3. PacketIndex(c[1], c[2]) = Ext(c)
    <3>1. c[1] \in Roc /\ c[2] \in SeqNum
      BY <2>2
    <3>2. QED
      BY <2>2, <3>1, IndexIsExt DEF Ext
  <2>4. Ext(c) = Ext(m)
    BY <1>3, <1>6, <2>1, <2>3
  <2>5. c = m
    BY <1>1, <2>2, <2>4, ExtInjective
  <2>6. QED
    BY <2>5
<1>8. Fresh(replay_window, Highest, Ext(m))
  BY <1>3, <1>6, <1>7, WidthTypes DEF Fresh
<1>9. /\ OnWire(m).shape = "ok"
      /\ OnWire(m).seq = m[2]
      /\ OnWire(m).tag = m[1]
  BY DEF OnWire
<1>10. QED
  BY <1>4, <1>5, <1>8, <1>9 DEF Verifies, ReplayCheck

\* What the sender sent and the receiver has not consumed gets through whenever
\* it is less than Half ahead or inside the window behind, for every width.
THEOREM StreamAcceptsInRange == Spec => []AcceptsInRange
<1>1. Init => NoIndexWrap
  <2>1. 0 * SeqMod + 0 < IdxMod
    BY WidthTypes
  <2>2. QED
    BY <2>1 DEF Init, RecvInit, NoIndexWrap, HighestExt
<1>2. StreamInv /\ NoIndexWrap /\ [Next]_vars => NoIndexWrap'
  BY StreamStep, NoIndexWrapStep DEF StreamInv
<1>3. StreamInv /\ NoIndexWrap => AcceptsInRange
  BY InRangeVerifies
<1>4. QED
  BY <1>1, <1>2, <1>3, StreamInvariant, PTL DEF Spec

=============================================================================
