----------------------------- MODULE SrtcpProofs -----------------------------
(***************************************************************************)
(* Proofs about Srtcp for every window size and every index width: the     *)
(* replay window is exact, the receiver keeps the promise of AtMostOnce    *)
(* and the sender uses no index twice.                                     *)
(***************************************************************************)
EXTENDS Srtcp, ReplayWindowProofs, FiniteSetTheorems

\* WindowExact is inductive together with the types: Fresh reads only the mask
\* and srtcp_highest_index, so the mask has to say everything about accepted.
SrtcpInv == TypeOK /\ WindowExact

LEMMA SrtcpInit == Init => SrtcpInv
<1> SUFFICES ASSUME Init PROVE SrtcpInv
  OBVIOUS
<1>1. 0 \in SenderIndex /\ 0 \in WireIndex /\ 0 \in 0 .. MaxReports /\ 0 \in Nat
  BY SrtcpAssumption DEF SenderIndex, WireIndex
<1>2. TypeOK
  BY <1>1 DEF Init, TypeOK
<1>3. WindowExact
  BY DEF Init, WindowExact
<1>4. QED
  BY <1>2, <1>3 DEF SrtcpInv

LEMMA TransmitInv ==
    ASSUME SrtcpInv, NEW taken \in BOOLEAN, Transmit_Encrypt(taken)
    PROVE  SrtcpInv'
<1>1. srtcp_index \in Nat /\ WireMod \in Nat /\ WireMod > 0
  BY SrtcpAssumption DEF SrtcpInv, TypeOK, SenderIndex
<1>2. srtcp_index' \in SenderIndex
  BY <1>1 DEF Transmit_Encrypt, Transmit_Advance, SenderIndex
<1>3. srtcp_index % WireMod \in WireIndex
  BY <1>1 DEF WireIndex
<1>4. encrypted' \in 0 .. MaxReports
  BY SrtcpAssumption DEF SrtcpInv, TypeOK, Transmit_Encrypt
<1>5. TypeOK'
  BY <1>2, <1>3, <1>4 DEF SrtcpInv, TypeOK, Transmit_Encrypt, recvVars
<1>6. WindowExact'
  BY DEF SrtcpInv, WindowExact, Transmit_Encrypt, recvVars
<1>7. QED
  BY <1>5, <1>6 DEF SrtcpInv

LEMMA AcceptInv ==
    ASSUME SrtcpInv, NEW i \in wire, Unprotect_Accept(i)
    PROVE  SrtcpInv' /\ i \notin accepted
<1>1. /\ accepted \in SUBSET Nat
      /\ srtcp_highest_index \in Nat
      /\ i \in Nat /\ i \in WireIndex
  BY SrtcpAssumption DEF SrtcpInv, TypeOK, WireIndex
<1>2. /\ \A j \in accepted : j <= srtcp_highest_index
      /\ srtcp_replay_window = Below(srtcp_highest_index, accepted)
  BY DEF SrtcpInv, WindowExact, Below
<1>3. /\ Fresh(srtcp_replay_window, srtcp_highest_index, i)
      /\ srtcp_replay_window' = Slide(srtcp_replay_window, srtcp_highest_index, i)
      /\ srtcp_highest_index' = Top(srtcp_highest_index, i)
      /\ accepted' = accepted \cup {i}
  BY DEF Unprotect_Accept, Top
<1>4. /\ srtcp_replay_window' = Below(srtcp_highest_index', accepted')
      /\ i \notin accepted
      /\ \A j \in accepted' : j <= srtcp_highest_index'
  BY <1>1, <1>2, <1>3, SlideExact
<1>5. WindowExact'
  BY <1>4 DEF WindowExact, Below
<1>6. TypeOK'
  <2>1. srtcp_replay_window' \subseteq Bits
    BY <1>4 DEF Below
  <2>2. srtcp_highest_index' \in WireIndex
    BY <1>1, <1>3 DEF SrtcpInv, TypeOK, Top
  <2>3. QED
    BY <1>1, <1>3, <2>1, <2>2 DEF SrtcpInv, TypeOK, Unprotect_Accept, sendVars
<1>7. QED
  BY <1>4, <1>5, <1>6 DEF SrtcpInv

LEMMA SrtcpStep == SrtcpInv /\ [Next]_vars => SrtcpInv'
<1>1. ASSUME SrtcpInv, UNCHANGED vars
      PROVE  SrtcpInv'
  BY <1>1 DEF SrtcpInv, TypeOK, WindowExact, vars, sendVars, recvVars
<1>2. QED
  BY <1>1, TransmitInv, AcceptInv
  DEF Next, Transmit, Transmit_Refused, Unprotect_Damaged, Unprotect, Unprotect_Replay

LEMMA SrtcpInvariant == Spec => []SrtcpInv
<1>1. Init => SrtcpInv
  BY SrtcpInit
<1>2. SrtcpInv /\ [Next]_vars => SrtcpInv'
  BY SrtcpStep
<1>3. QED
  BY <1>1, <1>2, PTL DEF Spec

\* The SRTCP replay mask is exact at every moment, from the first packet on.
THEOREM SrtcpWindowExact == Spec => []WindowExact
<1>1. SrtcpInv => WindowExact
  BY DEF SrtcpInv
<1>2. QED
  BY <1>1, SrtcpInvariant, PTL

\* compy_srtcp_recv_unprotect hands over only what was sent, and each index once.
THEOREM SrtcpKeepsPromise == Spec => KeepsPromise
<1>1. Init => Promise!Init
  BY DEF Init, Promise!Init
<1>2. SrtcpInv /\ [Next]_vars => [Promise!Next]_Promise!vars
  <2> SUFFICES ASSUME SrtcpInv, [Next]_vars
               PROVE  [Promise!Next]_Promise!vars
    OBVIOUS
  <2>1. CASE UNCHANGED vars
    BY <2>1 DEF vars, sendVars, recvVars, Promise!vars
  <2>2. ASSUME NEW taken \in BOOLEAN, Transmit_Encrypt(taken)
        PROVE  [Promise!Next]_Promise!vars
    <3>1. CASE taken
      <4>1. srtcp_index % WireMod \in WireIndex
        BY SrtcpAssumption DEF SrtcpInv, TypeOK, SenderIndex, WireIndex
      <4>2. Promise!Offer(srtcp_index % WireMod)
        BY <2>2, <3>1 DEF Transmit_Encrypt, recvVars, Promise!Offer
      <4>3. QED
        BY <4>1, <4>2 DEF Promise!Next
    <3>2. CASE ~taken
      BY <2>2, <3>2 DEF Transmit_Encrypt, recvVars, Promise!vars
    <3>3. QED
      BY <3>1, <3>2
  <2>3. ASSUME NEW i \in wire, Unprotect_Accept(i)
        PROVE  Promise!Next
    <3>1. i \in wire \ accepted /\ i \in WireIndex
      BY <2>3, AcceptInv DEF SrtcpInv, TypeOK
    <3>2. Promise!Accept(i)
      BY <2>3, <3>1 DEF Unprotect_Accept, sendVars, Promise!Accept
    <3>3. QED
      BY <3>1, <3>2 DEF Promise!Next
  <2>4. QED
    BY <2>1, <2>2, <2>3
    DEF Next, Transmit, Transmit_Refused, Unprotect_Damaged, Unprotect, Unprotect_Replay
<1>3. QED
  BY <1>1, <1>2, SrtcpInvariant, PTL DEF Spec, KeepsPromise, Promise!Spec

\* Until the uint32_t wraps, srtcp_index counts the packets that were encrypted.
SenderCounts ==
    /\ encrypted < 2 * WireMod => srtcp_index = encrypted
    /\ encrypted <= 2 * WireMod => used = 0 .. encrypted - 1

LEMMA SenderCountsStep == SrtcpInv /\ SenderCounts /\ [Next]_vars => SenderCounts'
<1> SUFFICES ASSUME SrtcpInv, SenderCounts, [Next]_vars PROVE SenderCounts'
  OBVIOUS
<1>1. WireMod \in Nat /\ WireMod > 0 /\ encrypted \in Nat
  BY SrtcpAssumption DEF SrtcpInv, TypeOK
<1>2. ASSUME UNCHANGED sendVars
      PROVE  SenderCounts'
  BY <1>2 DEF sendVars, SenderCounts
<1>3. ASSUME NEW taken \in BOOLEAN, Transmit_Encrypt(taken)
      PROVE  SenderCounts'
  <2>1. /\ encrypted' = encrypted + 1
        /\ used' = used \cup {srtcp_index}
        /\ srtcp_index' = (srtcp_index + 1) % (2 * WireMod)
    BY <1>3 DEF Transmit_Encrypt, Transmit_Advance
  <2>2. ASSUME encrypted' < 2 * WireMod
        PROVE  srtcp_index' = encrypted'
    <3>1. encrypted < 2 * WireMod
      BY <1>1, <2>1, <2>2
    <3>2. srtcp_index' = (encrypted + 1) % (2 * WireMod)
      BY <2>1, <3>1 DEF SenderCounts
    <3>3. ASSUME NEW m \in Nat, NEW n \in Nat, n < m
          PROVE  n % m = n
      BY <3>3
    <3>4. QED
      BY <1>1, <2>1, <2>2, <3>2, <3>3
  <2>3. ASSUME encrypted' <= 2 * WireMod
        PROVE  used' = 0 .. encrypted' - 1
    <3>1. encrypted < 2 * WireMod
      BY <1>1, <2>1, <2>3
    <3>2. used = 0 .. encrypted - 1 /\ srtcp_index = encrypted
      BY <1>1, <3>1 DEF SenderCounts
    <3>3. QED
      BY <1>1, <2>1, <3>2
  <2>4. QED
    BY <2>2, <2>3 DEF SenderCounts
<1>4. QED
  BY <1>2, <1>3
  DEF Next, Transmit, Transmit_Refused, Unprotect_Damaged, Unprotect, Unprotect_Replay,
      Unprotect_Accept, vars

\* No index, hence no keystream, serves two SRTCP packets until the 32 bits are
\* exhausted, for every width and whatever sends fail in between.
THEOREM SrtcpIndexNeverReused == Spec => []IndexNeverReused
<1>1. Init => SenderCounts
  BY SrtcpAssumption DEF Init, SenderCounts
<1>2. SrtcpInv /\ SenderCounts => IndexNeverReused
  <2> SUFFICES ASSUME SrtcpInv, SenderCounts, encrypted <= 2 * WireMod
               PROVE  Cardinality(used) = encrypted
    BY DEF IndexNeverReused
  <2>1. encrypted \in Nat
    BY SrtcpAssumption DEF SrtcpInv, TypeOK
  <2>2. Cardinality(0 .. encrypted - 1) = encrypted
    BY <2>1, FS_Interval
  <2>3. QED
    BY <2>2 DEF SenderCounts
<1>3. QED
  BY <1>1, <1>2, SenderCountsStep, SrtcpInvariant, PTL DEF Spec
=============================================================================
