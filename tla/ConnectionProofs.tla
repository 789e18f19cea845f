-------------------------- MODULE ConnectionProofs --------------------------
(***************************************************************************)
(* Proofs about Connection for any number of threads and any number of     *)
(* chunks per write, and about TlsBackend, which makes and frees the TLS   *)
(* connection those threads share.                                         *)
(***************************************************************************)
EXTENDS Connection, TlsBackend, FiniteSetTheorems, SequenceTheorems, TLAPS

-----------------------------------------------------------------------------
(* The programs, step by step.                                             *)

StepNames == {"lock", "check", "io", "mark", "unlock"}

\* What a program is made of: two pieces one behind the other.
LEMMA Joined ==
    ASSUME NEW p \in Seq(StepNames), NEW q \in Seq(StepNames)
    PROVE  /\ p \o q \in Seq(StepNames)
           /\ Len(p \o q) = Len(p) + Len(q)
           /\ \A i \in 1 .. Len(p) : (p \o q)[i] = p[i]
           /\ \A i \in 1 .. Len(q) : (p \o q)[Len(p) + i] = q[i]
BY ConcatProperties

LEMMA PieceSteps ==
    /\ TlsWrite \in Seq(StepNames) /\ Len(TlsWrite) = 3
    /\ TlsWrite[1] = "check" /\ TlsWrite[2] = "io" /\ TlsWrite[3] = "mark"
    /\ TlsWritef \in Seq(StepNames) /\ Len(TlsWritef) = 5
    /\ TlsWritef[1] = "check" /\ TlsWritef[2] = "lock" /\ TlsWritef[3] = "io"
    /\ TlsWritef[4] = "unlock" /\ TlsWritef[5] = "mark"
BY DEF TlsWrite, TlsWritef, StepNames

LEMMA LockSteps ==
    /\ <<"lock">> \in Seq(StepNames) /\ Len(<<"lock">>) = 1 /\ <<"lock">>[1] = "lock"
    /\ <<"unlock">> \in Seq(StepNames) /\ Len(<<"unlock">>) = 1 /\ <<"unlock">>[1] = "unlock"
BY DEF StepNames

LEMMA TransmitSteps ==
    LET P == Program("transmit")
    IN  /\ Len(P) = 5
        /\ P[1] = "lock" /\ P[2] = "check" /\ P[3] = "io" /\ P[4] = "mark" /\ P[5] = "unlock"
<1> DEFINE L == <<"lock">>
           U == <<"unlock">>
<1>1. /\ L \in Seq(StepNames) /\ Len(L) = 1 /\ L[1] = "lock"
      /\ U \in Seq(StepNames) /\ Len(U) = 1 /\ U[1] = "unlock"
  BY LockSteps
<1>2. Program("transmit") = (L \o TlsWrite) \o U
  BY DEF Program, Transmit
<1> HIDE DEF L, U
<1> DEFINE A == L \o TlsWrite
<1>3. /\ A \in Seq(StepNames) /\ Len(A) = Len(L) + Len(TlsWrite)
      /\ \A i \in 1 .. Len(L) : A[i] = L[i]
      /\ \A i \in 1 .. Len(TlsWrite) : A[Len(L) + i] = TlsWrite[i]
  BY <1>1, PieceSteps, Joined, Zenon
<1> HIDE DEF A
<1>4. /\ Len(A) = 4
      /\ A[1] = "lock" /\ A[2] = "check" /\ A[3] = "io" /\ A[4] = "mark"
  <2>1. Len(L) = 1 /\ Len(TlsWrite) = 3
    BY <1>1, PieceSteps
  <2>2. /\ Len(A) = 4
        /\ \A i \in 1 .. 1 : A[i] = L[i]
        /\ \A i \in 1 .. 3 : A[1 + i] = TlsWrite[i]
    BY <1>3, <2>1
  <2>3. A[1] = L[1]
    BY <2>2
  <2>4. A[1 + 1] = TlsWrite[1] /\ A[1 + 2] = TlsWrite[2] /\ A[1 + 3] = TlsWrite[3]
    BY <2>2
  <2>5. QED
    BY <1>1, PieceSteps, <2>2, <2>3, <2>4
<1> DEFINE B == A \o U
<1>5. /\ B \in Seq(StepNames) /\ Len(B) = Len(A) + Len(U)
      /\ \A i \in 1 .. Len(A) : B[i] = A[i]
      /\ \A i \in 1 .. Len(U) : B[Len(A) + i] = U[i]
  BY <1>1, <1>3, Joined, Zenon
<1> HIDE DEF B
<1>6. /\ Len(B) = 5
      /\ B[1] = "lock" /\ B[2] = "check" /\ B[3] = "io" /\ B[4] = "mark" /\ B[5] = "unlock"
  <2>1. Len(A) = 4 /\ Len(U) = 1
    BY <1>1, <1>4
  <2>2. /\ Len(B) = 5
        /\ \A i \in 1 .. 4 : B[i] = A[i]
        /\ \A i \in 1 .. 1 : B[4 + i] = U[i]
    BY <1>5, <2>1
  <2>3. B[1] = A[1] /\ B[2] = A[2] /\ B[3] = A[3] /\ B[4] = A[4]
    BY <2>2
  <2>4. B[4 + 1] = U[1]
    BY <2>2
  <2>5. QED
    BY <1>1, <1>4, <2>2, <2>3, <2>4
<1>7. Program("transmit") = B
  BY <1>2 DEF A, B
<1>8. QED
  BY <1>6, <1>7

LEMMA RespondSteps ==
    LET P == Program("respond")
    IN  /\ Len(P) = 13 /\ Len(StatusLine) = 8
        /\ P[1] = "lock" /\ P[2] = "check" /\ P[3] = "lock" /\ P[4] = "io" /\ P[5] = "unlock"
        /\ P[6] = "mark" /\ P[7] = "check" /\ P[8] = "io" /\ P[9] = "mark" /\ P[10] = "check"
        /\ P[11] = "io" /\ P[12] = "mark" /\ P[13] = "unlock"
<1> DEFINE L == <<"lock">>
           U == <<"unlock">>
<1>1. /\ L \in Seq(StepNames) /\ Len(L) = 1 /\ L[1] = "lock"
      /\ U \in Seq(StepNames) /\ Len(U) = 1 /\ U[1] = "unlock"
  BY LockSteps
<1>2. Program("respond") = ((L \o (TlsWritef \o TlsWrite)) \o TlsWrite) \o U
  BY DEF Program, Respond, StatusLine
<1> HIDE DEF L, U
<1> DEFINE S == TlsWritef \o TlsWrite
<1>3. /\ S \in Seq(StepNames) /\ Len(S) = Len(TlsWritef) + Len(TlsWrite)
      /\ \A i \in 1 .. Len(TlsWritef) : S[i] = TlsWritef[i]
      /\ \A i \in 1 .. Len(TlsWrite) : S[Len(TlsWritef) + i] = TlsWrite[i]
  BY PieceSteps, Joined, Zenon
<1> HIDE DEF S
<1>4. /\ Len(S) = 8
      /\ S[1] = "check" /\ S[2] = "lock" /\ S[3] = "io" /\ S[4] = "unlock" /\ S[5] = "mark"
      /\ S[6] = "check" /\ S[7] = "io" /\ S[8] = "mark"
  <2>1. Len(TlsWritef) = 5 /\ Len(TlsWrite) = 3
    BY PieceSteps
  <2>2. /\ Len(S) = 8
        /\ \A i \in 1 .. 5 : S[i] = TlsWritef[i]
        /\ \A i \in 1 .. 3 : S[5 + i] = TlsWrite[i]
    BY <1>3, <2>1
  <2>3. S[1] = TlsWritef[1] /\ S[2] = TlsWritef[2] /\ S[3] = TlsWritef[3] /\ S[4] =
           TlsWritef[4] /\ S[5] = TlsWritef[5]
    BY <2>2
  <2>4. S[5 + 1] = TlsWrite[1] /\ S[5 + 2] = TlsWrite[2] /\ S[5 + 3] = TlsWrite[3]
    BY <2>2
  <2>5. QED
    BY PieceSteps, <2>2, <2>3, <2>4
<1> DEFINE A == L \o S
<1>5. /\ A \in Seq(StepNames) /\ Len(A) = Len(L) + Len(S)
      /\ \A i \in 1 .. Len(L) : A[i] = L[i]
      /\ \A i \in 1 .. Len(S) : A[Len(L) + i] = S[i]
  BY <1>1, <1>3, Joined, Zenon
<1> HIDE DEF A
<1>6. /\ Len(A) = 9
      /\ A[1] = "lock" /\ A[2] = "check" /\ A[3] = "lock" /\ A[4] = "io" /\ A[5] = "unlock"
      /\ A[6] = "mark" /\ A[7] = "check" /\ A[8] = "io" /\ A[9] = "mark"
  <2>1. Len(L) = 1 /\ Len(S) = 8
    BY <1>1, <1>4
  <2>2. /\ Len(A) = 9
        /\ \A i \in 1 .. 1 : A[i] = L[i]
        /\ \A i \in 1 .. 8 : A[1 + i] = S[i]
    BY <1>5, <2>1
  <2>3. A[1] = L[1]
    BY <2>2
  <2>4. A[1 + 1] = S[1] /\ A[1 + 2] = S[2] /\ A[1 + 3] = S[3] /\ A[1 + 4] = S[4] /\ A[1
           + 5] = S[5] /\ A[1 + 6] = S[6] /\ A[1 + 7] = S[7] /\ A[1 + 8] = S[8]
    BY <2>2
  <2>5. QED
    BY <1>1, <1>4, <2>2, <2>3, <2>4
<1> DEFINE B == A \o TlsWrite
<1>7. /\ B \in Seq(StepNames) /\ Len(B) = Len(A) + Len(TlsWrite)
      /\ \A i \in 1 .. Len(A) : B[i] = A[i]
      /\ \A i \in 1 .. Len(TlsWrite) : B[Len(A) + i] = TlsWrite[i]
  BY PieceSteps, <1>5, Joined, Zenon
<1> HIDE DEF B
<1>8. /\ Len(B) = 12
      /\ B[1] = "lock" /\ B[2] = "check" /\ B[3] = "lock" /\ B[4] = "io" /\ B[5] = "unlock"
      /\ B[6] = "mark" /\ B[7] = "check" /\ B[8] = "io" /\ B[9] = "mark" /\ B[10] = "check"
      /\ B[11] = "io" /\ B[12] = "mark"
  <2>1. Len(A) = 9 /\ Len(TlsWrite) = 3
    BY PieceSteps, <1>6
  <2>2. /\ Len(B) = 12
        /\ \A i \in 1 .. 9 : B[i] = A[i]
        /\ \A i \in 1 .. 3 : B[9 + i] = TlsWrite[i]
    BY <1>7, <2>1
  <2>3. B[1] = A[1] /\ B[2] = A[2] /\ B[3] = A[3] /\ B[4] = A[4] /\ B[5] = A[5] /\ B[6]
           = A[6] /\ B[7] = A[7] /\ B[8] = A[8] /\ B[9] = A[9]
    BY <2>2
  <2>4. B[9 + 1] = TlsWrite[1] /\ B[9 + 2] = TlsWrite[2] /\ B[9 + 3] = TlsWrite[3]
    BY <2>2
  <2>5. QED
    BY PieceSteps, <1>6, <2>2, <2>3, <2>4
<1> DEFINE C == B \o U
<1>9. /\ C \in Seq(StepNames) /\ Len(C) = Len(B) + Len(U)
      /\ \A i \in 1 .. Len(B) : C[i] = B[i]
      /\ \A i \in 1 .. Len(U) : C[Len(B) + i] = U[i]
  BY <1>1, <1>7, Joined, ZenonT(30)
<1> HIDE DEF C
<1>10. /\ Len(C) = 13
      /\ C[1] = "lock" /\ C[2] = "check" /\ C[3] = "lock" /\ C[4] = "io" /\ C[5] = "unlock"
      /\ C[6] = "mark" /\ C[7] = "check" /\ C[8] = "io" /\ C[9] = "mark" /\ C[10] = "check"
      /\ C[11] = "io" /\ C[12] = "mark" /\ C[13] = "unlock"
  <2>1. Len(B) = 12 /\ Len(U) = 1
    BY <1>1, <1>8
  <2>2. /\ Len(C) = 13
        /\ \A i \in 1 .. 12 : C[i] = B[i]
        /\ \A i \in 1 .. 1 : C[12 + i] = U[i]
    BY <1>9, <2>1
  <2>3. C[1] = B[1] /\ C[2] = B[2] /\ C[3] = B[3] /\ C[4] = B[4] /\ C[5] = B[5] /\ C[6]
           = B[6] /\ C[7] = B[7] /\ C[8] = B[8] /\ C[9] = B[9] /\ C[10] = B[10] /\ C[11] =
           B[11] /\ C[12] = B[12]
    BY <2>2
  <2>4. C[12 + 1] = U[1]
    BY <2>2
  <2>5. QED
    BY <1>1, <1>8, <2>2, <2>3, <2>4
<1>11. Program("respond") = C /\ StatusLine = S
  BY <1>2 DEF StatusLine, S, A, B, C
<1>12. QED
  BY <1>4, <1>10, <1>11

LEMMA ReadSteps ==
    LET P == Program("read")
    IN  /\ Len(P) = 5
        /\ P[1] = "check" /\ P[2] = "lock" /\ P[3] = "io" /\ P[4] = "unlock" /\ P[5] = "mark"
BY DEF Program, TlsRead

LEMMA ShutdownSteps ==
    LET P == Program("shutdown")
    IN  Len(P) = 3 /\ P[1] = "lock" /\ P[2] = "io" /\ P[3] = "unlock"
BY DEF Program, TlsShutdown
-----------------------------------------------------------------------------
(* The same as a table: which step is where, and where it leads.           *)

Length(c) == CASE c = "respond" -> 13 [] c = "shutdown" -> 3 [] OTHER -> 5

LockAt(c, i) ==
    \/ c \in {"transmit", "respond", "shutdown"} /\ i = 1
    \/ c = "respond" /\ i = 3
    \/ c = "read" /\ i = 2

CheckAt(c, i) ==
    \/ c = "transmit" /\ i = 2
    \/ c = "respond" /\ i \in {2, 7, 10}
    \/ c = "read" /\ i = 1

IoAt(c, i) ==
    \/ c \in {"transmit", "read"} /\ i = 3
    \/ c = "respond" /\ i \in {4, 8, 11}
    \/ c = "shutdown" /\ i = 2

MarkAt(c, i) ==
    \/ c = "transmit" /\ i = 4
    \/ c = "respond" /\ i \in {6, 9, 12}
    \/ c = "read" /\ i = 5

UnlockAt(c, i) ==
    \/ c = "transmit" /\ i = 5
    \/ c = "respond" /\ i \in {5, 13}
    \/ c = "read" /\ i = 4
    \/ c = "shutdown" /\ i = 3

Succ(c, i) == IF i = Length(c) THEN 0 ELSE i + 1

BailTo(c, i) ==
    IF c = "respond" THEN IF i <= 9 THEN 10 ELSE 13
    ELSE IF c = "transmit" THEN 5 ELSE 0

LEMMA ProgramLength ==
    \A c \in AllCalls : Len(Program(c)) = Length(c)
BY TransmitSteps, RespondSteps, ReadSteps, ShutdownSteps DEF AllCalls, Length

LEMMA Jumps ==
    ASSUME NEW c \in AllCalls, NEW i \in Nat
    PROVE  After(c, i) = Succ(c, i) /\ Bail(c, i) = BailTo(c, i)
<1>1. After(c, i) = Succ(c, i)
  BY ProgramLength DEF After, Succ, Idle
<1>2. CASE c = "respond"
  <2>1. Len(Program(c)) = 13 /\ Len(StatusLine) = 8
    BY <1>2, RespondSteps
  <2>2. QED
    <3>1. CASE i <= 9
      BY <1>1, <1>2, <2>1, <3>1 DEF Bail, BailTo
    <3>2. CASE i > 9
      BY <1>1, <1>2, <2>1, <3>2 DEF Bail, BailTo
    <3>3. QED
      BY <3>1, <3>2
<1>3. CASE c = "transmit"
  BY <1>1, <1>3, TransmitSteps DEF Bail, BailTo
<1>4. CASE c \in {"read", "shutdown"}
  BY <1>1, <1>4 DEF Bail, BailTo, Idle
<1>5. QED
  BY <1>2, <1>3, <1>4 DEF AllCalls

LEMMA StepsAt ==
    ASSUME NEW c \in AllCalls, NEW i \in 1 .. Length(c)
    PROVE  /\ Program(c)[i] = "lock" <=> LockAt(c, i)
           /\ Program(c)[i] = "check" <=> CheckAt(c, i)
           /\ Program(c)[i] = "io" <=> IoAt(c, i)
           /\ Program(c)[i] = "mark" <=> MarkAt(c, i)
           /\ Program(c)[i] = "unlock" <=> UnlockAt(c, i)
<1>1. CASE c = "transmit"
  <2>1. i \in {1, 2, 3, 4, 5}
    BY <1>1 DEF Length
  <2>2. QED
    BY <1>1, <2>1, TransmitSteps DEF LockAt, CheckAt, IoAt, MarkAt, UnlockAt
<1>2. CASE c = "respond"
  <2>1. i \in {1, 2, 3, 4, 5, 6, 7, 8, 9, 10, 11, 12, 13}
    BY <1>2 DEF Length
  <2>2. QED
    BY <1>2, <2>1, RespondSteps DEF LockAt, CheckAt, IoAt, MarkAt, UnlockAt
<1>3. CASE c = "read"
  <2>1. i \in {1, 2, 3, 4, 5}
    BY <1>3 DEF Length
  <2>2. QED
    BY <1>3, <2>1, ReadSteps DEF LockAt, CheckAt, IoAt, MarkAt, UnlockAt
<1>4. CASE c = "shutdown"
  <2>1. i \in {1, 2, 3}
    BY <1>4 DEF Length
  <2>2. QED
    BY <1>4, <2>1, ShutdownSteps DEF LockAt, CheckAt, IoAt, MarkAt, UnlockAt
<1>5. QED
  BY <1>1, <1>2, <1>3, <1>4 DEF AllCalls

(* What the proof needs to know of a step: how many times the mutex is     *)
(* held at it, whether it lies behind the test of the dead flag and in     *)
(* front of what the test guards, whether an error may wait to be marked,  *)
(* and which write comes next.                                             *)

Held(c, i) ==
    CASE c = "transmit" -> IF i \in 2 .. 5 THEN 1 ELSE 0
      [] c = "respond"  -> IF i \in 4 .. 5 THEN 2 ELSE IF i \in 2 .. 13 THEN 1 ELSE 0
      [] c = "read"     -> IF i \in 3 .. 4 THEN 1 ELSE 0
      [] OTHER          -> IF i \in 2 .. 3 THEN 1 ELSE 0

Armed(c, i) ==
    \/ c = "transmit" /\ i = 3
    \/ c = "respond" /\ i \in {3, 4, 8, 11}
    \/ c = "read" /\ i \in {2, 3}

Due(c, i) ==
    \/ c = "transmit" /\ i = 4
    \/ c = "respond" /\ i \in {5, 6, 9, 12}

NextPart(c, i) ==
    IF c = "transmit" THEN IF i \in 1 .. 3 THEN 1 ELSE 2
    ELSE IF i \in 1 .. 4 THEN 1 ELSE IF i \in 5 .. 8 THEN 2 ELSE IF i \in 9 .. 11 THEN 3 ELSE 4

LEMMA LockMoves ==
    ASSUME NEW c, NEW i, LockAt(c, i)
    PROVE  LET j == Succ(c, i)
           IN  /\ j \in 1 .. Length(c)
               /\ Held(c, j) = Held(c, i) + 1
               /\ Armed(c, j) <=> Armed(c, i)
               /\ ~Due(c, i) /\ ~Due(c, j) /\ ~IoAt(c, i)
               /\ Writes(c) => NextPart(c, j) = NextPart(c, i)
               /\ Writes(c) /\ Held(c, i) = 0 => NextPart(c, i) = 1 /\ ~Armed(c, i)
BY DEF LockAt, IoAt, Succ, Length, Held, Armed, Due, NextPart, Writes

LEMMA UnlockMoves ==
    ASSUME NEW c, NEW i, UnlockAt(c, i)
    PROVE  LET j == Succ(c, i)
           IN  /\ j # Idle => j \in 1 .. Length(c)
               /\ Held(c, i) > 0 /\ Held(c, j) = Held(c, i) - 1
               /\ ~Armed(c, i) /\ ~Armed(c, j) /\ ~IoAt(c, i)
               /\ Due(c, i) <=> Due(c, j)
               /\ Writes(c) => NextPart(c, j) = NextPart(c, i)
               /\ c = "transmit" => NextPart(c, i) = 2
               /\ c = "respond" /\ Held(c, j) = 0 => NextPart(c, i) = 4
               /\ Writes(c) /\ Held(c, j) = 0 => ~Due(c, i)
<1>1. CASE c = "respond" /\ i = 5
  BY <1>1 DEF UnlockAt, IoAt, Succ, Length, Held, Armed, Due, NextPart, Writes, Idle
<1>2. CASE c = "respond" /\ i = 13
  BY <1>2 DEF UnlockAt, IoAt, Succ, Length, Held, Armed, Due, NextPart, Writes, Idle
<1>3. CASE c = "transmit"
  BY <1>3 DEF UnlockAt, IoAt, Succ, Length, Held, Armed, Due, NextPart, Writes, Idle
<1>4. CASE c = "read" \/ c = "shutdown"
  BY <1>4 DEF UnlockAt, IoAt, Succ, Length, Held, Armed, Due, NextPart, Writes, Idle
<1>5. QED
  BY <1>1, <1>2, <1>3, <1>4 DEF UnlockAt

LEMMA CheckMoves ==
    ASSUME NEW c, NEW i, CheckAt(c, i)
    PROVE  LET j == Succ(c, i)
               k == BailTo(c, i)
           IN  /\ j \in 1 .. Length(c)
               /\ k # Idle => k \in 1 .. Length(c)
               /\ Held(c, j) = Held(c, i) /\ Held(c, k) = Held(c, i)
               /\ ~Due(c, i) /\ ~Due(c, j) /\ ~Due(c, k)
               /\ ~Armed(c, i) /\ Armed(c, j) /\ ~Armed(c, k) /\ ~IoAt(c, i)
               /\ Writes(c) => NextPart(c, j) = NextPart(c, i)
               /\ c = "transmit" => NextPart(c, i) = 1 /\ NextPart(c, k) = 2
<1>1. CASE c = "respond"
  BY <1>1 DEF CheckAt, IoAt, Succ, BailTo, Length, Held, Armed, Due, NextPart, Writes, Idle
<1>2. CASE c # "respond"
  BY <1>2 DEF CheckAt, IoAt, Succ, BailTo, Length, Held, Armed, Due, NextPart, Writes, Idle
<1>3. QED
  BY <1>1, <1>2

LEMMA IoMoves ==
    ASSUME NEW c, NEW i, IoAt(c, i)
    PROVE  LET j == Succ(c, i)
           IN  /\ j \in 1 .. Length(c)
               /\ Held(c, i) > 0 /\ Held(c, j) = Held(c, i)
               /\ c # "shutdown" => Armed(c, i)
               /\ ~Armed(c, j) /\ ~Due(c, i)
               /\ Writes(c) => Due(c, j) /\ NextPart(c, j) = NextPart(c, i) + 1
               /\ c = "transmit" => NextPart(c, i) = 1
BY DEF IoAt, Succ, Length, Held, Armed, Due, NextPart, Writes

LEMMA MarkMoves ==
    ASSUME NEW c, NEW i, MarkAt(c, i)
    PROVE  LET j == Succ(c, i)
               k == BailTo(c, i)
           IN  /\ j # Idle => j \in 1 .. Length(c)
               /\ k # Idle => k \in 1 .. Length(c)
               /\ Held(c, j) = Held(c, i) /\ Held(c, k) = Held(c, i)
               /\ ~Due(c, j) /\ ~Due(c, k)
               /\ ~Armed(c, i) /\ ~Armed(c, j) /\ ~Armed(c, k) /\ ~IoAt(c, i)
               /\ Writes(c) => NextPart(c, j) = NextPart(c, i)
               /\ c = "transmit" => NextPart(c, i) = 2 /\ NextPart(c, k) = 2
<1>1. CASE c = "respond"
  BY <1>1 DEF MarkAt, IoAt, Succ, BailTo, Length, Held, Armed, Due, NextPart, Writes, Idle
<1>2. CASE c = "transmit"
  BY <1>2 DEF MarkAt, IoAt, Succ, BailTo, Length, Held, Armed, Due, NextPart, Writes, Idle
<1>3. CASE c = "read"
  BY <1>3 DEF MarkAt, IoAt, Succ, BailTo, Length, Held, Armed, Due, NextPart, Writes, Idle
<1>4. QED
  BY <1>1, <1>2, <1>3 DEF MarkAt

LEMMA PartsOf ==
    /\ Part("transmit", 3) = 1 /\ Parts("transmit") = 1
    /\ Part("respond", 4) = 1 /\ Part("respond", 8) = 2 /\ Part("respond", 11) = 3
    /\ Parts("respond") = 3
<1> DEFINE Ios(c, i) == {j \in 1 .. i : Program(c)[j] = "io"}
<1>1. ASSUME NEW c \in AllCalls, NEW i \in 0 .. Length(c)
      PROVE  Ios(c, i) = {j \in 1 .. i : IoAt(c, j)}
  <2>1. \A j \in 1 .. i : j \in 1 .. Length(c)
    BY DEF Length, AllCalls
  <2>2. QED
    BY <2>1, StepsAt
<1>2. Len(Program("transmit")) = 5 /\ Len(Program("respond")) = 13
  BY ProgramLength DEF Length, AllCalls
<1>3. Ios("transmit", 3) = {3} /\ Ios("transmit", 5) = {3}
  BY <1>1 DEF IoAt, Length, AllCalls
<1>4. /\ Ios("respond", 4) = {4} /\ Ios("respond", 8) = {4, 8}
      /\ Ios("respond", 11) = {4, 8, 11} /\ Ios("respond", 13) = {4, 8, 11}
  BY <1>1, SMTT(30) DEF IoAt, Length, AllCalls
<1>5. /\ Cardinality({3}) = 1 /\ Cardinality({4}) = 1
      /\ IsFiniteSet({4}) /\ IsFiniteSet({4, 8})
  <2>1. IsFiniteSet({4}) /\ {4, 8} = {4} \cup {8}
    BY FS_Singleton
  <2>2. IsFiniteSet({4} \cup {8})
    BY <2>1, FS_AddElement, Zenon
  <2>3. QED
    BY <2>1, <2>2, FS_Singleton
<1>6. Cardinality({4, 8}) = 2
  <2>1. {4, 8} = {4} \cup {8} /\ 8 \notin {4}
    OBVIOUS
  <2>2. QED
    BY <1>5, <2>1, FS_AddElement
<1>7. Cardinality({4, 8, 11}) = 3
  <2>1. {4, 8, 11} = {4, 8} \cup {11} /\ 11 \notin {4, 8}
    OBVIOUS
  <2>2. QED
    BY <1>5, <1>6, <2>1, FS_AddElement
<1>8. QED
  BY <1>2, <1>3, <1>4, <1>5, <1>6, <1>7 DEF Part, Parts

LEMMA PartIsNext ==
    ASSUME NEW c, NEW i, Writes(c), IoAt(c, i)
    PROVE  /\ Part(c, i) = NextPart(c, i)
           /\ Part(c, i) \in Nat /\ Part(c, i) >= 1
           /\ Parts(c) = (IF c = "transmit" THEN 1 ELSE 3)
           /\ Part(c, i) <= Parts(c)
BY PartsOf DEF Writes, IoAt, NextPart
-----------------------------------------------------------------------------
(* The invariant.                                                          *)

Pieces == [by : Threads, frame : Nat, parts : Nat, part : Nat, chunk : Nat]

ConnTypes ==
    /\ pc \in [Threads -> Nat]
    /\ call \in [Threads -> AllCalls \cup {None}]
    /\ calls \in [Threads -> Nat]
    /\ done \in [Threads -> 0 .. Chunks - 1]
    /\ failed \in [Threads -> BOOLEAN]
    /\ result \in [Threads -> Int]
    /\ owner \in Threads \cup {None}
    /\ depth \in Nat
    /\ dead \in BOOLEAN
    /\ wire \in Seq(Pieces)
    /\ late \in [Threads -> Nat]
    /\ \A t \in Threads : pc[t] # Idle => call[t] \in AllCalls /\ pc[t] \in 1 .. Length(call[t])

HeldBy(t) == Held(call[t], pc[t])

\* The mutex is held by the thread whose position says so, as many times as it
\* says.
LockInv ==
    /\ \A t \in Threads : HeldBy(t) > 0 => owner = t
    /\ owner # None => depth = HeldBy(owner) /\ depth > 0
    /\ owner = None => depth = 0

\* A write is unfinished only at its step, and an error waits for its mark.
StepInv ==
    \A t \in Threads :
        /\ done[t] > 0 => Writes(call[t]) /\ IoAt(call[t], pc[t])
        /\ Writes(call[t]) /\ failed[t] => Due(call[t], pc[t])

Last == wire[Len(wire)]
Complete == wire = <<>> \/ LastChunk(Last)

\* The wire ends where the next chunk of t has to go: behind a complete frame
\* if it is the first, behind the chunk before it otherwise.
Follows(t) ==
    LET p == NextPart(call[t], pc[t])
    IN  IF p = 1 /\ done[t] = 0 THEN Complete
        ELSE /\ wire # <<>>
             /\ Last = [by |-> t, frame |-> calls[t], parts |-> Parts(call[t]),
                        part |-> IF done[t] = 0 THEN p - 1 ELSE p,
                        chunk |-> IF done[t] = 0 THEN Chunks ELSE done[t]]

Writing(t) == Writes(call[t]) /\ HeldBy(t) > 0

\* A frame is cut short only if the flag is set, or about to be by the thread
\* that has the mutex; who has passed the test is where it belongs.
WireInv ==
    /\ \A t \in Threads : Writing(t) =>
           Follows(t) \/ (~Armed(call[t], pc[t]) /\ (dead \/ failed[t]))
    /\ (\A t \in Threads : ~Writing(t)) => Complete \/ dead

\* What a transmit returns, while it has not returned yet.
ResultInv ==
    /\ \A t \in Threads : call[t] = "transmit" =>
           IF NextPart(call[t], pc[t]) = 1
           THEN result[t] = 0 /\ Cardinality(OnWire(t)) = done[t]
           ELSE result[t] = 0 <=> Cardinality(OnWire(t)) = Chunks
    /\ \A i \in 1 .. Len(wire) : wire[i].frame <= calls[wire[i].by]

\* A thread that has begun an operation late does not come to another one.
LateInv ==
    \A t \in Threads : late[t] > 0 =>
        /\ late[t] = 1 /\ dead
        /\ Armed(call[t], pc[t]) => done[t] > 0

ConnInv == ConnTypes /\ LockInv /\ StepInv /\ WireInv /\ FramesWhole /\ ResultInv /\ LateInv
-----------------------------------------------------------------------------
(* Every step keeps it.                                                    *)

LEMMA HeldNat == \A c, i : Held(c, i) \in Nat
BY DEF Held

LEMMA WirePieces ==
    ASSUME ConnTypes
    PROVE  \A k \in 1 .. Len(wire) : wire[k].by \in Threads /\ wire[k].frame \in Nat
<1>1. wire \in Seq(Pieces)
  BY DEF ConnTypes
<1>2. \A k \in 1 .. Len(wire) : wire[k] \in Pieces
  BY <1>1
<1>3. \A x \in Pieces : x.by \in Threads /\ x.frame \in Nat
  BY DEF Pieces
<1>4. QED
  BY <1>2, <1>3

LEMMA AtStep ==
    ASSUME ConnTypes, NEW t \in Threads, pc[t] # Idle
    PROVE  LET c == call[t]
               i == pc[t]
           IN  /\ c \in AllCalls /\ i \in 1 .. Length(c) /\ i \in Nat
               /\ After(c, i) = Succ(c, i) /\ Bail(c, i) = BailTo(c, i)
               /\ At(t, "lock") <=> LockAt(c, i)
               /\ At(t, "check") <=> CheckAt(c, i)
               /\ At(t, "io") <=> IoAt(c, i)
               /\ At(t, "mark") <=> MarkAt(c, i)
               /\ At(t, "unlock") <=> UnlockAt(c, i)
BY StepsAt, Jumps DEF ConnTypes, At, Step

\* What a step that sends nothing means to another thread.
LEMMA Others ==
    ASSUME NEW u \in Threads, pc'[u] = pc[u], call'[u] = call[u], calls'[u] = calls[u],
           done'[u] = done[u], wire' = wire
    PROVE  /\ Writing(u)' <=> Writing(u)
           /\ Follows(u)' <=> Follows(u)
           /\ Complete' <=> Complete
BY DEF Writing, HeldBy, Follows, Complete, Last, LastChunk

LEMMA LockStep ==
    ASSUME ConnInv, NEW t \in Threads, Lock(t)
    PROVE  ConnInv'
<1> DEFINE c == call[t]
           i == pc[t]
           j == Succ(c, i)
<1>1. /\ LockAt(c, i)
      /\ pc' = [pc EXCEPT ![t] = j]
      /\ owner \in {None, t} /\ owner' = t /\ depth' = depth + 1
      /\ UNCHANGED <<call, calls, done, failed, result, dead, wire, late>>
  BY AtStep DEF Lock, At, Acquire, Goto, ConnInv
<1>2. /\ j \in 1 .. Length(c) /\ j \in Nat /\ c \in AllCalls
      /\ Held(c, j) = Held(c, i) + 1
      /\ Armed(c, j) <=> Armed(c, i)
      /\ ~Due(c, i) /\ ~Due(c, j) /\ ~IoAt(c, i)
      /\ Writes(c) => NextPart(c, j) = NextPart(c, i)
      /\ Writes(c) /\ Held(c, i) = 0 => NextPart(c, i) = 1 /\ ~Armed(c, i)
  BY <1>1, LockMoves, AtStep DEF Lock, At, ConnInv
<1>3. pc'[t] = j /\ \A u \in Threads : u # t => pc'[u] = pc[u]
  BY <1>1 DEF ConnInv, ConnTypes
<1> HIDE DEF j
<1>4. ConnTypes'
  BY <1>1, <1>2, <1>3 DEF ConnInv, ConnTypes
<1>5. LockInv'
  <2>1. owner = None => HeldBy(t) = 0
    BY ConnectionAssumption, HeldNat DEF ConnInv, LockInv, HeldBy
  <2>2. \A u \in Threads : u # t => HeldBy(u) = 0
    BY <1>1, ConnectionAssumption, HeldNat DEF ConnInv, LockInv, HeldBy
  <2>3. HeldBy(t)' = HeldBy(t) + 1 /\ \A u \in Threads : u # t => HeldBy(u)' = HeldBy(u)
    BY <1>1, <1>2, <1>3 DEF HeldBy
  <2>4. depth' = HeldBy(t)'
    BY <1>1, <2>1, <2>3 DEF ConnInv, LockInv
  <2>5. HeldBy(t) \in Nat
    BY HeldNat DEF HeldBy
  <2>6. QED
    BY <1>1, <2>2, <2>3, <2>4, <2>5, ConnectionAssumption DEF LockInv
<1>6. StepInv'
  BY <1>1, <1>2, <1>3 DEF ConnInv, ConnTypes, StepInv
<1>7. WireInv'
  <2>1. Complete' <=> Complete
    BY <1>1 DEF Complete, Last, LastChunk
  <2>2. \A u \in Threads : u # t => (Writing(u)' <=> Writing(u)) /\ (Follows(u)' <=> Follows(u))
    BY <1>1, <1>3, Others
  <2>3. Writing(t) => Writing(t)' /\ (Follows(t)' <=> Follows(t))
    BY <1>1, <1>2, <1>3, HeldNat DEF Writing, HeldBy, Follows, Complete, Last, LastChunk
  <2>4. ASSUME Writing(t)', ~Writing(t)
        PROVE  /\ \A u \in Threads : ~Writing(u)
               /\ ~Armed(c, j)
               /\ Follows(t)' <=> Complete
    <3>1. Writes(c) /\ Held(c, i) = 0
      BY <1>1, <2>4, HeldNat DEF Writing, HeldBy
    <3>2. done[t] = 0
      BY <1>2 DEF ConnInv, StepInv, ConnTypes
    <3>3. Follows(t)' <=> Complete
      BY <1>1, <1>2, <1>3, <2>1, <3>1, <3>2 DEF Follows
    <3>4. \A u \in Threads : ~Writing(u)
      BY <1>1, <2>4, ConnectionAssumption DEF ConnInv, LockInv, Writing
    <3>5. QED
      BY <1>2, <3>1, <3>3, <3>4
  <2>5. QED
    BY <1>1, <1>2, <1>3, <2>1, <2>2, <2>3, <2>4 DEF ConnInv, WireInv
<1>8. ResultInv'
  BY <1>1, <1>2, <1>3 DEF ConnInv, ResultInv, OnWire, Writes
<1>9. LateInv'
  BY <1>1, <1>2, <1>3 DEF ConnInv, LateInv
<1>10. FramesWhole'
  BY <1>1 DEF ConnInv, FramesWhole, FirstChunk, LastChunk, Continues
<1>11. QED
  BY <1>4, <1>5, <1>6, <1>7, <1>8, <1>9, <1>10 DEF ConnInv

LEMMA UnlockStep ==
    ASSUME ConnInv, NEW t \in Threads, Unlock(t)
    PROVE  ConnInv'
<1> DEFINE c == call[t]
           i == pc[t]
           j == Succ(c, i)
<1>1. /\ UnlockAt(c, i)
      /\ pc' = [pc EXCEPT ![t] = j]
      /\ depth' = depth - 1 /\ owner' = IF depth = 1 THEN None ELSE owner
      /\ UNCHANGED <<call, calls, done, failed, result, dead, wire, late>>
  BY AtStep DEF Unlock, At, Release, Goto, ConnInv
<1>2. /\ j # Idle => j \in 1 .. Length(c)
      /\ j \in Nat /\ c \in AllCalls
      /\ Held(c, i) > 0 /\ Held(c, j) = Held(c, i) - 1
      /\ ~Armed(c, i) /\ ~Armed(c, j) /\ ~IoAt(c, i)
      /\ Due(c, i) <=> Due(c, j)
      /\ Writes(c) => NextPart(c, j) = NextPart(c, i)
      /\ c = "transmit" => NextPart(c, i) = 2
      /\ c = "respond" /\ Held(c, j) = 0 => NextPart(c, i) = 4
      /\ Writes(c) /\ Held(c, j) = 0 => ~Due(c, i)
  BY <1>1, UnlockMoves, AtStep DEF Unlock, At, ConnInv, Idle
<1>3. pc'[t] = j /\ \A u \in Threads : u # t => pc'[u] = pc[u]
  BY <1>1 DEF ConnInv, ConnTypes
<1> HIDE DEF j
<1>4. owner = t /\ depth = Held(c, i) /\ Held(c, i) \in Nat
  BY <1>2, HeldNat, ConnectionAssumption DEF ConnInv, LockInv, HeldBy
<1>5. done[t] = 0
  BY <1>2 DEF ConnInv, StepInv, ConnTypes
<1>6. ConnTypes'
  BY <1>1, <1>2, <1>3, <1>4 DEF ConnInv, ConnTypes
<1>7. LockInv'
  <2>1. \A u \in Threads : u # t => HeldBy(u) = 0
    BY <1>4, ConnectionAssumption, HeldNat DEF ConnInv, LockInv, HeldBy
  <2>2. HeldBy(t)' = Held(c, i) - 1 /\ \A u \in Threads : u # t => HeldBy(u)' = HeldBy(u)
    BY <1>1, <1>2, <1>3 DEF HeldBy
  <2>3. QED
    BY <1>1, <1>2, <1>4, <2>1, <2>2, ConnectionAssumption DEF LockInv
<1>8. StepInv'
  BY <1>1, <1>2, <1>3, <1>5 DEF ConnInv, ConnTypes, StepInv
<1>9. WireInv'
  <2>1. Complete' <=> Complete
    BY <1>1 DEF Complete, Last, LastChunk
  <2>2. \A u \in Threads : u # t => (Writing(u)' <=> Writing(u)) /\ (Follows(u)' <=> Follows(u))
    BY <1>1, <1>3, Others
  <2>3. Writing(t)' => Writing(t) /\ (Follows(t)' <=> Follows(t))
    BY <1>1, <1>2, <1>3, HeldNat DEF Writing, HeldBy, Follows, Complete, Last, LastChunk
  <2>4. ASSUME Writing(t), ~Writing(t)'
        PROVE  Complete \/ dead
    <3>1. Writes(c) /\ Held(c, j) = 0
      BY <1>1, <1>3, <2>4, HeldNat DEF Writing, HeldBy
    <3>2. ~failed[t]
      BY <1>2, <3>1 DEF ConnInv, StepInv
    <3>3. CASE Follows(t)
      <4>1. CASE c = "transmit"
        <5>1. Parts(c) = 1 /\ NextPart(c, i) = 2
          BY <1>2, <4>1, PartsOf
        <5>2. QED
          BY <1>5, <3>3, <5>1 DEF Follows, Complete, LastChunk
      <4>2. CASE c = "respond"
        <5>1. Parts(c) = 3 /\ NextPart(c, i) = 4
          BY <1>2, <3>1, <4>2, PartsOf
        <5>2. QED
          BY <1>5, <3>3, <5>1 DEF Follows, Complete, LastChunk
      <4>3. QED
        BY <3>1, <4>1, <4>2 DEF Writes
    <3>4. QED
      BY <2>4, <3>2, <3>3 DEF ConnInv, WireInv
  <2>5. QED
    BY <1>1, <1>2, <1>3, <2>1, <2>2, <2>3, <2>4 DEF ConnInv, WireInv
<1>10. ResultInv'
  BY <1>1, <1>2, <1>3 DEF ConnInv, ResultInv, OnWire, Writes
<1>11. LateInv'
  BY <1>1, <1>2, <1>3 DEF ConnInv, LateInv
<1>12. FramesWhole'
  BY <1>1 DEF ConnInv, FramesWhole, FirstChunk, LastChunk, Continues
<1>13. QED
  BY <1>6, <1>7, <1>8, <1>9, <1>10, <1>11, <1>12 DEF ConnInv

\* The steps that leave the mutex alone.
LEMMA SameLock ==
    ASSUME LockInv, UNCHANGED <<owner, depth>>, owner \in Threads \cup {None},
           \A u \in Threads : HeldBy(u)' = HeldBy(u)
    PROVE  LockInv'
BY DEF LockInv

LEMMA CheckStep ==
    ASSUME ConnInv, NEW t \in Threads, Check(t)
    PROVE  ConnInv'
<1> DEFINE c == call[t]
           i == pc[t]
           j == IF dead THEN BailTo(c, i) ELSE Succ(c, i)
<1>1. /\ CheckAt(c, i)
      /\ pc' = [pc EXCEPT ![t] = j]
      /\ result' = IF dead THEN [result EXCEPT ![t] = ErrorResult(c, @)] ELSE result
      /\ UNCHANGED <<call, calls, done, failed, owner, depth, dead, wire, late>>
  BY AtStep DEF Check, At, Goto, ConnInv
<1>2. /\ j # Idle => j \in 1 .. Length(c)
      /\ j \in Nat /\ c \in AllCalls
      /\ Held(c, j) = Held(c, i)
      /\ ~Due(c, i) /\ ~Due(c, j) /\ ~IoAt(c, i)
      /\ Armed(c, j) <=> ~dead
      /\ ~dead /\ Writes(c) => NextPart(c, j) = NextPart(c, i)
      /\ c = "transmit" => NextPart(c, i) = 1
      /\ c = "transmit" /\ dead => NextPart(c, j) = 2
  BY <1>1, CheckMoves, AtStep DEF Check, At, ConnInv, Idle
<1>3. pc'[t] = j /\ \A u \in Threads : u # t => pc'[u] = pc[u]
  BY <1>1 DEF ConnInv, ConnTypes
<1> HIDE DEF j
<1>4. done[t] = 0 /\ (Writes(c) => ~failed[t])
  BY <1>2 DEF ConnInv, StepInv, ConnTypes
<1>5. ConnTypes'
  BY <1>1, <1>2, <1>3, SMTT(30) DEF ConnInv, ConnTypes, ErrorResult
<1>6. LockInv'
  <2>1. \A u \in Threads : HeldBy(u)' = HeldBy(u)
    BY <1>1, <1>2, <1>3 DEF HeldBy
  <2>2. QED
    BY <1>1, <2>1, SameLock DEF ConnInv, ConnTypes
<1>7. StepInv'
  BY <1>1, <1>2, <1>3, <1>4 DEF ConnInv, ConnTypes, StepInv
<1>8. WireInv'
  <2>1. Complete' <=> Complete
    BY <1>1 DEF Complete, Last, LastChunk
  <2>2. \A u \in Threads : u # t => (Writing(u)' <=> Writing(u)) /\ (Follows(u)' <=> Follows(u))
    BY <1>1, <1>3, Others
  <2>3. /\ Writing(t)' <=> Writing(t)
        /\ Writing(t) /\ ~dead => (Follows(t)' <=> Follows(t))
    BY <1>1, <1>2, <1>3, <2>1 DEF Writing, HeldBy, Follows, Last
  <2>4. QED
    BY <1>1, <1>2, <1>3, <1>4, <2>1, <2>2, <2>3 DEF ConnInv, WireInv, Writing
<1>9. ResultInv'
  <2>1. \A u \in Threads : OnWire(u)' = OnWire(u)
    BY <1>1 DEF OnWire
  <2>2. \A u \in Threads : u # t => result'[u] = result[u]
    BY <1>1 DEF ConnInv, ConnTypes
  <2>3. ASSUME c = "transmit", dead
        PROVE  result'[t] = -1 /\ Cardinality(OnWire(t)) = 0 /\ NextPart(c, j) = 2
    BY <1>1, <1>2, <1>4, <2>3 DEF ConnInv, ConnTypes, ResultInv, ErrorResult
  <2>4. ASSUME c = "transmit", ~dead
        PROVE  result'[t] = result[t] /\ NextPart(c, j) = NextPart(c, i)
    BY <1>1, <1>2, <2>4 DEF Writes
  <2>5. QED
    BY <1>1, <1>2, <1>3, <2>1, <2>2, <2>3, <2>4, ConnectionAssumption DEF ConnInv, ResultInv
<1>10. LateInv'
  BY <1>1, <1>2, <1>3 DEF ConnInv, LateInv
<1>11. FramesWhole'
  BY <1>1 DEF ConnInv, FramesWhole, FirstChunk, LastChunk, Continues
<1>12. QED
  BY <1>5, <1>6, <1>7, <1>8, <1>9, <1>10, <1>11 DEF ConnInv

LEMMA MarkStep ==
    ASSUME ConnInv, NEW t \in Threads, Mark(t)
    PROVE  ConnInv'
<1> DEFINE c == call[t]
           i == pc[t]
           j == IF failed[t] THEN BailTo(c, i) ELSE Succ(c, i)
<1>1. /\ MarkAt(c, i)
      /\ pc' = [pc EXCEPT ![t] = j]
      /\ dead' = (dead \/ failed[t])
      /\ failed' = [failed EXCEPT ![t] = FALSE]
      /\ UNCHANGED <<call, calls, done, result, owner, depth, wire, late>>
  BY AtStep DEF Mark, At, Goto, ConnInv
<1>2. /\ j # Idle => j \in 1 .. Length(c)
      /\ j \in Nat /\ c \in AllCalls
      /\ Held(c, j) = Held(c, i)
      /\ ~Due(c, j) /\ ~Armed(c, i) /\ ~Armed(c, j) /\ ~IoAt(c, i)
      /\ ~failed[t] /\ Writes(c) => NextPart(c, j) = NextPart(c, i)
      /\ c = "transmit" => NextPart(c, i) = 2 /\ NextPart(c, j) = 2
  BY <1>1, MarkMoves, AtStep DEF Mark, At, ConnInv, Idle, Writes
<1>3. /\ pc'[t] = j /\ \A u \in Threads : u # t => pc'[u] = pc[u]
      /\ failed'[t] = FALSE /\ \A u \in Threads : u # t => failed'[u] = failed[u]
  BY <1>1 DEF ConnInv, ConnTypes
<1> HIDE DEF j
<1>4. done[t] = 0
  BY <1>2 DEF ConnInv, StepInv, ConnTypes
<1>5. ConnTypes'
  BY <1>1, <1>2, <1>3 DEF ConnInv, ConnTypes
<1>6. LockInv'
  <2>1. \A u \in Threads : HeldBy(u)' = HeldBy(u)
    BY <1>1, <1>2, <1>3 DEF HeldBy
  <2>2. QED
    BY <1>1, <2>1, SameLock DEF ConnInv, ConnTypes
<1>7. StepInv'
  BY <1>1, <1>2, <1>3, <1>4 DEF ConnInv, ConnTypes, StepInv
<1>8. WireInv'
  <2>1. Complete' <=> Complete
    BY <1>1 DEF Complete, Last, LastChunk
  <2>2. \A u \in Threads : u # t => (Writing(u)' <=> Writing(u)) /\ (Follows(u)' <=> Follows(u))
    BY <1>1, <1>3, Others
  <2>3. /\ Writing(t)' <=> Writing(t)
        /\ Writing(t) /\ ~failed[t] => (Follows(t)' <=> Follows(t))
    BY <1>1, <1>2, <1>3, <2>1 DEF Writing, HeldBy, Follows, Last
  <2>4. QED
    BY <1>1, <1>2, <1>3, <2>1, <2>2, <2>3 DEF ConnInv, WireInv
<1>9. ResultInv'
  <2>1. \A u \in Threads : OnWire(u)' = OnWire(u)
    BY <1>1 DEF OnWire
  <2>2. QED
    BY <1>1, <1>2, <1>3, <2>1 DEF ConnInv, ResultInv
<1>10. LateInv'
  BY <1>1, <1>2, <1>3 DEF ConnInv, LateInv
<1>11. FramesWhole'
  BY <1>1 DEF ConnInv, FramesWhole, FirstChunk, LastChunk, Continues
<1>12. QED
  BY <1>5, <1>6, <1>7, <1>8, <1>9, <1>10, <1>11 DEF ConnInv

\* A read or write that begins is the first one that its thread begins late.
LEMMA LateOnce ==
    ASSUME ConnInv, NEW t \in Threads, IoAt(call[t], pc[t]), CountLate(t), UNCHANGED <<call, dead>>,
           \A u \in Threads : u # t => pc'[u] = pc[u] /\ done'[u] = done[u],
           Armed(call[t], pc'[t]) => done'[t] > 0
    PROVE  LateInv' /\ late' \in [Threads -> Nat]
<1>1. late' \in [Threads -> Nat]
  BY SMTT(30) DEF CountLate, ConnInv, ConnTypes
<1>2. CASE dead /\ done[t] = 0 /\ call[t] # "shutdown"
  <2>1. late[t] = 0
    <3>1. Armed(call[t], pc[t])
      BY <1>2, IoMoves
    <3>2. ~(late[t] > 0)
      BY <1>2, <3>1 DEF ConnInv, LateInv
    <3>3. late[t] \in Nat
      BY DEF ConnInv, ConnTypes
    <3>4. QED
      BY <3>2, <3>3
  <2>2. late' = [late EXCEPT ![t] = 1]
    BY <1>2, <2>1 DEF CountLate, ConnInv, ConnTypes
  <2>3. QED
    <3>1. late'[t] = 1 /\ \A u \in Threads : u # t => late'[u] = late[u]
      BY <2>2 DEF ConnInv, ConnTypes
    <3>2. QED
      BY <1>1, <1>2, <3>1 DEF ConnInv, LateInv
<1>3. CASE ~(dead /\ done[t] = 0 /\ call[t] # "shutdown")
  <2>1. late' = late
    BY <1>3 DEF CountLate
  <2>2. QED
    BY <1>1, <2>1 DEF ConnInv, LateInv
<1>4. QED
  BY <1>2, <1>3

LEMMA IoReturnStep ==
    ASSUME ConnInv, NEW t \in Threads, IoReturn(t)
    PROVE  ConnInv'
<1> DEFINE c == call[t]
           i == pc[t]
           j == Succ(c, i)
<1>1. /\ IoAt(c, i) /\ ~Writes(c)
      /\ pc' = [pc EXCEPT ![t] = j]
      /\ CountLate(t)
      /\ UNCHANGED <<call, calls, done, failed, result, owner, depth, dead, wire>>
  BY AtStep DEF IoReturn, At, Goto, ConnInv
<1>2. /\ j \in 1 .. Length(c) /\ j \in Nat /\ c \in AllCalls
      /\ Held(c, j) = Held(c, i)
      /\ ~Armed(c, j)
  BY <1>1, IoMoves, AtStep DEF IoReturn, At, ConnInv
<1>3. pc'[t] = j /\ \A u \in Threads : u # t => pc'[u] = pc[u]
  BY <1>1 DEF ConnInv, ConnTypes
<1> HIDE DEF j
<1>4. LateInv' /\ late' \in [Threads -> Nat]
  BY <1>1, <1>2, <1>3, LateOnce
<1>5. ConnTypes'
  BY <1>1, <1>2, <1>3, <1>4 DEF ConnInv, ConnTypes
<1>6. LockInv'
  <2>1. \A u \in Threads : HeldBy(u)' = HeldBy(u)
    BY <1>1, <1>2, <1>3 DEF HeldBy
  <2>2. QED
    BY <1>1, <2>1, SameLock DEF ConnInv, ConnTypes
<1>7. StepInv'
  BY <1>1, <1>3 DEF ConnInv, StepInv
<1>8. WireInv'
  <2>1. Complete' <=> Complete
    BY <1>1 DEF Complete, Last, LastChunk
  <2>2. \A u \in Threads : u # t => (Writing(u)' <=> Writing(u)) /\ (Follows(u)' <=> Follows(u))
    BY <1>1, <1>3, Others
  <2>3. ~Writing(t) /\ ~Writing(t)'
    BY <1>1 DEF Writing
  <2>4. QED
    BY <1>1, <1>3, <2>1, <2>2, <2>3 DEF ConnInv, WireInv
<1>9. ResultInv'
  BY <1>1, <1>3 DEF ConnInv, ResultInv, OnWire, Writes
<1>10. FramesWhole'
  BY <1>1 DEF ConnInv, FramesWhole, FirstChunk, LastChunk, Continues
<1>11. QED
  BY <1>4, <1>5, <1>6, <1>7, <1>8, <1>9, <1>10 DEF ConnInv

LEMMA IoErrorStep ==
    ASSUME ConnInv, NEW t \in Threads, IoError(t)
    PROVE  ConnInv'
<1> DEFINE c == call[t]
           i == pc[t]
           j == Succ(c, i)
<1>1. /\ IoAt(c, i)
      /\ pc' = [pc EXCEPT ![t] = j]
      /\ failed' = [failed EXCEPT ![t] = TRUE]
      /\ result' = [result EXCEPT ![t] = ErrorResult(c, @)]
      /\ done' = [done EXCEPT ![t] = 0]
      /\ CountLate(t)
      /\ UNCHANGED <<call, calls, owner, depth, dead, wire>>
  BY AtStep DEF IoError, At, Goto, ConnInv
<1>2. /\ j \in 1 .. Length(c) /\ j \in Nat /\ c \in AllCalls
      /\ Held(c, j) = Held(c, i)
      /\ ~Armed(c, j)
      /\ Writes(c) => Due(c, j) /\ NextPart(c, j) = NextPart(c, i) + 1
      /\ c = "transmit" => NextPart(c, i) = 1
  BY <1>1, IoMoves, AtStep DEF IoError, At, ConnInv
<1>3. /\ pc'[t] = j /\ failed'[t] = TRUE /\ done'[t] = 0
      /\ result'[t] = ErrorResult(c, result[t])
      /\ \A u \in Threads : u # t => /\ pc'[u] = pc[u] /\ failed'[u] = failed[u]
                                     /\ done'[u] = done[u] /\ result'[u] = result[u]
  BY <1>1 DEF ConnInv, ConnTypes
<1> HIDE DEF j
<1>4. LateInv' /\ late' \in [Threads -> Nat]
  BY <1>1, <1>2, <1>3, LateOnce
<1>5. ConnTypes'
  <2>1. /\ done' \in [Threads -> 0 .. Chunks - 1]
        /\ failed' \in [Threads -> BOOLEAN]
        /\ result' \in [Threads -> Int]
    BY <1>1, ConnectionAssumption DEF ConnInv, ConnTypes, ErrorResult
  <2>2. pc' \in [Threads -> Nat]
    BY <1>1, <1>2 DEF ConnInv, ConnTypes
  <2>3. QED
    BY <1>1, <1>2, <1>3, <1>4, <2>1, <2>2 DEF ConnInv, ConnTypes
<1>6. LockInv'
  <2>1. \A u \in Threads : HeldBy(u)' = HeldBy(u)
    BY <1>1, <1>2, <1>3 DEF HeldBy
  <2>2. QED
    BY <1>1, <2>1, SameLock DEF ConnInv, ConnTypes
<1>7. StepInv'
  BY <1>1, <1>2, <1>3 DEF ConnInv, StepInv
<1>8. WireInv'
  <2>1. Complete' <=> Complete
    BY <1>1 DEF Complete, Last, LastChunk
  <2>2. \A u \in Threads : u # t => (Writing(u)' <=> Writing(u)) /\ (Follows(u)' <=> Follows(u))
    BY <1>1, <1>3, Others
  <2>3. Writing(t)' <=> Writing(t)
    BY <1>1, <1>2, <1>3 DEF Writing, HeldBy
  <2>4. QED
    BY <1>1, <1>2, <1>3, <2>1, <2>2, <2>3 DEF ConnInv, WireInv
<1>9. ResultInv'
  <2>1. \A u \in Threads : OnWire(u)' = OnWire(u)
    BY <1>1 DEF OnWire
  <2>2. ASSUME c = "transmit"
        PROVE  /\ result'[t] = -1 /\ NextPart(c, j) = 2
               /\ Cardinality(OnWire(t)) = done[t] /\ done[t] < Chunks
    BY <1>2, <1>3, <2>2, ConnectionAssumption DEF ConnInv, ConnTypes, ResultInv, ErrorResult, Writes
  <2>3. QED
    BY <1>1, <1>3, <2>1, <2>2 DEF ConnInv, ConnTypes, ResultInv
<1>10. FramesWhole'
  BY <1>1 DEF ConnInv, FramesWhole, FirstChunk, LastChunk, Continues
<1>11. QED
  BY <1>4, <1>5, <1>6, <1>7, <1>8, <1>9, <1>10 DEF ConnInv

LEMMA BeginStep ==
    ASSUME ConnInv, NEW t \in Threads, NEW c \in Calls, Begin(t, c)
    PROVE  ConnInv'
<1>1. /\ pc[t] = Idle
      /\ pc' = [pc EXCEPT ![t] = 1]
      /\ call' = [call EXCEPT ![t] = c]
      /\ calls' = [calls EXCEPT ![t] = @ + 1]
      /\ done' = [done EXCEPT ![t] = 0]
      /\ failed' = [failed EXCEPT ![t] = FALSE]
      /\ result' = [result EXCEPT ![t] = 0]
      /\ UNCHANGED <<owner, depth, dead, wire, late>>
  BY DEF Begin
<1>2. /\ c \in AllCalls /\ 1 \in 1 .. Length(c)
      /\ Held(c, 1) = 0 /\ Held(call[t], pc[t]) = 0
      /\ ~Armed(c, 1) /\ NextPart(c, 1) = 1
  BY <1>1, ConnectionAssumption DEF Length, Held, Armed, NextPart, Idle
<1>3. /\ pc'[t] = 1 /\ call'[t] = c /\ calls'[t] = calls[t] + 1 /\ done'[t] = 0
      /\ failed'[t] = FALSE /\ result'[t] = 0
      /\ \A u \in Threads : u # t =>
             /\ pc'[u] = pc[u] /\ call'[u] = call[u] /\ calls'[u] = calls[u]
             /\ done'[u] = done[u] /\ failed'[u] = failed[u] /\ result'[u] = result[u]
  BY <1>1 DEF ConnInv, ConnTypes
<1>4. ConnTypes'
  <2>1. /\ pc' \in [Threads -> Nat] /\ calls' \in [Threads -> Nat]
        /\ call' \in [Threads -> AllCalls \cup {None}]
        /\ done' \in [Threads -> 0 .. Chunks - 1]
        /\ failed' \in [Threads -> BOOLEAN]
        /\ result' \in [Threads -> Int]
    BY <1>1, <1>2, ConnectionAssumption DEF ConnInv, ConnTypes
  <2>2. QED
    BY <1>1, <1>2, <1>3, <2>1 DEF ConnInv, ConnTypes
<1>5. LockInv'
  <2>1. \A u \in Threads : HeldBy(u)' = HeldBy(u)
    BY <1>2, <1>3 DEF HeldBy
  <2>2. QED
    BY <1>1, <2>1, SameLock DEF ConnInv, ConnTypes
<1>6. StepInv'
  BY <1>3 DEF ConnInv, StepInv
<1>7. WireInv'
  <2>1. Complete' <=> Complete
    BY <1>1 DEF Complete, Last, LastChunk
  <2>2. \A u \in Threads : u # t => (Writing(u)' <=> Writing(u)) /\ (Follows(u)' <=> Follows(u))
    BY <1>1, <1>3, Others
  <2>3. ~Writing(t) /\ ~Writing(t)'
    BY <1>2, <1>3 DEF Writing, HeldBy
  <2>4. QED
    BY <1>1, <1>3, <2>1, <2>2, <2>3 DEF ConnInv, WireInv
<1>8. ResultInv'
  <2>1. \A k \in 1 .. Len(wire) : wire[k].by \in Threads /\ wire[k].frame \in Nat
    BY WirePieces DEF ConnInv
  <2>2. ASSUME NEW k \in 1 .. Len(wire)
        PROVE  wire[k].frame <= calls'[wire[k].by]
    <3>1. wire[k].frame <= calls[wire[k].by] /\ wire[k].by \in Threads /\ wire[k].frame \in Nat
      BY <2>1 DEF ConnInv, ResultInv
    <3>2. \A u \in Threads : calls[u] \in Nat /\ (calls'[u] = calls[u] \/ calls'[u] = calls[u] + 1)
      BY <1>3 DEF ConnInv, ConnTypes
    <3>3. \A u \in Threads, n \in Nat : n <= calls[u] => n <= calls'[u]
      BY <3>2
    <3>4. QED
      BY <3>1, <3>3
  <2>3. \A u \in Threads : u # t => OnWire(u)' = OnWire(u)
    <3>1. wire' = wire
      BY <1>1
    <3>2. SUFFICES ASSUME NEW u \in Threads, u # t
                   PROVE  OnWire(u)' = OnWire(u)
      OBVIOUS
    <3>3. calls'[u] = calls[u]
      BY <1>3, <3>2
    <3>4. QED
      BY <3>1, <3>3 DEF OnWire
  <2>4. OnWire(t)' = {}
    <3>1. wire' = wire /\ calls'[t] = calls[t] + 1 /\ calls[t] \in Nat
      BY <1>1, <1>3 DEF ConnInv, ConnTypes
    <3>2. ASSUME NEW k \in 1 .. Len(wire), wire[k].by = t
          PROVE  wire[k].frame # calls'[t]
      <4>1. wire[k].frame <= calls[t] /\ wire[k].frame \in Nat
        BY <2>1, <3>2 DEF ConnInv, ResultInv
      <4>2. QED
        BY <3>1, <4>1
    <3>3. QED
      BY <3>1, <3>2 DEF OnWire
  <2>5. Cardinality(OnWire(t)') = 0
    BY <2>4, FS_EmptySet
  <2>6. QED
    BY <1>1, <1>2, <1>3, <2>2, <2>3, <2>5 DEF ConnInv, ResultInv
<1>9. LateInv'
  BY <1>1, <1>2, <1>3 DEF ConnInv, LateInv
<1>10. FramesWhole'
  BY <1>1 DEF ConnInv, FramesWhole, FirstChunk, LastChunk, Continues
<1>11. QED
  BY <1>4, <1>5, <1>6, <1>7, <1>8, <1>9, <1>10 DEF ConnInv

LEMMA IoChunkStep ==
    ASSUME ConnInv, NEW t \in Threads, IoChunk(t)
    PROVE  ConnInv'
<1> DEFINE c == call[t]
           i == pc[t]
           d == done[t]
           full == d + 1 = Chunks
           j == IF full THEN Succ(c, i) ELSE i
           new == Chunk(t)
<1>1. /\ IoAt(c, i) /\ Writes(c)
      /\ wire' = Append(wire, new)
      /\ pc' = [pc EXCEPT ![t] = j]
      /\ done' = [done EXCEPT ![t] = IF full THEN 0 ELSE d + 1]
      /\ result' = IF full /\ c = "respond" THEN [result EXCEPT ![t] = @ + Chunks] ELSE result
      /\ CountLate(t)
      /\ UNCHANGED <<call, calls, failed, owner, depth, dead>>
  BY AtStep DEF IoChunk, At, Goto, ConnInv, ConnTypes
<1>2. /\ i \in 1 .. Length(c) /\ j \in 1 .. Length(c) /\ j \in Nat /\ c \in AllCalls
      /\ Held(c, i) > 0 /\ Held(c, j) = Held(c, i)
      /\ Armed(c, i) /\ ~Due(c, i)
      /\ full => ~Armed(c, j) /\ NextPart(c, j) = NextPart(c, i) + 1
      /\ c = "transmit" => NextPart(c, i) = 1
  BY <1>1, IoMoves, AtStep DEF IoChunk, At, ConnInv, Writes
<1>3. /\ pc'[t] = j /\ done'[t] = IF full THEN 0 ELSE d + 1
      /\ \A u \in Threads : u # t =>
             pc'[u] = pc[u] /\ done'[u] = done[u] /\ result'[u] = result[u]
      /\ c = "transmit" => result'[t] = result[t]
      /\ ~full => j = i
  BY <1>1 DEF ConnInv, ConnTypes
<1>4. /\ new = [by |-> t, frame |-> calls[t], parts |-> Parts(c),
                part |-> NextPart(c, i), chunk |-> d + 1]
      /\ NextPart(c, i) \in Nat /\ NextPart(c, i) >= 1
      /\ Parts(c) = (IF c = "transmit" THEN 1 ELSE 3)
  BY <1>1, PartIsNext DEF Chunk
<1>5. d \in Nat /\ d < Chunks /\ Chunks \in Nat /\ Chunks > 0
  BY ConnectionAssumption DEF ConnInv, ConnTypes
<1> HIDE DEF j, full, new, d
<1>6. new \in Pieces
  BY <1>4, <1>5 DEF Pieces, ConnInv, ConnTypes
<1>7. /\ wire' \in Seq(Pieces) /\ Len(wire') = Len(wire) + 1
      /\ wire'[Len(wire) + 1] = new
      /\ \A k \in 1 .. Len(wire) : wire'[k] = wire[k]
  BY <1>1, <1>6 DEF ConnInv, ConnTypes
<1>8. LateInv' /\ late' \in [Threads -> Nat]
  BY <1>1, <1>2, <1>3, <1>5, LateOnce
<1>9. Last' = new /\ wire' # <<>>
  BY <1>7, <1>1 DEF Last, ConnInv, ConnTypes
<1>10. owner = t /\ \A u \in Threads : Writing(u) => u = t
  BY <1>2, ConnectionAssumption DEF ConnInv, LockInv, HeldBy, Writing
<1>11. Follows(t)
  BY <1>1, <1>2 DEF ConnInv, WireInv, Writing, HeldBy
<1>12. ConnTypes'
  <2>1. /\ pc' \in [Threads -> Nat]
        /\ done' \in [Threads -> 0 .. Chunks - 1]
        /\ result' \in [Threads -> Int]
    BY <1>1, <1>2, <1>5 DEF ConnInv, ConnTypes, full
  <2>2. QED
    BY <1>1, <1>2, <1>3, <1>7, <1>8, <2>1 DEF ConnInv, ConnTypes
<1>13. LockInv'
  <2>1. \A u \in Threads : HeldBy(u)' = HeldBy(u)
    BY <1>1, <1>2, <1>3 DEF HeldBy
  <2>2. QED
    BY <1>1, <2>1, SameLock DEF ConnInv, ConnTypes
<1>14. StepInv'
  <2>1. ~failed[t]
    BY <1>1, <1>2 DEF ConnInv, StepInv
  <2>2. \A u \in Threads : u # t => pc'[u] = pc[u] /\ done'[u] = done[u]
    BY <1>3
  <2>3. done'[t] > 0 => j = i
    BY <1>3
  <2>4. QED
    BY <1>1, <1>3, <2>1, <2>2, <2>3 DEF ConnInv, StepInv
<1>15. WireInv'
  <2>1. \A u \in Threads : Writing(u)' <=> Writing(u)
    BY <1>1, <1>2, <1>3 DEF Writing, HeldBy
  <2>2. Follows(t)'
    <3>1. calls'[t] = calls[t] /\ call'[t] = c
      BY <1>1
    <3>2. CASE full
      <4>1. pc'[t] = j /\ done'[t] = 0 /\ NextPart(c, j) = NextPart(c, i) + 1
        BY <1>2, <1>3, <3>2
      <4>2. d + 1 = Chunks
        BY <3>2 DEF full
      <4>3. NextPart(c, j) # 1 /\ NextPart(c, j) - 1 = NextPart(c, i)
        BY <4>1, <1>4
      <4>4. QED
        BY <1>4, <1>9, <3>1, <4>1, <4>2, <4>3 DEF Follows
    <3>3. CASE ~full
      <4>1. pc'[t] = i /\ done'[t] = d + 1 /\ d + 1 # 0
        BY <1>3, <1>5, <3>3
      <4>2. QED
        BY <1>4, <1>9, <3>1, <4>1 DEF Follows
    <3>4. QED
      BY <3>2, <3>3
  <2>3. Writing(t)
    BY <1>1, <1>2 DEF Writing, HeldBy
  <2>4. QED
    BY <1>10, <2>1, <2>2, <2>3 DEF WireInv
<1>16. FramesWhole'
  <2>1. wire = <<>> => FirstChunk(new)
    BY <1>4, <1>11 DEF Follows, FirstChunk, d
  <2>2. ASSUME wire # <<>>
        PROVE  Continues(Last, new) \/ (LastChunk(Last) /\ FirstChunk(new))
    <3>1. CASE NextPart(c, i) = 1 /\ d = 0
      BY <1>4, <1>11, <2>2, <3>1 DEF Follows, Complete, FirstChunk, d
    <3>2. CASE ~(NextPart(c, i) = 1 /\ d = 0)
      <4> DEFINE p == NextPart(c, i)
      <4>1. Last = [by |-> t, frame |-> calls[t], parts |-> Parts(c),
                    part |-> IF d = 0 THEN p - 1 ELSE p,
                    chunk |-> IF d = 0 THEN Chunks ELSE d]
        BY <1>11, <3>2 DEF Follows, d
      <4>2. p \in Nat /\ new = [by |-> t, frame |-> calls[t], parts |-> Parts(c),
                                part |-> p, chunk |-> d + 1]
        BY <1>4
      <4> HIDE DEF p
      <4>3. /\ Last.by = new.by /\ Last.frame = new.frame
            /\ Last.part = (IF d = 0 THEN p - 1 ELSE p) /\ new.part = p
            /\ Last.chunk = (IF d = 0 THEN Chunks ELSE d) /\ new.chunk = d + 1
        BY <4>1, <4>2
      <4>4. QED
        <5>1. CASE d = 0
          <6>1. new.part = Last.part + 1 /\ new.chunk = 1 /\ Last.chunk = Chunks
            BY <4>2, <4>3, <5>1
          <6>2. QED
            BY <4>3, <6>1 DEF Continues
        <5>2. CASE d # 0
          <6>1. new.part = Last.part /\ new.chunk = Last.chunk + 1
            BY <4>3, <5>2
          <6>2. QED
            BY <4>3, <6>1 DEF Continues
        <5>3. QED
          BY <5>1, <5>2
    <3>3. QED
      BY <3>1, <3>2
  <2>3. Len(wire) \in Nat /\ (wire = <<>> <=> Len(wire) = 0)
    BY DEF ConnInv, ConnTypes
  <2>4. FirstChunk(wire'[1])
    BY <1>7, <2>1, <2>3 DEF ConnInv, FramesWhole
  <2>5. ASSUME NEW k \in 1 .. Len(wire') - 1
        PROVE  \/ Continues(wire'[k], wire'[k + 1])
               \/ LastChunk(wire'[k]) /\ FirstChunk(wire'[k + 1])
    <3>1. CASE k = Len(wire)
      BY <1>7, <2>2, <2>3, <3>1 DEF Last
    <3>2. CASE k # Len(wire)
      <4>1. k \in 1 .. Len(wire) - 1 /\ k \in 1 .. Len(wire) /\ k + 1 \in 1 .. Len(wire)
        BY <1>7, <2>3, <3>2
      <4>2. wire'[k] = wire[k] /\ wire'[k + 1] = wire[k + 1]
        BY <1>7, <4>1
      <4>3. QED
        BY <4>1, <4>2 DEF ConnInv, FramesWhole
    <3>3. QED
      BY <3>1, <3>2
  <2>6. QED
    BY <2>4, <2>5 DEF FramesWhole, FirstChunk, LastChunk, Continues
<1>17. ResultInv'
  <2> DEFINE n == Len(wire) + 1
  <2>1. n \in Nat /\ n \notin OnWire(t) /\ n \in 1 .. n /\ Len(wire) = n - 1 /\ Len(wire') = n
    BY <1>7 DEF ConnInv, ConnTypes, OnWire
  <2>2. new.by = t /\ new.frame = calls[t]
    BY <1>4
  <2>3. \A k \in 1 .. n : k # n => k \in 1 .. Len(wire) /\ wire'[k] = wire[k]
    BY <1>7, <2>1
  <2>4. ASSUME NEW u \in Threads, u # t
        PROVE  OnWire(u)' = OnWire(u)
    <3>1. calls'[u] = calls[u] /\ wire'[n].by # u
      BY <1>1, <1>7, <2>2, <2>4
    <3>2. QED
      BY <2>1, <2>3, <3>1 DEF OnWire
  <2>5. OnWire(t)' = OnWire(t) \cup {n}
    <3>1. calls'[t] = calls[t] /\ wire'[n].by = t /\ wire'[n].frame = calls[t]
      BY <1>1, <1>7, <2>2
    <3>2. QED
      BY <2>1, <2>3, <3>1 DEF OnWire
  <2>6. IsFiniteSet(OnWire(t)) /\ Cardinality(OnWire(t)) \in Nat
    <3>1. Len(wire) \in Int /\ 1 \in Int
      BY DEF ConnInv, ConnTypes
    <3>2. IsFiniteSet(1 .. Len(wire))
      BY <3>1, FS_Interval
    <3>3. OnWire(t) \subseteq 1 .. Len(wire)
      BY DEF OnWire
    <3>4. IsFiniteSet(OnWire(t))
      BY <3>2, <3>3, FS_Subset
    <3>5. QED
      BY <3>4, FS_CardinalityType
  <2>7. Cardinality(OnWire(t)') = Cardinality(OnWire(t)) + 1
    BY <2>1, <2>5, <2>6, FS_AddElement
  <2>8. ASSUME c = "transmit"
        PROVE  IF NextPart(c, j) = 1
               THEN result'[t] = 0 /\ Cardinality(OnWire(t)') = done'[t]
               ELSE result'[t] = 0 <=> Cardinality(OnWire(t)') = Chunks
    <3>1. NextPart(c, i) = 1 /\ result[t] = 0 /\ Cardinality(OnWire(t)) = d
      BY <1>2, <2>8 DEF ConnInv, ResultInv, d
    <3>2. result'[t] = 0 /\ Cardinality(OnWire(t)') = d + 1
      BY <1>3, <2>7, <2>8, <3>1
    <3>3. CASE full
      BY <1>2, <3>1, <3>2, <3>3 DEF full
    <3>4. CASE ~full
      BY <1>3, <3>1, <3>2, <3>4
    <3>5. QED
      BY <3>3, <3>4
  <2>9. ASSUME NEW k \in 1 .. Len(wire')
        PROVE  wire'[k].frame <= calls'[wire'[k].by]
    <3>1. CASE k = n
      <4>1. calls[t] \in Nat
        BY DEF ConnInv, ConnTypes
      <4>2. QED
        BY <1>1, <1>7, <2>2, <3>1, <4>1
    <3>2. CASE k # n
      BY <1>1, <2>1, <2>3, <3>2 DEF ConnInv, ResultInv
    <3>3. QED
      BY <3>1, <3>2
  <2>10. ASSUME NEW u \in Threads, call'[u] = "transmit"
         PROVE  IF NextPart(call'[u], pc'[u]) = 1
                THEN result'[u] = 0 /\ Cardinality(OnWire(u)') = done'[u]
                ELSE result'[u] = 0 <=> Cardinality(OnWire(u)') = Chunks
    <3>1. CASE u = t
      <4>1. call' = call /\ pc'[t] = j
        BY <1>1, <1>3
      <4>2. QED
        BY <2>8, <2>10, <3>1, <4>1
    <3>2. CASE u # t
      <4>1. /\ OnWire(u)' = OnWire(u) /\ call'[u] = call[u]
            /\ pc'[u] = pc[u] /\ done'[u] = done[u] /\ result'[u] = result[u]
        BY <1>1, <1>3, <2>4, <3>2
      <4>2. QED
        BY <2>10, <4>1 DEF ConnInv, ResultInv
    <3>3. QED
      BY <3>1, <3>2
  <2>11. QED
    BY <2>9, <2>10 DEF ResultInv
<1>18. QED
  BY <1>8, <1>12, <1>13, <1>14, <1>15, <1>16, <1>17 DEF ConnInv

LEMMA ConnInit == Init => ConnInv
<1> SUFFICES ASSUME Init PROVE ConnInv
  OBVIOUS
<1>1. ConnTypes
  <2>1. wire = <<>> /\ wire \in Seq(Pieces)
    BY DEF Init
  <2>2. QED
    <3>1. 0 \in 0 .. Chunks - 1
      BY ConnectionAssumption
    <3>2. /\ pc \in [Threads -> Nat] /\ calls \in [Threads -> Nat]
          /\ done \in [Threads -> 0 .. Chunks - 1] /\ late \in [Threads -> Nat]
          /\ result \in [Threads -> Int] /\ failed \in [Threads -> BOOLEAN]
          /\ call \in [Threads -> AllCalls \cup {None}]
      BY <3>1 DEF Init, Idle
    <3>3. \A t \in Threads : pc[t] = Idle
      BY DEF Init
    <3>4. QED
      BY <2>1, <3>2, <3>3 DEF Init, ConnTypes
<1>2. \A t \in Threads : call[t] = None /\ pc[t] = Idle
  BY DEF Init
<1>3. None \notin AllCalls /\ None \notin Threads
  BY ConnectionAssumption
<1>4. \A t \in Threads : ~Writes(call[t]) /\ call[t] # "transmit" /\ HeldBy(t) = 0
  <2>1. None # "transmit" /\ None # "respond"
    BY <1>3 DEF AllCalls
  <2>2. \A c : Held(c, Idle) = 0
    BY DEF Held, Idle
  <2>3. QED
    BY <1>2, <2>1, <2>2 DEF Writes, HeldBy
<1>5. LockInv
  BY <1>4 DEF Init, LockInv
<1>6. StepInv
  BY <1>4 DEF Init, StepInv
<1>7. WireInv
  BY <1>4 DEF Init, WireInv, Writing, Complete
<1>8. FramesWhole
  BY DEF Init, FramesWhole
<1>9. ResultInv
  BY <1>4 DEF Init, ResultInv
<1>10. LateInv
  BY DEF Init, LateInv
<1>11. QED
  BY <1>1, <1>5, <1>6, <1>7, <1>8, <1>9, <1>10 DEF ConnInv

LEMMA ConnStutter == ConnInv /\ UNCHANGED vars => ConnInv'
BY DEF vars, ConnInv, ConnTypes, LockInv, HeldBy, StepInv, WireInv, Writing, Follows, Complete, Last,
       LastChunk, FirstChunk, Continues, FramesWhole, ResultInv, OnWire, LateInv

LEMMA ConnInvariant == Spec => []ConnInv
<1>1. ConnInv /\ [Next]_vars => ConnInv'
  <2> SUFFICES ASSUME ConnInv, [Next]_vars PROVE ConnInv'
    OBVIOUS
  <2>1. ASSUME NEW t \in Threads, Thread(t)
        PROVE  ConnInv'
    <3>1. ASSUME NEW c \in Calls, Begin(t, c)
          PROVE  ConnInv'
      BY <3>1, BeginStep
    <3>2. CASE Lock(t)
      BY <3>2, LockStep
    <3>3. CASE Check(t)
      BY <3>3, CheckStep
    <3>4. CASE Io(t)
      BY <3>4, IoChunkStep, IoReturnStep, IoErrorStep DEF Io
    <3>5. CASE Mark(t)
      BY <3>5, MarkStep
    <3>6. CASE Unlock(t)
      BY <3>6, UnlockStep
    <3>7. QED
      BY <2>1, <3>1, <3>2, <3>3, <3>4, <3>5, <3>6 DEF Thread
  <2>2. QED
    BY <2>1, ConnStutter DEF Next
<1>2. QED
  BY <1>1, ConnInit, PTL DEF Spec
-----------------------------------------------------------------------------
(* What follows.                                                           *)

\* Two threads are never inside the TLS library at once: SSL_write is reached
\* only between TlsWriter_lock and TlsWriter_unlock, though TlsWriter_write
\* itself takes no lock, and SSL_read only under the mutex of compy_tls_read.
THEOREM ConnCryptoExclusive == Spec => []CryptoExclusive
<1>1. ConnInv => CryptoExclusive
  <2> SUFFICES ASSUME ConnInv, NEW t \in Threads, NEW u \in Threads, At(t, "io"), At(u, "io")
               PROVE  t = u
    BY DEF CryptoExclusive
  <2>1. ASSUME NEW v \in Threads, At(v, "io")
        PROVE  owner = v
    <3>1. pc[v] # Idle
      BY <2>1 DEF At
    <3>2. IoAt(call[v], pc[v])
      BY <2>1, <3>1, AtStep DEF ConnInv
    <3>3. HeldBy(v) > 0
      BY <3>2, IoMoves DEF HeldBy
    <3>4. QED
      BY <3>3 DEF ConnInv, LockInv
  <2>2. QED
    BY <2>1
<1>2. QED
  BY <1>1, ConnInvariant, PTL

\* The peer can always find the frames: interleaved frames and responses never
\* mix, and nothing follows a frame that an error has cut short, because the
\* failing write sets the dead flag before its thread lets go of the mutex.
THEOREM ConnFramesWhole == Spec => []FramesWhole
<1>1. ConnInv => FramesWhole
  BY DEF ConnInv
<1>2. QED
  BY <1>1, ConnInvariant, PTL

\* Compy_TcpTransport_transmit returns 0 exactly when every chunk of its frame
\* has left, whatever errors other threads meet meanwhile.
THEOREM ConnTransmitTruthful == Spec => []TransmitTruthful
<1>1. ConnInv => TransmitTruthful
  <2>1. NextPart("transmit", Idle) # 1
    BY DEF NextPart, Idle
  <2>2. QED
    BY <2>1 DEF ConnInv, ResultInv, TransmitTruthful
<1>2. QED
  BY <1>1, ConnInvariant, PTL

\* A thread that has passed the test of the dead flag before it was set begins
\* one operation more on the connection, and never a second one.
THEOREM ConnAtMostOneLateIo == Spec => []AtMostOneLateIo
<1>1. ConnInv => AtMostOneLateIo
  <2> SUFFICES ASSUME ConnInv, NEW t \in Threads
               PROVE  late[t] <= 1
    BY DEF AtMostOneLateIo
  <2>1. late[t] \in Nat
    BY DEF ConnInv, ConnTypes
  <2>2. late[t] > 0 => late[t] = 1
    BY DEF ConnInv, LateInv
  <2>3. QED
    BY <2>1, <2>2
<1>2. QED
  BY <1>1, ConnInvariant, PTL

-----------------------------------------------------------------------------
(* The TLS backends: the context and the connection come and go.           *)

\* Q is a sound sequence of calls: alive[i] is what exists before call i and
\* timed the calls before which the timeout is set.  Every error path frees what
\* was made, all of it, and clears the timeout; the handshake is guarded; at
\* the end there are the objects and no timeout.
SoundCall(op_call, before, after, i, timed, objects) ==
    /\ before \subseteq objects
    /\ after = before \cup op_call.makes
    /\ i + 1 \in timed <=> op_call.does = "set" \/ (i \in timed /\ op_call.does # "clear")
    /\ op_call.does \in {"call", "handshake"} =>
           op_call.frees = before /\ (i \in timed => op_call.clears)
    /\ op_call.does = "handshake" => i \in timed

SoundCalls(Q, alive, timed, objects) ==
    /\ Len(Q) \in Nat \ {0}
    /\ alive[1] = {} /\ 1 \notin timed
    /\ alive[Len(Q) + 1] = objects /\ Len(Q) + 1 \notin timed
    /\ \A i \in 1 .. Len(Q) : SoundCall(Q[i], alive[i], alive[i + 1], i, timed, objects)

OsslNewAlive ==
    LET lib == {"lib_ctx"} IN <<{}, lib, lib, lib, lib, CtxFree, CtxObjects>>
WolfNewAlive ==
    LET lib == {"lib_ctx"} IN <<{}, lib, lib, lib, CtxFree, CtxObjects>>
MbedNewAlive ==
    <<{}, CtxFree, CtxFree, CtxFree, CtxFree, CtxFree, CtxFree, CtxObjects>>
OsslAcceptAlive ==
    LET ssl == {"ssl"} IN <<{}, {}, ssl, ssl, ssl, ssl, ConnFree, ConnObjects>>
WolfAcceptAlive ==
    LET ssl == {"ssl"} IN <<{}, {}, ssl, ssl, ssl, ConnFree, ConnObjects>>
MbedAcceptAlive ==
    <<{}, {}, {"conn"}, ConnFree, ConnFree, ConnFree, ConnObjects>>

LEMMA CallFields ==
    ASSUME NEW makes, NEW frees
    PROVE  /\ Call(makes, frees).does = "call" /\ Call(makes, frees).makes = makes
           /\ Call(makes, frees).frees = frees
           /\ Guarded(makes, frees).does = "call" /\ Guarded(makes, frees).makes = makes
           /\ Guarded(makes, frees).frees = frees /\ Guarded(makes, frees).clears
           /\ Handshake(frees).does = "handshake" /\ Handshake(frees).makes = {}
           /\ Handshake(frees).frees = frees /\ Handshake(frees).clears
           /\ SetTimeout.does = "set" /\ SetTimeout.makes = {}
           /\ ClearTimeout.does = "clear" /\ ClearTimeout.makes = {}
BY DEF Call, Guarded, Handshake, SetTimeout, ClearTimeout

-----------------------------------------------------------------------------
LEMMA OsslNewSound ==
    SoundCalls(OsslCtxNew \o <<Call({"tls_ctx"}, CtxFree)>>,
            OsslNewAlive, {}, CtxObjects)
<1> DEFINE Q == OsslCtxNew \o <<Call({"tls_ctx"}, CtxFree)>>
           alive == OsslNewAlive
           c1 == Call({"lib_ctx"}, {})
           c2 == Call({}, {"lib_ctx"})
           c3 == Call({"ctx"}, {"lib_ctx"})
           c4 == Call({"tls_ctx"}, CtxFree)
<1>1. Q = <<c1, c2, c2, c2, c3>> \o <<c4>>
  BY Zenon DEF OsslCtxNew
<1>2. /\ alive[1] = {} /\ alive[2] = {"lib_ctx"} /\ alive[3] = {"lib_ctx"}
      /\ alive[4] = {"lib_ctx"} /\ alive[5] = {"lib_ctx"} /\ alive[6] = CtxFree
      /\ alive[7] = CtxObjects
  BY DEF OsslNewAlive
<1>3. SoundCall(c1, {}, {"lib_ctx"}, 1, {}, CtxObjects)
  BY CallFields DEF SoundCall, CtxObjects, CtxFree
<1>4. SoundCall(c2, {"lib_ctx"}, {"lib_ctx"}, 2, {}, CtxObjects)
  BY CallFields DEF SoundCall, CtxObjects, CtxFree
<1>5. SoundCall(c2, {"lib_ctx"}, {"lib_ctx"}, 3, {}, CtxObjects)
  BY CallFields DEF SoundCall, CtxObjects, CtxFree
<1>6. SoundCall(c2, {"lib_ctx"}, {"lib_ctx"}, 4, {}, CtxObjects)
  BY CallFields DEF SoundCall, CtxObjects, CtxFree
<1>7. SoundCall(c3, {"lib_ctx"}, CtxFree, 5, {}, CtxObjects)
  BY CallFields DEF SoundCall, CtxObjects, CtxFree
<1>8. SoundCall(c4, CtxFree, CtxObjects, 6, {}, CtxObjects)
  BY CallFields DEF SoundCall, CtxObjects, CtxFree
<1> HIDE DEF Q, alive, c1, c2, c3, c4
<1>9. /\ Len(Q) = 6 /\ Q[1] = c1 /\ Q[2] = c2 /\ Q[3] = c2
      /\ Q[4] = c2 /\ Q[5] = c3 /\ Q[6] = c4
  <2> DEFINE S == {c1, c2, c3, c4}
  <2>1. <<c1, c2, c2, c2, c3>> \in Seq(S) /\ <<c4>> \in Seq(S)
    OBVIOUS
  <2>2. QED
    BY <1>1, <2>1
<1>10. ASSUME NEW i \in 1 .. 6
      PROVE  SoundCall(Q[i], alive[i], alive[i + 1], i, {}, CtxObjects)
  <2>1. CASE i = 1
    BY <1>2, <1>3, <1>9, <2>1
  <2>2. CASE i = 2
    BY <1>2, <1>4, <1>9, <2>2
  <2>3. CASE i = 3
    BY <1>2, <1>5, <1>9, <2>3
  <2>4. CASE i = 4
    BY <1>2, <1>6, <1>9, <2>4
  <2>5. CASE i = 5
    BY <1>2, <1>7, <1>9, <2>5
  <2>6. CASE i = 6
    BY <1>2, <1>8, <1>9, <2>6
  <2>7. QED
    BY <2>1, <2>2, <2>3, <2>4, <2>5, <2>6
<1>11. QED
  BY <1>2, <1>9, <1>10 DEF SoundCalls, alive, Q

LEMMA WolfNewSound ==
    SoundCalls(WolfCtxNew \o <<Call({"tls_ctx"}, CtxFree)>>,
            WolfNewAlive, {}, CtxObjects)
<1> DEFINE Q == WolfCtxNew \o <<Call({"tls_ctx"}, CtxFree)>>
           alive == WolfNewAlive
           c1 == Call({"lib_ctx"}, {})
           c2 == Call({}, {"lib_ctx"})
           c3 == Call({"ctx"}, {"lib_ctx"})
           c4 == Call({"tls_ctx"}, CtxFree)
<1>1. Q = <<c1, c2, c2, c3>> \o <<c4>>
  BY Zenon DEF WolfCtxNew
<1>2. /\ alive[1] = {} /\ alive[2] = {"lib_ctx"} /\ alive[3] = {"lib_ctx"}
      /\ alive[4] = {"lib_ctx"} /\ alive[5] = CtxFree /\ alive[6] = CtxObjects
  BY DEF WolfNewAlive
<1>3. SoundCall(c1, {}, {"lib_ctx"}, 1, {}, CtxObjects)
  BY CallFields DEF SoundCall, CtxObjects, CtxFree
<1>4. SoundCall(c2, {"lib_ctx"}, {"lib_ctx"}, 2, {}, CtxObjects)
  BY CallFields DEF SoundCall, CtxObjects, CtxFree
<1>5. SoundCall(c2, {"lib_ctx"}, {"lib_ctx"}, 3, {}, CtxObjects)
  BY CallFields DEF SoundCall, CtxObjects, CtxFree
<1>6. SoundCall(c3, {"lib_ctx"}, CtxFree, 4, {}, CtxObjects)
  BY CallFields DEF SoundCall, CtxObjects, CtxFree
<1>7. SoundCall(c4, CtxFree, CtxObjects, 5, {}, CtxObjects)
  BY CallFields DEF SoundCall, CtxObjects, CtxFree
<1> HIDE DEF Q, alive, c1, c2, c3, c4
<1>8. /\ Len(Q) = 5 /\ Q[1] = c1 /\ Q[2] = c2 /\ Q[3] = c2
      /\ Q[4] = c3 /\ Q[5] = c4
  <2> DEFINE S == {c1, c2, c3, c4}
  <2>1. <<c1, c2, c2, c3>> \in Seq(S) /\ <<c4>> \in Seq(S)
    OBVIOUS
  <2>2. QED
    BY <1>1, <2>1
<1>9. ASSUME NEW i \in 1 .. 5
      PROVE  SoundCall(Q[i], alive[i], alive[i + 1], i, {}, CtxObjects)
  <2>1. CASE i = 1
    BY <1>2, <1>3, <1>8, <2>1
  <2>2. CASE i = 2
    BY <1>2, <1>4, <1>8, <2>2
  <2>3. CASE i = 3
    BY <1>2, <1>5, <1>8, <2>3
  <2>4. CASE i = 4
    BY <1>2, <1>6, <1>8, <2>4
  <2>5. CASE i = 5
    BY <1>2, <1>7, <1>8, <2>5
  <2>6. QED
    BY <2>1, <2>2, <2>3, <2>4, <2>5
<1>10. QED
  BY <1>2, <1>8, <1>9 DEF SoundCalls, alive, Q

LEMMA MbedNewSound ==
    SoundCalls(MbedCtxNew \o <<Call({"tls_ctx"}, CtxFree)>>,
            MbedNewAlive, {}, CtxObjects)
<1> DEFINE Q == MbedCtxNew \o <<Call({"tls_ctx"}, CtxFree)>>
           alive == MbedNewAlive
           c1 == Call(CtxFree, {})
           c2 == Call({}, CtxFree)
           c3 == Call({"tls_ctx"}, CtxFree)
<1>1. Q = <<c1, c2, c2, c2, c2, c2>> \o <<c3>>
  BY Zenon DEF MbedCtxNew, CtxFree
<1>2. /\ alive[1] = {} /\ alive[2] = CtxFree /\ alive[3] = CtxFree
      /\ alive[4] = CtxFree /\ alive[5] = CtxFree /\ alive[6] = CtxFree
      /\ alive[7] = CtxFree /\ alive[8] = CtxObjects
  BY DEF MbedNewAlive
<1>3. SoundCall(c1, {}, CtxFree, 1, {}, CtxObjects)
  BY CallFields DEF SoundCall, CtxObjects, CtxFree
<1>4. SoundCall(c2, CtxFree, CtxFree, 2, {}, CtxObjects)
  BY CallFields DEF SoundCall, CtxObjects, CtxFree
<1>5. SoundCall(c2, CtxFree, CtxFree, 3, {}, CtxObjects)
  BY CallFields DEF SoundCall, CtxObjects, CtxFree
<1>6. SoundCall(c2, CtxFree, CtxFree, 4, {}, CtxObjects)
  BY CallFields DEF SoundCall, CtxObjects, CtxFree
<1>7. SoundCall(c2, CtxFree, CtxFree, 5, {}, CtxObjects)
  BY CallFields DEF SoundCall, CtxObjects, CtxFree
<1>8. SoundCall(c2, CtxFree, CtxFree, 6, {}, CtxObjects)
  BY CallFields DEF SoundCall, CtxObjects, CtxFree
<1>9. SoundCall(c3, CtxFree, CtxObjects, 7, {}, CtxObjects)
  BY CallFields DEF SoundCall, CtxObjects, CtxFree
<1> HIDE DEF Q, alive, c1, c2, c3
<1>10. /\ Len(Q) = 7 /\ Q[1] = c1 /\ Q[2] = c2 /\ Q[3] = c2
      /\ Q[4] = c2 /\ Q[5] = c2 /\ Q[6] = c2 /\ Q[7] = c3
  <2> DEFINE S == {c1, c2, c3}
  <2>1. <<c1, c2, c2, c2, c2, c2>> \in Seq(S) /\ <<c3>> \in Seq(S)
    OBVIOUS
  <2>2. QED
    BY <1>1, <2>1
<1>11. ASSUME NEW i \in 1 .. 7
      PROVE  SoundCall(Q[i], alive[i], alive[i + 1], i, {}, CtxObjects)
  <2>1. CASE i = 1
    BY <1>2, <1>3, <1>10, <2>1
  <2>2. CASE i = 2
    BY <1>2, <1>4, <1>10, <2>2
  <2>3. CASE i = 3
    BY <1>2, <1>5, <1>10, <2>3
  <2>4. CASE i = 4
    BY <1>2, <1>6, <1>10, <2>4
  <2>5. CASE i = 5
    BY <1>2, <1>7, <1>10, <2>5
  <2>6. CASE i = 6
    BY <1>2, <1>8, <1>10, <2>6
  <2>7. CASE i = 7
    BY <1>2, <1>9, <1>10, <2>7
  <2>8. QED
    BY <2>1, <2>2, <2>3, <2>4, <2>5, <2>6, <2>7
<1>12. QED
  BY <1>2, <1>10, <1>11, SMTT(30) DEF SoundCalls, alive, Q

LEMMA OsslAcceptSound ==
    SoundCalls(OsslAccept \o <<Call({"tls_conn"}, ConnFree)>>,
            OsslAcceptAlive, {2, 3, 4, 5}, ConnObjects)
<1> DEFINE Q == OsslAccept \o <<Call({"tls_conn"}, ConnFree)>>
           alive == OsslAcceptAlive
           c1 == SetTimeout
           c2 == Guarded({"ssl"}, {})
           c3 == Guarded({}, {"ssl"})
           c4 == Handshake({"ssl"})
           c5 == ClearTimeout
           c6 == Call({"conn"}, {"ssl"})
           c7 == Call({"tls_conn"}, ConnFree)
<1>1. Q = <<c1, c2, c3, c4, c5, c6>> \o <<c7>>
  BY Zenon DEF OsslAccept
<1>2. /\ alive[1] = {} /\ alive[2] = {} /\ alive[3] = {"ssl"}
      /\ alive[4] = {"ssl"} /\ alive[5] = {"ssl"} /\ alive[6] = {"ssl"}
      /\ alive[7] = ConnFree /\ alive[8] = ConnObjects
  BY DEF OsslAcceptAlive
<1>3. SoundCall(c1, {}, {}, 1, {2, 3, 4, 5}, ConnObjects)
  BY CallFields DEF SoundCall, ConnObjects, ConnFree
<1>4. SoundCall(c2, {}, {"ssl"}, 2, {2, 3, 4, 5}, ConnObjects)
  BY CallFields DEF SoundCall, ConnObjects, ConnFree
<1>5. SoundCall(c3, {"ssl"}, {"ssl"}, 3, {2, 3, 4, 5}, ConnObjects)
  BY CallFields DEF SoundCall, ConnObjects, ConnFree
<1>6. SoundCall(c4, {"ssl"}, {"ssl"}, 4, {2, 3, 4, 5}, ConnObjects)
  <2>1. c4.does = "handshake" /\ c4.makes = {} /\ c4.frees = {"ssl"} /\ c4.clears
    BY CallFields
  <2> HIDE DEF c4
  <2>2. QED
    BY <2>1 DEF SoundCall, ConnObjects, ConnFree
<1>7. SoundCall(c5, {"ssl"}, {"ssl"}, 5, {2, 3, 4, 5}, ConnObjects)
  BY CallFields DEF SoundCall, ConnObjects, ConnFree
<1>8. SoundCall(c6, {"ssl"}, ConnFree, 6, {2, 3, 4, 5}, ConnObjects)
  BY CallFields DEF SoundCall, ConnObjects, ConnFree
<1>9. SoundCall(c7, ConnFree, ConnObjects, 7, {2, 3, 4, 5}, ConnObjects)
  BY CallFields DEF SoundCall, ConnObjects, ConnFree
<1> HIDE DEF Q, alive, c1, c2, c3, c4, c5, c6, c7
<1>10. /\ Len(Q) = 7 /\ Q[1] = c1 /\ Q[2] = c2 /\ Q[3] = c3
      /\ Q[4] = c4 /\ Q[5] = c5 /\ Q[6] = c6 /\ Q[7] = c7
  <2> DEFINE S == {c1, c2, c3, c4, c5, c6, c7}
  <2>1. <<c1, c2, c3, c4, c5, c6>> \in Seq(S) /\ <<c7>> \in Seq(S)
    OBVIOUS
  <2>2. QED
    BY <1>1, <2>1
<1>11. ASSUME NEW i \in 1 .. 7
      PROVE  SoundCall(Q[i], alive[i], alive[i + 1], i, {2, 3, 4, 5}, ConnObjects)
  <2>1. CASE i = 1
    BY <1>2, <1>3, <1>10, <2>1
  <2>2. CASE i = 2
    BY <1>2, <1>4, <1>10, <2>2
  <2>3. CASE i = 3
    BY <1>2, <1>5, <1>10, <2>3
  <2>4. CASE i = 4
    BY <1>2, <1>6, <1>10, <2>4
  <2>5. CASE i = 5
    BY <1>2, <1>7, <1>10, <2>5
  <2>6. CASE i = 6
    BY <1>2, <1>8, <1>10, <2>6
  <2>7. CASE i = 7
    BY <1>2, <1>9, <1>10, <2>7
  <2>8. QED
    BY <2>1, <2>2, <2>3, <2>4, <2>5, <2>6, <2>7
<1>12. QED
  BY <1>2, <1>10, <1>11, SMTT(30) DEF SoundCalls, alive, Q

LEMMA WolfAcceptSound ==
    SoundCalls(WolfAccept \o <<Call({"tls_conn"}, ConnFree)>>,
            WolfAcceptAlive, {2, 3, 4}, ConnObjects)
<1> DEFINE Q == WolfAccept \o <<Call({"tls_conn"}, ConnFree)>>
           alive == WolfAcceptAlive
           c1 == SetTimeout
           c2 == Guarded({"ssl"}, {})
           c3 == Handshake({"ssl"})
           c4 == ClearTimeout
           c5 == Call({"conn"}, {"ssl"})
           c6 == Call({"tls_conn"}, ConnFree)
<1>1. Q = <<c1, c2, c3, c4, c5>> \o <<c6>>
  BY Zenon DEF WolfAccept
<1>2. /\ alive[1] = {} /\ alive[2] = {} /\ alive[3] = {"ssl"}
      /\ alive[4] = {"ssl"} /\ alive[5] = {"ssl"} /\ alive[6] = ConnFree
      /\ alive[7] = ConnObjects
  BY DEF WolfAcceptAlive
<1>3. SoundCall(c1, {}, {}, 1, {2, 3, 4}, ConnObjects)
  BY CallFields DEF SoundCall, ConnObjects, ConnFree
<1>4. SoundCall(c2, {}, {"ssl"}, 2, {2, 3, 4}, ConnObjects)
  BY CallFields DEF SoundCall, ConnObjects, ConnFree
<1>5. SoundCall(c3, {"ssl"}, {"ssl"}, 3, {2, 3, 4}, ConnObjects)
  <2>1. c3.does = "handshake" /\ c3.makes = {} /\ c3.frees = {"ssl"} /\ c3.clears
    BY CallFields
  <2> HIDE DEF c3
  <2>2. QED
    BY <2>1 DEF SoundCall, ConnObjects, ConnFree
<1>6. SoundCall(c4, {"ssl"}, {"ssl"}, 4, {2, 3, 4}, ConnObjects)
  BY CallFields DEF SoundCall, ConnObjects, ConnFree
<1>7. SoundCall(c5, {"ssl"}, ConnFree, 5, {2, 3, 4}, ConnObjects)
  BY CallFields DEF SoundCall, ConnObjects, ConnFree
<1>8. SoundCall(c6, ConnFree, ConnObjects, 6, {2, 3, 4}, ConnObjects)
  BY CallFields DEF SoundCall, ConnObjects, ConnFree
<1> HIDE DEF Q, alive, c1, c2, c3, c4, c5, c6
<1>9. /\ Len(Q) = 6 /\ Q[1] = c1 /\ Q[2] = c2 /\ Q[3] = c3
      /\ Q[4] = c4 /\ Q[5] = c5 /\ Q[6] = c6
  <2> DEFINE S == {c1, c2, c3, c4, c5, c6}
  <2>1. <<c1, c2, c3, c4, c5>> \in Seq(S) /\ <<c6>> \in Seq(S)
    OBVIOUS
  <2>2. QED
    BY <1>1, <2>1
<1>10. ASSUME NEW i \in 1 .. 6
      PROVE  SoundCall(Q[i], alive[i], alive[i + 1], i, {2, 3, 4}, ConnObjects)
  <2>1. CASE i = 1
    BY <1>2, <1>3, <1>9, <2>1
  <2>2. CASE i = 2
    BY <1>2, <1>4, <1>9, <2>2
  <2>3. CASE i = 3
    BY <1>2, <1>5, <1>9, <2>3
  <2>4. CASE i = 4
    BY <1>2, <1>6, <1>9, <2>4
  <2>5. CASE i = 5
    BY <1>2, <1>7, <1>9, <2>5
  <2>6. CASE i = 6
    BY <1>2, <1>8, <1>9, <2>6
  <2>7. QED
    BY <2>1, <2>2, <2>3, <2>4, <2>5, <2>6
<1>11. QED
  BY <1>2, <1>9, <1>10, SMTT(30) DEF SoundCalls, alive, Q

LEMMA MbedAcceptSound ==
    SoundCalls(MbedAccept \o <<Call({"tls_conn"}, ConnFree)>>,
            MbedAcceptAlive, {2, 3, 4, 5}, ConnObjects)
<1> DEFINE Q == MbedAccept \o <<Call({"tls_conn"}, ConnFree)>>
           alive == MbedAcceptAlive
           c1 == SetTimeout
           c2 == Guarded({"conn"}, {})
           c3 == Guarded({"ssl"}, {"conn"})
           c4 == Handshake(ConnFree)
           c5 == ClearTimeout
           c6 == Call({"tls_conn"}, ConnFree)
<1>1. Q = <<c1, c2, c3, c4, c5>> \o <<c6>>
  BY Zenon DEF MbedAccept, ConnFree
<1>2. /\ alive[1] = {} /\ alive[2] = {} /\ alive[3] = {"conn"}
      /\ alive[4] = ConnFree /\ alive[5] = ConnFree /\ alive[6] = ConnFree
      /\ alive[7] = ConnObjects
  BY DEF MbedAcceptAlive
<1>3. SoundCall(c1, {}, {}, 1, {2, 3, 4, 5}, ConnObjects)
  BY CallFields DEF SoundCall, ConnObjects, ConnFree
<1>4. SoundCall(c2, {}, {"conn"}, 2, {2, 3, 4, 5}, ConnObjects)
  BY CallFields DEF SoundCall, ConnObjects, ConnFree
<1>5. SoundCall(c3, {"conn"}, ConnFree, 3, {2, 3, 4, 5}, ConnObjects)
  BY CallFields DEF SoundCall, ConnObjects, ConnFree
<1>6. SoundCall(c4, ConnFree, ConnFree, 4, {2, 3, 4, 5}, ConnObjects)
  <2>1. c4.does = "handshake" /\ c4.makes = {} /\ c4.frees = ConnFree /\ c4.clears
    BY CallFields
  <2> HIDE DEF c4
  <2>2. QED
    BY <2>1 DEF SoundCall, ConnObjects, ConnFree
<1>7. SoundCall(c5, ConnFree, ConnFree, 5, {2, 3, 4, 5}, ConnObjects)
  BY CallFields DEF SoundCall, ConnObjects, ConnFree
<1>8. SoundCall(c6, ConnFree, ConnObjects, 6, {2, 3, 4, 5}, ConnObjects)
  BY CallFields DEF SoundCall, ConnObjects, ConnFree
<1> HIDE DEF Q, alive, c1, c2, c3, c4, c5, c6
<1>9. /\ Len(Q) = 6 /\ Q[1] = c1 /\ Q[2] = c2 /\ Q[3] = c3
      /\ Q[4] = c4 /\ Q[5] = c5 /\ Q[6] = c6
  <2> DEFINE S == {c1, c2, c3, c4, c5, c6}
  <2>1. <<c1, c2, c3, c4, c5>> \in Seq(S) /\ <<c6>> \in Seq(S)
    OBVIOUS
  <2>2. QED
    BY <1>1, <2>1
<1>10. ASSUME NEW i \in 1 .. 6
      PROVE  SoundCall(Q[i], alive[i], alive[i + 1], i, {2, 3, 4, 5}, ConnObjects)
  <2>1. CASE i = 1
    BY <1>2, <1>3, <1>9, <2>1
  <2>2. CASE i = 2
    BY <1>2, <1>4, <1>9, <2>2
  <2>3. CASE i = 3
    BY <1>2, <1>5, <1>9, <2>3
  <2>4. CASE i = 4
    BY <1>2, <1>6, <1>9, <2>4
  <2>5. CASE i = 5
    BY <1>2, <1>7, <1>9, <2>5
  <2>6. CASE i = 6
    BY <1>2, <1>8, <1>9, <2>6
  <2>7. QED
    BY <2>1, <2>2, <2>3, <2>4, <2>5, <2>6
<1>11. QED
  BY <1>2, <1>9, <1>10 DEF SoundCalls, alive, Q

-----------------------------------------------------------------------------
\* The tables of the function that is running.
TlsAlive ==
    IF t_op = "new"
    THEN CASE t_backend = "openssl" -> OsslNewAlive
           [] t_backend = "wolfssl" -> WolfNewAlive
           [] t_backend = "mbedtls" -> MbedNewAlive
    ELSE CASE t_backend = "openssl" -> OsslAcceptAlive
           [] t_backend = "wolfssl" -> WolfAcceptAlive
           [] t_backend = "mbedtls" -> MbedAcceptAlive

TlsTimed ==
    IF t_op = "new" THEN {} ELSE IF t_backend = "wolfssl" THEN {2, 3, 4} ELSE {2, 3, 4, 5}

TlsObjects == IF t_op = "new" THEN CtxObjects ELSE ConnObjects

LEMMA ProgramSound ==
    ASSUME t_backend \in {"openssl", "wolfssl", "mbedtls"}, t_op \in {"new", "accept"}
    PROVE  SoundCalls(TlsProgram, TlsAlive, TlsTimed, TlsObjects)
<1>1. CASE t_op = "new"
  <2>1. /\ TlsProgram = ContextNew /\ TlsTimed = {} /\ TlsObjects = CtxObjects
    BY <1>1 DEF TlsProgram, TlsTimed, TlsObjects
  <2>2. CASE t_backend = "openssl"
    <3>1. ContextNew = OsslCtxNew \o <<Call({"tls_ctx"}, CtxFree)>> /\ TlsAlive = OsslNewAlive
      BY <1>1, <2>2 DEF ContextNew, TlsAlive
    <3>2. QED
      BY <2>1, <3>1, OsslNewSound, Zenon
  <2>3. CASE t_backend = "wolfssl"
    <3>1. ContextNew = WolfCtxNew \o <<Call({"tls_ctx"}, CtxFree)>> /\ TlsAlive = WolfNewAlive
      BY <1>1, <2>3 DEF ContextNew, TlsAlive
    <3>2. QED
      BY <2>1, <3>1, WolfNewSound, Zenon
  <2>4. CASE t_backend = "mbedtls"
    <3>1. ContextNew = MbedCtxNew \o <<Call({"tls_ctx"}, CtxFree)>> /\ TlsAlive = MbedNewAlive
      BY <1>1, <2>4 DEF ContextNew, TlsAlive
    <3>2. QED
      BY <2>1, <3>1, MbedNewSound, Zenon
  <2>5. QED
    BY <2>2, <2>3, <2>4
<1>2. CASE t_op = "accept"
  <2>1. /\ TlsProgram = ConnAccept /\ TlsObjects = ConnObjects
    BY <1>2 DEF TlsProgram, TlsObjects
  <2>2. CASE t_backend = "openssl"
    <3>1. /\ ConnAccept = OsslAccept \o <<Call({"tls_conn"}, ConnFree)>>
          /\ TlsAlive = OsslAcceptAlive /\ TlsTimed = {2, 3, 4, 5}
      BY <1>2, <2>2 DEF ConnAccept, TlsAlive, TlsTimed
    <3>2. QED
      BY <2>1, <3>1, OsslAcceptSound, Zenon
  <2>3. CASE t_backend = "wolfssl"
    <3>1. /\ ConnAccept = WolfAccept \o <<Call({"tls_conn"}, ConnFree)>>
          /\ TlsAlive = WolfAcceptAlive /\ TlsTimed = {2, 3, 4}
      BY <1>2, <2>3 DEF ConnAccept, TlsAlive, TlsTimed
    <3>2. QED
      BY <2>1, <3>1, WolfAcceptSound, Zenon
  <2>4. CASE t_backend = "mbedtls"
    <3>1. /\ ConnAccept = MbedAccept \o <<Call({"tls_conn"}, ConnFree)>>
          /\ TlsAlive = MbedAcceptAlive /\ TlsTimed = {2, 3, 4, 5}
      BY <1>2, <2>4 DEF ConnAccept, TlsAlive, TlsTimed
    <3>2. QED
      BY <2>1, <3>1, MbedAcceptSound, Zenon
  <2>5. QED
    BY <2>2, <2>3, <2>4
<1>3. QED
  BY <1>1, <1>2

\* What the application has.
Owned == (IF t_ctx THEN CtxObjects ELSE {}) \cup (IF t_conn THEN ConnObjects ELSE {})

\* A function runs only where the application does not have yet what it makes;
\* inside of it, what exists and whether the timeout is set is known from the
\* call it has come to.
TlsInv ==
    /\ t_backend \in {"openssl", "wolfssl", "mbedtls"}
    /\ t_op \in {"none", "new", "accept"}
    /\ t_ctx \in BOOLEAN /\ t_conn \in BOOLEAN
    /\ t_timeout \in BOOLEAN
    /\ ~t_wild
    /\ t_conn => t_ctx
    /\ t_op = "new" => ~t_ctx
    /\ t_op = "accept" => t_ctx /\ ~t_conn
    /\ t_op = "none" => t_alive = Owned /\ ~t_timeout
    /\ t_op # "none" =>
           /\ t_at \in 1 .. Len(TlsProgram)
           /\ t_alive = Owned \cup TlsAlive[t_at]
           /\ t_timeout <=> t_at \in TlsTimed

LEMMA TlsInitInv == TlsInit => TlsInv
BY BackendsAssumption DEF TlsInit, TlsInv, Owned

\* The references to wolfSSL: one for each failed call of wolf_ctx_new, and one
\* while there is a context or one is being made.
InitsInv ==
    /\ t_inits \in Int /\ t_stuck \in Int
    /\ t_inits = t_stuck + (IF t_backend = "wolfssl" /\ (t_ctx \/ t_op = "new") THEN 1 ELSE 0)

LEMMA InitsStep ==
    ASSUME TlsInv, InitsInv, [TlsNext]_tlsVars
    PROVE  InitsInv'
<1>1. CASE UNCHANGED tlsVars
  BY <1>1 DEF tlsVars, InitsInv
<1>2. ASSUME NEW op \in {"new", "accept"}, Enter(op)
      PROVE  InitsInv'
  BY <1>2 DEF Enter, LibraryInit, TlsInv, InitsInv
<1>3. CASE Succeed
  <2>1. /\ t_inits' = t_inits /\ t_stuck' = t_stuck /\ t_backend' = t_backend
        /\ t_op \in {"new", "accept"}
        /\ t_op = "new" => (t_op' = "new" /\ t_ctx' = t_ctx) \/ (t_op' = "none" /\ t_ctx')
        /\ t_op = "accept" => t_op' # "new" /\ t_ctx' = t_ctx
    BY <1>3 DEF Succeed, TlsInv
  <2>2. QED
    BY <2>1 DEF InitsInv
<1>4. CASE Fail
  <2>1. /\ t_op' = "none" /\ t_ctx' = t_ctx /\ t_backend' = t_backend
        /\ FailedReferences /\ (t_op = "new" => ~t_ctx)
    BY <1>4 DEF Fail, TlsInv
  <2>2. QED
    BY <2>1 DEF FailedReferences, LibraryCleanup, InitsInv
<1>5. CASE ConnDone
  BY <1>5 DEF ConnDone, InitsInv
<1>6. CASE ContextDone
  BY <1>6 DEF ContextDone, LibraryCleanup, InitsInv
<1>7. QED
  BY <1>1, <1>2, <1>3, <1>4, <1>5, <1>6 DEF TlsNext

\* What is owned while a function runs is none of what it makes.
LEMMA OwnedApart ==
    ASSUME TlsInv, t_op # "none"
    PROVE  Owned \cap TlsObjects = {}
<1>1. CtxObjects \cap ConnObjects = {}
  BY DEF CtxObjects, ConnObjects, CtxFree, ConnFree
<1>2. CASE t_op = "new"
  BY <1>2 DEF TlsInv, Owned
<1>3. CASE t_op = "accept"
  BY <1>1, <1>3 DEF TlsInv, Owned, TlsObjects
<1>4. QED
  BY <1>2, <1>3 DEF TlsInv

LEMMA RunningSound ==
    /\ t_backend \in {"openssl", "wolfssl", "mbedtls"}
    /\ t_op \in {"new", "accept"}
    => SoundCalls(TlsProgram, TlsAlive, TlsTimed, TlsObjects)
BY ProgramSound

LEMMA TlsEnterInv ==
    ASSUME TlsInv, NEW op \in {"new", "accept"}, Enter(op)
    PROVE  TlsInv'
<1>1. /\ t_op = "none" /\ t_op' = op /\ t_at' = 1
      /\ t_backend' = t_backend /\ t_alive' = t_alive /\ t_wild' = t_wild
      /\ t_timeout' = t_timeout /\ t_ctx' = t_ctx /\ t_conn' = t_conn
  BY DEF Enter
<1>2. op = "new" => ~t_ctx
  BY DEF Enter
<1>3. op = "accept" => t_ctx /\ ~t_conn
  BY DEF Enter
<1>4. SoundCalls(TlsProgram, TlsAlive, TlsTimed, TlsObjects)'
  <2>1. (/\ t_backend \in {"openssl", "wolfssl", "mbedtls"}
         /\ t_op \in {"new", "accept"}
         => SoundCalls(TlsProgram, TlsAlive, TlsTimed, TlsObjects))'
    BY RunningSound, PTL
  <2>2. QED
    BY <1>1, <2>1 DEF TlsInv
<1>5. /\ Len(TlsProgram') \in Nat \ {0}
      /\ TlsAlive'[1] = {} /\ 1 \notin TlsTimed'
  BY <1>4 DEF SoundCalls
<1>6. Owned' = Owned
  BY <1>1 DEF Owned
<1>7. t_alive' = Owned' \cup TlsAlive'[t_at'] /\ ~t_timeout'
  BY <1>1, <1>5, <1>6 DEF TlsInv
<1>8. QED
  BY <1>1, <1>2, <1>3, <1>5, <1>7 DEF TlsInv

LEMMA TlsSucceedInv ==
    ASSUME TlsInv, Succeed
    PROVE  TlsInv'
<1> DEFINE op_call == TlsProgram[t_at]
           n == Len(TlsProgram)
<1>1. /\ t_op \in {"new", "accept"} /\ t_at \in 1 .. n
      /\ t_alive = Owned \cup TlsAlive[t_at]
      /\ t_timeout <=> t_at \in TlsTimed
      /\ ~t_wild /\ t_backend \in {"openssl", "wolfssl", "mbedtls"}
  BY DEF TlsInv, Succeed
<1>2. SoundCalls(TlsProgram, TlsAlive, TlsTimed, TlsObjects)
  BY <1>1, ProgramSound
<1>3. SoundCall(op_call, TlsAlive[t_at], TlsAlive[t_at + 1], t_at, TlsTimed, TlsObjects)
  BY <1>1, <1>2 DEF SoundCalls
<1>4. n \in Nat \ {0} /\ TlsAlive[n + 1] = TlsObjects /\ n + 1 \notin TlsTimed
  BY <1>2 DEF SoundCalls
<1>5. /\ t_alive' = t_alive \cup op_call.makes
      /\ t_timeout' = IF op_call.does = "set" THEN TRUE
                      ELSE IF op_call.does = "clear" THEN FALSE ELSE t_timeout
      /\ t_backend' = t_backend /\ t_wild' = t_wild
  BY DEF Succeed
<1>6. t_alive' = Owned \cup TlsAlive[t_at + 1]
  BY <1>1, <1>3, <1>5 DEF SoundCall
<1>7. (t_timeout' <=> t_at + 1 \in TlsTimed) /\ t_timeout' \in BOOLEAN
  BY <1>1, <1>3, <1>5, "set" # "clear" DEF SoundCall, TlsInv
<1>8. CASE t_at # n
  <2>1. /\ t_at' = t_at + 1 /\ t_op' = t_op
        /\ t_ctx' = t_ctx /\ t_conn' = t_conn
    BY <1>8 DEF Succeed, TlsInv
  <2>2. /\ TlsProgram' = TlsProgram /\ TlsAlive' = TlsAlive /\ TlsTimed' = TlsTimed
        /\ Owned' = Owned
    BY <1>5, <2>1 DEF TlsProgram, ContextNew, ConnAccept, TlsAlive, TlsTimed, Owned
  <2>3. t_at' \in 1 .. Len(TlsProgram')
    BY <1>1, <1>4, <1>8, <2>1, <2>2
  <2>4. t_alive' = Owned' \cup TlsAlive'[t_at'] /\ (t_timeout' <=> t_at' \in TlsTimed')
    BY <1>6, <1>7, <2>1, <2>2
  <2>5. QED
    BY <1>1, <1>5, <1>7, <2>1, <2>3, <2>4 DEF TlsInv
<1>9. CASE t_at = n
  <2>1. t_op' = "none"
    BY <1>9 DEF Succeed
  <2>2. t_alive' = Owned \cup TlsObjects /\ ~t_timeout'
    BY <1>4, <1>6, <1>7, <1>9
  <2>3. CASE t_op = "new"
    <3>1. t_ctx' = TRUE /\ t_conn' = t_conn /\ ~t_ctx /\ ~t_conn
      BY <1>9, <2>3 DEF Succeed, TlsInv
    <3>2. Owned' = Owned \cup TlsObjects
      BY <2>3, <3>1 DEF Owned, TlsObjects
    <3>3. QED
      BY <1>1, <1>5, <1>7, <2>1, <2>2, <3>1, <3>2 DEF TlsInv
  <2>4. CASE t_op = "accept"
    <3>1. t_conn' = TRUE /\ t_ctx' = t_ctx /\ t_ctx /\ ~t_conn
      BY <1>9, <2>4 DEF Succeed, TlsInv
    <3>2. Owned' = Owned \cup TlsObjects
      BY <2>4, <3>1 DEF Owned, TlsObjects
    <3>3. QED
      BY <1>1, <1>5, <1>7, <2>1, <2>2, <3>1, <3>2 DEF TlsInv
  <2>5. QED
    BY <1>1, <2>3, <2>4
<1>10. QED
  BY <1>8, <1>9

LEMMA TlsFailInv ==
    ASSUME TlsInv, Fail
    PROVE  TlsInv'
<1> DEFINE op_call == TlsProgram[t_at]
<1>1. /\ t_op \in {"new", "accept"} /\ t_at \in 1 .. Len(TlsProgram)
      /\ t_alive = Owned \cup TlsAlive[t_at]
      /\ t_timeout <=> t_at \in TlsTimed
      /\ ~t_wild /\ t_backend \in {"openssl", "wolfssl", "mbedtls"}
  BY DEF TlsInv, Fail
<1>2. SoundCalls(TlsProgram, TlsAlive, TlsTimed, TlsObjects)
  BY <1>1, ProgramSound
<1>3. SoundCall(op_call, TlsAlive[t_at], TlsAlive[t_at + 1], t_at, TlsTimed, TlsObjects)
  BY <1>1, <1>2 DEF SoundCalls
<1>4. /\ op_call.does \in {"call", "handshake"}
      /\ t_alive' = t_alive \ op_call.frees
      /\ t_wild' = (t_wild \/ ~(op_call.frees \subseteq t_alive))
      /\ t_timeout' = (t_timeout /\ ~op_call.clears)
      /\ t_op' = "none"
      /\ t_backend' = t_backend /\ t_ctx' = t_ctx /\ t_conn' = t_conn
  BY DEF Fail, Frees
<1>5. /\ op_call.frees = TlsAlive[t_at] /\ TlsAlive[t_at] \subseteq TlsObjects
      /\ t_at \in TlsTimed => op_call.clears
  BY <1>3, <1>4 DEF SoundCall
<1>6. t_alive' = Owned
  BY <1>1, <1>4, <1>5, OwnedApart
<1>7. ~t_wild'
  BY <1>1, <1>4, <1>5
<1>8. ~t_timeout' /\ t_timeout' \in BOOLEAN
  BY <1>1, <1>4, <1>5
<1>9. Owned' = Owned
  BY <1>4 DEF Owned
<1>10. QED
  BY <1>4, <1>6, <1>7, <1>8, <1>9 DEF TlsInv

LEMMA TlsDoneInv ==
    ASSUME TlsInv, ConnDone \/ ContextDone
    PROVE  TlsInv'
<1>1. CtxObjects \cap ConnObjects = {}
  BY DEF CtxObjects, ConnObjects, CtxFree, ConnFree
<1>2. t_alive = Owned /\ t_op = "none"
  BY DEF TlsInv, ConnDone, ContextDone
<1>3. CASE ConnDone
  <2>1. /\ t_conn /\ t_ctx /\ t_conn' = FALSE /\ t_ctx' = t_ctx
        /\ t_alive' = t_alive \ ConnObjects
        /\ t_wild' = (t_wild \/ ~(ConnObjects \subseteq t_alive))
        /\ t_backend' = t_backend /\ t_op' = t_op /\ t_timeout' = t_timeout
    BY <1>3 DEF TlsInv, ConnDone, Frees
  <2>2. Owned = CtxObjects \cup ConnObjects /\ Owned' = CtxObjects
    BY <2>1 DEF Owned
  <2>3. t_alive' = Owned' /\ ~t_wild'
    BY <1>1, <1>2, <2>1, <2>2 DEF TlsInv
  <2>4. QED
    BY <1>2, <2>1, <2>3 DEF TlsInv
<1>4. CASE ContextDone
  <2>1. /\ ~t_conn /\ t_ctx /\ t_ctx' = FALSE /\ t_conn' = t_conn
        /\ t_alive' = t_alive \ CtxObjects
        /\ t_wild' = (t_wild \/ ~(CtxObjects \subseteq t_alive))
        /\ t_backend' = t_backend /\ t_op' = t_op /\ t_timeout' = t_timeout
    BY <1>4 DEF TlsInv, ContextDone, Frees
  <2>2. Owned = CtxObjects /\ Owned' = {}
    BY <2>1 DEF Owned
  <2>3. t_alive' = Owned' /\ ~t_wild'
    BY <1>2, <2>1, <2>2 DEF TlsInv
  <2>4. QED
    BY <1>2, <2>1, <2>3 DEF TlsInv
<1>5. QED
  BY <1>3, <1>4

\* With every backend and whichever calls fail, no object is leaked or freed
\* twice, no socket left with the timeout on, and the handshake never runs without
\* it; of wolfSSL itself there remain as many references as calls of wolf_ctx_new
\* have failed, and the one of the context.
THEOREM TlsAlwaysReleased == TlsSpec => []TlsReleased
<1>1. TlsInit => TlsInv /\ InitsInv
  <2>1. TlsInit => InitsInv
    BY DEF TlsInit, InitsInv
  <2>2. QED
    BY <2>1, TlsInitInv
<1>2. TlsInv /\ [TlsNext]_tlsVars => TlsInv'
  <2> SUFFICES ASSUME TlsInv, [TlsNext]_tlsVars PROVE TlsInv'
    OBVIOUS
  <2>1. CASE UNCHANGED tlsVars
    BY <2>1 DEF tlsVars, TlsInv, Owned, TlsAlive, TlsTimed, TlsProgram, ContextNew, ConnAccept
  <2>2. QED
    BY <2>1, TlsEnterInv, TlsSucceedInv, TlsFailInv, TlsDoneInv DEF TlsNext
<1>3. TlsInv /\ InitsInv => TlsReleased
  <2> SUFFICES ASSUME TlsInv, InitsInv PROVE TlsReleased
    OBVIOUS
  <2>1. ASSUME t_op # "none", TlsProgram[t_at].does = "handshake"
        PROVE  t_timeout
    <3>1. t_op \in {"new", "accept"} /\ t_at \in 1 .. Len(TlsProgram)
      BY <2>1 DEF TlsInv
    <3>2. SoundCalls(TlsProgram, TlsAlive, TlsTimed, TlsObjects)
      BY <3>1, ProgramSound DEF TlsInv
    <3>3. t_at \in TlsTimed
      BY <2>1, <3>1, <3>2 DEF SoundCalls, SoundCall
    <3>4. QED
      BY <2>1, <3>3 DEF TlsInv
  <2>2. QED
    BY <2>1 DEF TlsInv, InitsInv, TlsReleased, Owned
<1>4. TlsInv /\ InitsInv /\ [TlsNext]_tlsVars => InitsInv'
  BY InitsStep
<1>5. QED
  BY <1>1, <1>2, <1>3, <1>4, PTL DEF TlsSpec
=============================================================================
