------------------------------ MODULE Writers ------------------------------
(***************************************************************************)
(* What lies between the library and the kernel: compy_write_slices        *)
(* (src/writer.c) over the writer of a file descriptor (src/writer/fd.c),  *)
(* of TLS (src/tls.c, src/crypto) or of stdio (src/writer/file.c), and the *)
(* UDP transport (src/transport/udp.c).  The kernel (external) takes part  *)
(* of what it is given, is interrupted, takes nothing or fails.            *)
(***************************************************************************)
EXTENDS Integers, SequencesExt

CONSTANTS
    Slices,             \* lengths of the slices, in order
    MAX_RETRANSMITS     \* 10

ASSUME WritersAssumption == Slices \in Seq(Nat) /\ MAX_RETRANSMITS \in Nat

VARIABLES
    w_kind,         \* the writer: "fd", "tls" or "file"
    w_todo,         \* slices that compy_write_slices has not come to yet
    w_remaining,    \* `remaining` of the writer's write, -1 outside of it
    w_result,       \* `result` of compy_write_slices
    w_taken,        \* octets that the kernel has taken, as <<slice, octet>>
    w_status,       \* "writing", "done"
    u_left,         \* `i` of send_packet: attempts left; -1 before the call
    u_sent,         \* datagrams that the kernel has taken
    u_result        \* what transmit returned, 1 before it returns

writeVars == <<w_kind, w_todo, w_remaining, w_result, w_taken, w_status>>
udpVars == <<u_left, u_sent, u_result>>
ioVars == <<writeVars, udpVars>>

IoInit ==
    /\ w_kind \in {"fd", "tls", "file"}
    /\ w_todo = Slices /\ w_remaining = -1 /\ w_result = 0
    /\ w_taken = <<>> /\ w_status = "writing"
    /\ u_left = -1 /\ u_sent = 0 /\ u_result = 1

Nth == Len(Slices) - Len(w_todo) + 1

\* compy_write_slices goes to the next slice, or returns.
NextSlice ==
    /\ w_status = "writing" /\ w_remaining = -1
    /\ IF w_todo = <<>> THEN w_status' = "done" /\ UNCHANGED w_remaining
       ELSE w_remaining' = Head(w_todo) /\ UNCHANGED w_status
    /\ UNCHANGED <<w_kind, w_todo, w_result, w_taken, udpVars>>

\* The writer's write returns n; CHK_WRITE_ERR of compy_write_slices adds it up or,
\* below 0, returns what there is.
WriteReturns(n) ==
    /\ w_remaining' = -1
    /\ IF n < 0 THEN w_status' = "done" /\ UNCHANGED <<w_todo, w_result>>
       ELSE w_todo' = Tail(w_todo) /\ w_result' = w_result + n /\ UNCHANGED w_status

\* Mutant: the pointer is not moved behind what was taken.
TakeFrom_Start(n) == [i \in 1 .. n |-> <<Nth, i>>]

\* The next n octets from `p` on.
TakeFrom(n) == [i \in 1 .. n |-> <<Nth, Head(w_todo) - w_remaining + i>>]

\* The kernel, or the TLS library, takes part of what remains.
Takes ==
    \E n \in 1 .. w_remaining :
        /\ w_taken' = w_taken \o TakeFrom(n)
        /\ w_remaining' = w_remaining - n
        /\ UNCHANGED <<w_todo, w_result, w_status>>

\* FdWriter_write.  A file descriptor that takes nothing ends the loop with a
\* short count, EINTR repeats it, another error loses the count.
FdWrite ==
    \/ Takes
    \/ WriteReturns(Head(w_todo) - w_remaining) /\ UNCHANGED w_taken
    \/ w_remaining > 0 /\ WriteReturns(-1) /\ UNCHANGED w_taken

\* TlsWriter_write with the loop of its backend (ossl_write, wolf_write,
\* mbed_write): WANT_READ and WANT_WRITE repeat it, there is no short count.
TlsWrite ==
    \/ Takes
    \/ w_remaining = 0 /\ WriteReturns(Head(w_todo)) /\ UNCHANGED w_taken
    \/ w_remaining > 0 /\ WriteReturns(-1) /\ UNCHANGED w_taken

\* FileWriter_write: one fwrite.  An error, also one of an earlier call, makes
\* it -1.
FileWrite ==
    \E n \in 0 .. w_remaining, ferror \in BOOLEAN :
        /\ n < w_remaining => ferror
        /\ w_taken' = w_taken \o TakeFrom(n)
        /\ WriteReturns(IF ferror THEN -1 ELSE n)

Write ==
    /\ w_status = "writing" /\ w_remaining >= 0
    /\ \/ w_kind = "fd" /\ FdWrite
       \/ w_kind = "tls" /\ TlsWrite
       \/ w_kind = "file" /\ FileWrite
    /\ UNCHANGED <<w_kind, udpVars>>

\* Compy_UdpTransport_transmit.
Transmit ==
    /\ u_left = -1
    /\ u_left' = MAX_RETRANSMITS
    /\ UNCHANGED <<u_sent, u_result, writeVars>>

\* Does the loop go round again after sendmsg?
Retry(ok) == ~ok /\ u_left > 1

\* One sendmsg of send_packet: taken, EMSGSIZE, or another error.
SendMsg ==
    /\ u_left > 0 /\ u_result = 1
    /\ \/ \E ok \in BOOLEAN :
              /\ u_sent' = u_sent + (IF ok THEN 1 ELSE 0)
              /\ u_left' = u_left - 1
              /\ u_result' = IF Retry(ok) THEN 1 ELSE IF ok THEN 0 ELSE -1
       \/ u_result' = -1 /\ UNCHANGED <<u_left, u_sent>>
    /\ UNCHANGED writeVars

IoNext == NextSlice \/ Write \/ Transmit \/ SendMsg

IoSpec == IoInit /\ [][IoNext]_ioVars

\* Nobody is told more than has left: each octet leaves at most once and in
\* order, compy_write_slices does not count one that has not left, and counts
\* all of them only if there is no hole; with TLS and stdio there never is one.
\* A datagram leaves at most once, and exactly if transmit returns 0.
WriteTruthful ==
    LET all == FlattenSeq([s \in DOMAIN Slices |-> [i \in 1 .. Slices[s] |-> <<s, i>>]])
    IN  /\ \A i, j \in DOMAIN w_taken : i < j =>
               \/ w_taken[i][1] < w_taken[j][1]
               \/ w_taken[i][1] = w_taken[j][1] /\ w_taken[i][2] < w_taken[j][2]
        /\ w_result <= Len(w_taken)
        /\ w_kind # "fd" => IsPrefix(w_taken, all)
        /\ w_result = Len(all) => w_taken = all
        /\ u_sent <= 1
        /\ u_result # 1 => (u_result = 0 <=> u_sent = 1)
=============================================================================
