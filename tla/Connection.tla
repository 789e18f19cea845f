----------------------------- MODULE Connection -----------------------------
(***************************************************************************)
(* One RTSP connection and the threads that use it: the RTSP thread        *)
(* responding to requests (src/context.c), media threads that send RTP and *)
(* RTCP on interleaved channels (src/transport/tcp.c), the reader, and     *)
(* whoever shuts the connection down, over the Compy_Writer of a TLS       *)
(* connection (src/tls.c).                                                 *)
(*                                                                         *)
(* A call is a program: the sequence of its steps that other threads can   *)
(* observe.  "lock" and "unlock" are the writer's lock, or the mutex taken *)
(* inside writef and compy_tls_read; "check" reads the dead flag, "mark"   *)
(* sets it after an error; "io" is one write or read of the TLS library,   *)
(* which moves its data in several chunks.                                 *)
(***************************************************************************)
EXTENDS Integers, Sequences, FiniteSets, Functions

CONSTANTS
    Threads,
    Calls,      \* the calls the threads may make
    Chunks,     \* chunks one write is split into (SSL_write)
    MaxCalls,   \* bound: calls in one behaviour
    None

AllCalls == {"transmit", "respond", "read", "shutdown"}

ASSUME ConnectionAssumption ==
    /\ Calls \subseteq AllCalls
    /\ Chunks \in Nat \ {0}
    /\ MaxCalls \in Nat
    /\ None \notin Threads \cup AllCalls

VARIABLES
    pc,         \* pc[t]: step of its call thread t is at, 0 when in no call
    call,       \* call[t]: the call it is in, or was in last
    calls,      \* calls[t]: how many calls it has begun
    done,       \* done[t]: chunks its current write has moved
    failed,     \* failed[t]: the write or read it is in has met an error
    result,     \* result[t]: what its call returns
    owner,      \* the thread that holds mtx, or None
    depth,      \* how many times it holds it (PTHREAD_MUTEX_RECURSIVE)
    dead,       \* Compy_TlsConn.dead
    wire,       \* history: the chunks on the wire
    late        \* history: late[t]: writes and reads t began while dead was set

vars == <<pc, call, calls, done, failed, result, owner, depth, dead, wire, late>>

Idle == 0

\* Mutants: a write that ignores the flag, a read outside the mutex.
TlsWrite_Unchecked  == <<"io", "mark">>
TlsRead_NoLock      == <<"check", "io", "mark">>

\* TlsWriter_write, TlsWriter_writef (also of the version and the status code
\* of a response, under the writer's lock), compy_tls_read, compy_tls_shutdown.
TlsWrite    == <<"check", "io", "mark">>
TlsWritef   == <<"check", "lock", "io", "unlock", "mark">>
TlsRead     == <<"check", "lock", "io", "unlock", "mark">>
TlsShutdown == <<"lock", "io", "unlock">>

\* Mutant: the frame is written without the lock.
Transmit_NoLock == TlsWrite

\* Compy_TcpTransport_transmit: header and iovecs coalesced into one write.
Transmit == <<"lock">> \o TlsWrite \o <<"unlock">>

\* compy_respond holds the lock over all the writes of the serializer.  Two of
\* its pieces stand for the status line, the headers and the body: the status
\* line, which begins with writef, and one more.
StatusLine == TlsWritef \o TlsWrite
Respond == <<"lock">> \o StatusLine \o TlsWrite \o <<"unlock">>

Program(c) ==
    CASE c = "transmit" -> Transmit
      [] c = "respond"  -> Respond
      [] c = "read"     -> TlsRead
      [] c = "shutdown" -> TlsShutdown

Step(t) == Program(call[t])[pc[t]]
At(t, step) == pc[t] # Idle /\ Step(t) = step

Writes(c) == c \in {"transmit", "respond"}

\* How many writes the call has begun when it is at step i.
Part(c, i) == Cardinality({ j \in 1 .. i : Program(c)[j] = "io" })
Parts(c) == Part(c, Len(Program(c)))

\* Where a call goes on after step i.
After(c, i) == IF i = Len(Program(c)) THEN Idle ELSE i + 1

\* Where a call goes on when step i has met an error.  CHK_WRITE_ERR leaves only
\* the piece that met it, with the bytes written so far: to the serializer of
\* the response that is a success, so it goes on with the next piece.
Bail(c, i) ==
    CASE c = "respond" /\ i <= Len(StatusLine) + 1 -> Len(StatusLine) + 2
      [] c = "respond" /\ i > Len(StatusLine) + 1  -> Len(Program(c))
      [] c = "transmit" -> Len(Program(c))
      [] OTHER -> Idle

Init ==
    /\ pc = [t \in Threads |-> Idle]
    /\ call = [t \in Threads |-> None]
    /\ calls = [t \in Threads |-> 0]
    /\ done = [t \in Threads |-> 0]
    /\ failed = [t \in Threads |-> FALSE]
    /\ result = [t \in Threads |-> 0]
    /\ owner = None
    /\ depth = 0
    /\ dead = FALSE
    /\ wire = <<>>
    /\ late = [t \in Threads |-> 0]
-----------------------------------------------------------------------------
Begin(t, c) ==
    /\ pc[t] = Idle
    /\ SumFunction(calls) < MaxCalls
    /\ pc' = [pc EXCEPT ![t] = 1]
    /\ call' = [call EXCEPT ![t] = c]
    /\ calls' = [calls EXCEPT ![t] = @ + 1]
    /\ done' = [done EXCEPT ![t] = 0]
    /\ failed' = [failed EXCEPT ![t] = FALSE]
    /\ result' = [result EXCEPT ![t] = 0]
    /\ UNCHANGED <<owner, depth, dead, wire, late>>

Goto(t, i) == pc' = [pc EXCEPT ![t] = i]

\* Mutant: the mutex is not recursive.
Acquire_NotRecursive(t) == owner = None /\ owner' = t /\ depth' = 1

\* pthread_mutex_lock on a recursive mutex.
Acquire(t) ==
    /\ owner \in {None, t}
    /\ owner' = t
    /\ depth' = depth + 1

\* TlsWriter_lock, and the locks inside writef, read and shutdown.
Lock(t) ==
    /\ At(t, "lock")
    /\ Acquire(t)
    /\ Goto(t, After(call[t], pc[t]))
    /\ UNCHANGED <<call, calls, done, failed, result, dead, wire, late>>

Release ==
    /\ depth' = depth - 1
    /\ owner' = IF depth = 1 THEN None ELSE owner

Unlock(t) ==
    /\ At(t, "unlock")
    /\ Release
    /\ Goto(t, After(call[t], pc[t]))
    /\ UNCHANGED <<call, calls, done, failed, result, dead, wire, late>>

\* Mutant: transmit returns 0 after an error.
ErrorResult_Swallowed(c, soFar) == soFar

\* compy_respond returns the bytes of the writes that succeeded, transmit -1.
ErrorResult(c, soFar) == IF c = "respond" THEN soFar ELSE -1

Check(t) ==
    /\ At(t, "check")
    /\ IF dead
       THEN /\ result' = [result EXCEPT ![t] = ErrorResult(call[t], @)]
            /\ Goto(t, Bail(call[t], pc[t]))
       ELSE Goto(t, After(call[t], pc[t])) /\ UNCHANGED result
    /\ UNCHANGED <<call, calls, done, failed, owner, depth, dead, wire, late>>

\* A write or read that begins now begins after the flag was set.
CountLate(t) ==
    late' = IF dead /\ done[t] = 0 /\ call[t] # "shutdown"
            THEN [late EXCEPT ![t] = @ + 1] ELSE late

Chunk(t) == [by |-> t, frame |-> calls[t], parts |-> Parts(call[t]),
             part |-> Part(call[t], pc[t]), chunk |-> done[t] + 1]

\* One chunk of a write leaves; after the last one the write has succeeded.
IoChunk(t) ==
    /\ At(t, "io")
    /\ Writes(call[t])
    /\ wire' = Append(wire, Chunk(t))
    /\ IF done[t] + 1 = Chunks
       THEN /\ done' = [done EXCEPT ![t] = 0]
            /\ result' = IF call[t] = "respond"
                         THEN [result EXCEPT ![t] = @ + Chunks] ELSE result
            /\ Goto(t, After(call[t], pc[t]))
       ELSE /\ done' = [done EXCEPT ![t] = @ + 1]
            /\ UNCHANGED <<result, pc>>
    /\ CountLate(t)
    /\ UNCHANGED <<call, calls, failed, owner, depth, dead>>

\* A read returns data or the end of the stream; a shutdown returns.
IoReturn(t) ==
    /\ At(t, "io")
    /\ ~Writes(call[t])
    /\ Goto(t, After(call[t], pc[t]))
    /\ CountLate(t)
    /\ UNCHANGED <<call, calls, done, failed, result, owner, depth, dead, wire>>

\* A fatal error, before or after some chunks; the call goes on to "mark".
IoError(t) ==
    /\ At(t, "io")
    /\ failed' = [failed EXCEPT ![t] = TRUE]
    /\ result' = [result EXCEPT ![t] = ErrorResult(call[t], @)]
    /\ done' = [done EXCEPT ![t] = 0]
    /\ Goto(t, After(call[t], pc[t]))
    /\ CountLate(t)
    /\ UNCHANGED <<call, calls, owner, depth, dead, wire>>

Mark(t) ==
    /\ At(t, "mark")
    /\ dead' = (dead \/ failed[t])
    /\ failed' = [failed EXCEPT ![t] = FALSE]
    /\ Goto(t, IF failed[t] THEN Bail(call[t], pc[t]) ELSE After(call[t], pc[t]))
    /\ UNCHANGED <<call, calls, done, result, owner, depth, wire, late>>

Io(t) == IoChunk(t) \/ IoReturn(t) \/ IoError(t)

Thread(t) ==
    \/ \E c \in Calls : Begin(t, c)
    \/ Lock(t) \/ Check(t) \/ Io(t) \/ Mark(t) \/ Unlock(t)

Next == \E t \in Threads : Thread(t)

Spec == Init /\ [][Next]_vars

(***************************************************************************)
(* A thread inside a call keeps running.  The mutex is handed to every     *)
(* thread that keeps asking (strong fairness: pthread promises no order,   *)
(* but no holder keeps it).  WF of Io on a read is an assumption about the *)
(* peer: compy_tls_read waits for it with the mutex held, and the socket   *)
(* has no timeout once the handshake is over.                              *)
(***************************************************************************)
Fairness ==
    \A t \in Threads :
        /\ WF_vars(Check(t) \/ Io(t) \/ Mark(t) \/ Unlock(t))
        /\ SF_vars(Lock(t))

FairSpec == Spec /\ Fairness
-----------------------------------------------------------------------------
\* The TLS library is never inside two calls at once on one connection, though
\* TlsWriter_write itself takes no lock and relies on every caller to.
CryptoExclusive ==
    \A t, u \in Threads : At(t, "io") /\ At(u, "io") => t = u

FirstChunk(c) == c.part = 1 /\ c.chunk = 1
LastChunk(c)  == c.part = c.parts /\ c.chunk = Chunks

\* b comes right after a within one frame.
Continues(a, b) ==
    /\ a.by = b.by /\ a.frame = b.frame
    /\ \/ b.part = a.part /\ b.chunk = a.chunk + 1
       \/ b.part = a.part + 1 /\ b.chunk = 1 /\ a.chunk = Chunks

\* The peer can find the frames: a response or an interleaved frame begins only
\* where the one before it is complete.  Nothing is mixed into a frame and
\* nothing follows one that an error cut short, also if another thread meets
\* an error in the middle of it.
FramesWhole ==
    /\ wire # <<>> => FirstChunk(wire[1])
    /\ \A i \in 1 .. Len(wire) - 1 :
        \/ Continues(wire[i], wire[i + 1])
        \/ LastChunk(wire[i]) /\ FirstChunk(wire[i + 1])

\* The chunks of the current or last call of t that are on the wire.
OnWire(t) == { i \in 1 .. Len(wire) : wire[i].by = t /\ wire[i].frame = calls[t] }

\* compy_transport_tcp tells its caller the truth: 0 iff the whole frame left.
TransmitTruthful ==
    \A t \in Threads :
        pc[t] = Idle /\ call[t] = "transmit" =>
            (result[t] = 0 <=> Cardinality(OnWire(t)) = Chunks)

\* compy/controller.h: a negative return of compy_respond_* means that the
\* handler has not been able to respond properly.
RespondTruthful ==
    \A t \in Threads :
        pc[t] = Idle /\ call[t] = "respond" =>
            (result[t] < 0 <=> Cardinality(OnWire(t)) < Parts("respond") * Chunks)

\* What the dead flag guarantees though it is tested before the mutex is taken
\* and set after it is released: a thread that had passed the test when the flag
\* was set begins one more operation, and never a second one.
AtMostOneLateIo == \A t \in Threads : late[t] <= 1

\* Every call returns: no thread waits for the mutex for ever, not even
\* compy_respond, which asks for it again while it holds it.
CallsReturn == \A t \in Threads : pc[t] # Idle ~> pc[t] = Idle
=============================================================================
