-------------------------------- MODULE Md5 --------------------------------
(***************************************************************************)
(* The framing of src/md5.c: data that come in pieces are cut into blocks  *)
(* of 64 octets, padded and closed with their length.  md5_transform is    *)
(* abstract: the state is the sequence of blocks it was given.             *)
(*                                                                         *)
(* An octet of the message is <<"data", its position>>, an octet with a    *)
(* known value <<"value", it>>; Unset is memory that nobody has written.   *)
(***************************************************************************)
EXTENDS Integers, SequencesExt

CONSTANTS
    Pieces,         \* lengths of the pieces given to compy_md5_update
    MaxPieces       \* bound: pieces of one message

\* No piece is longer than n, and MaxPieces of them are less than 2^13 octets:
\* the texts whose digests src/auth.c makes are.
MessageLengths == 0 .. 8191
PieceBound(n) == n * MaxPieces \in MessageLengths /\ \A len \in Pieces : len <= n
ASSUME Md5Assumption ==
    Pieces \subseteq Nat /\ MaxPieces \in Nat /\ \E n \in MessageLengths : PieceBound(n)

BLOCK == 64
Value(v) == <<"value", v>>
Unset == <<"unset", 0>>

VARIABLES
    md5,            \* Compy_Md5: state (the blocks), count, buffer
    m_fed,          \* history: octets given to update
    m_pieces,       \* history: calls of update
    m_final         \* has compy_md5_final been called?

md5Vars == <<md5, m_fed, m_pieces, m_final>>

\* compy_md5_init.
Md5Init ==
    /\ md5 = [state |-> <<>>, count |-> 0, buffer |-> [i \in 1 .. BLOCK |-> Unset]]
    /\ m_fed = 0 /\ m_pieces = 0 /\ m_final = FALSE

\* md5_transform; a sequence of blocks is transformed one after the other.
Transform(state, block) == Append(state, block)

\* memcpy into the buffer.
Fill(buffer, at, data) ==
    [i \in 1 .. BLOCK |-> IF i \in at + 1 .. at + Len(data) THEN data[i - at] ELSE buffer[i]]

\* Mutant: a piece that fills the buffer exactly is not transformed.
Completes_More(index, len) == index > 0 /\ len > BLOCK - index

\* Does the piece complete the block that was begun?
Completes(index, len) == index > 0 /\ len >= BLOCK - index

\* compy_md5_update: the block begun before, whole blocks, the rest.
Md5Update(ctx, data) ==
    LET index == ctx.count % BLOCK
        part == IF Completes(index, Len(data)) THEN BLOCK - index ELSE 0
        whole == (Len(data) - part) \div BLOCK
        filled == Fill(ctx.buffer, index, SubSeq(data, 1, part))
        block(i) == SubSeq(data, part + BLOCK * (i - 1) + 1, part + BLOCK * i)
        rest == SubSeq(data, part + BLOCK * whole + 1, Len(data))
        first == IF part > 0 THEN Transform(ctx.state, filled) ELSE ctx.state
    IN  IF index > 0 /\ part = 0
        THEN [state |-> ctx.state, count |-> ctx.count + Len(data),
              buffer |-> Fill(ctx.buffer, index, data)]
        ELSE [state |-> first \o [i \in 1 .. whole |-> block(i)],
              count |-> ctx.count + Len(data),
              buffer |-> Fill(IF part > 0 THEN filled ELSE ctx.buffer, 0, rest)]

\* The eight octets of bit_count.
Bits(count) ==
    LET shifted[i \in 1 .. 8] == IF i = 1 THEN count * 8 ELSE shifted[i - 1] \div 256
    IN  [i \in 1 .. 8 |-> Value(shifted[i] % 256)]

\* pad_len of compy_md5_final, and the octets of md5_padding.
PadLen(index) == IF index < 56 THEN 56 - index ELSE 120 - index
Padding(len) == [i \in 1 .. len |-> Value(IF i = 1 THEN 128 ELSE 0)]

Update(len) ==
    /\ ~m_final
    /\ m_pieces < MaxPieces
    /\ md5' = Md5Update(md5, [i \in 1 .. len |-> <<"data", m_fed + i>>])
    /\ m_fed' = m_fed + len
    /\ m_pieces' = m_pieces + 1
    /\ UNCHANGED m_final

\* compy_md5_final.
Final ==
    /\ ~m_final
    /\ md5' = Md5Update(Md5Update(md5, Padding(PadLen(md5.count % BLOCK))), Bits(md5.count))
    /\ m_final' = TRUE
    /\ UNCHANGED <<m_fed, m_pieces>>

Md5Next == (\E len \in Pieces : Update(len)) \/ Final

Md5Spec == Md5Init /\ [][Md5Next]_md5Vars

\* RFC 1321: however the message was cut, md5_transform is given its octets in
\* order, then one bit, as few zeros as fill a block, and the length in bits;
\* before that, what is not yet transformed waits in the buffer.  (The message
\* is shorter than 2^13 octets here.)
Md5Blocks ==
    LET got == FlattenSeq(md5.state)
        message == [i \in 1 .. m_fed |-> <<"data", i>>]
        zeros == (55 - m_fed) % BLOCK
    IN  IF m_final
        THEN got = message \o <<Value(128)>> \o [i \in 1 .. zeros |-> Value(0)]
                   \o <<Value((8 * m_fed) % 256), Value((8 * m_fed) \div 256)>>
                   \o [i \in 1 .. 6 |-> Value(0)]
        ELSE got \o SubSeq(md5.buffer, 1, m_fed % BLOCK) = message
=============================================================================
