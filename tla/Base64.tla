------------------------------- MODULE Base64 -------------------------------
(***************************************************************************)
(* compy_base64_encode and compy_base64_decode (src/base64.c).  Data are   *)
(* sequences of octets, texts sequences of characters: 0 .. 63 for the     *)
(* alphabet, 64 for '=', 65 for all others.                                *)
(***************************************************************************)
EXTENDS Integers, Sequences

Pad == 64
Stranger == 65
NoText == <<-1>>        \* the result -1

Octet(data, i) == IF i <= Len(data) THEN data[i] ELSE 0

\* Character j of the text: the loop, and the group behind it.
EncodedChar(data, j) ==
    LET g == 3 * ((j - 1) \div 4)
        k == (j - 1) % 4
        triplet == Octet(data, g + 1) * 65536 + Octet(data, g + 2) * 256 + Octet(data, g + 3)
    IN  IF k >= 2 /\ g + k > Len(data) THEN Pad
        ELSE (triplet \div <<262144, 4096, 64, 1>>[k + 1]) % 64

Encode(data, out_max) ==
    LET len == ((Len(data) + 2) \div 3) * 4
    IN  IF out_max < len + 1 THEN NoText
        ELSE [j \in 1 .. len |-> EncodedChar(data, j)]

\* b64_decode_table: '=' has the value 0, wherever it stands.
Sextet(c) == IF c < Pad THEN c ELSE 0

DecodedOctet(text, i) ==
    LET g == 4 * ((i - 1) \div 3)
        k == (i - 1) % 3
        triple == Sextet(text[g + 1]) * 262144 + Sextet(text[g + 2]) * 4096
                  + Sextet(text[g + 3]) * 64 + Sextet(text[g + 4])
    IN  (triple \div <<65536, 256, 1>>[k + 1]) % 256

\* decoded_len of compy_base64_decode.
DecodedLen(text) ==
    LET n == Len(text)
    IN  (n \div 4) * 3 - (IF text[n] = Pad THEN 1 ELSE 0) - (IF text[n - 1] = Pad THEN 1 ELSE 0)

Decode(text, out_max) ==
    IF text = <<>> THEN <<>>
    ELSE IF Len(text) % 4 # 0 \/ \E i \in DOMAIN text : text[i] = Stranger THEN NoText
    ELSE IF out_max < DecodedLen(text) THEN NoText
    ELSE [i \in 1 .. DecodedLen(text) |-> DecodedOctet(text, i)]
=============================================================================
