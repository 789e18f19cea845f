----------------------------- MODULE SdpCrypto -----------------------------
(***************************************************************************)
(* SDP crypto attributes (src/transport/srtp.c): a key is generated,       *)
(* written as "<tag> <suite> inline:<Base64>" and read on the other side,  *)
(* or an attribute of another implementation is read.  Of the text the     *)
(* model has the three fields that sscanf looks for.                       *)
(***************************************************************************)
EXTENDS Base64

CONSTANTS
    Randoms,        \* what random_bytes may yield: sequences of 30 octets
    Foreign,        \* attributes that other implementations write
    BufLens         \* sizes of the buffer given to format_crypto_attr

KEY == 16
SALT == 14

ASSUME CryptoAssumption ==
    /\ Randoms \subseteq [1 .. KEY + SALT -> 0 .. 255]
    /\ \A a \in Foreign : a.text \in Seq(0 .. Stranger)
    /\ BufLens \subseteq Nat

Suites == {"AES_CM_128_HMAC_SHA1_80", "AES_CM_128_HMAC_SHA1_32"}

VARIABLES
    k_key,      \* Compy_SrtpKeyMaterial of the sender, <<>> if not generated
    k_suite,    \* the suite that it asked for
    k_attr,     \* the attribute on its way, NoAttr if there is none
    k_own,      \* is it our own?
    k_got       \* suite and key on the other side; NoAttr, or Refused

cryptoVars == <<k_key, k_suite, k_attr, k_own, k_got>>

NoAttr == [suite |-> "none", text |-> <<>>]
RefusedAttr == [suite |-> "refused", text |-> <<>>]

CryptoInit == k_key = <<>> /\ k_suite = "none" /\ k_attr = NoAttr /\ k_own = TRUE /\ k_got = NoAttr

\* compy_srtp_generate_key.  If random_bytes fails the caller has no key.
GenerateKey ==
    /\ k_key = <<>> /\ k_attr = NoAttr
    /\ \E r \in Randoms : k_key' = r
    /\ UNCHANGED <<k_suite, k_attr, k_own, k_got>>

\* Length of the attribute with a tag of one digit; both suites have 23
\* characters, and "inline:" has 7.
AttrLen(b64) == 1 + 1 + 23 + 1 + 7 + Len(b64)

\* Mutant: the buffer may be filled to the last octet, which snprintf needs
\* for the terminator.
Truncated_OffByOne(len, buf_len) == len > buf_len

\* snprintf had to cut.
Truncated(len, buf_len) == len >= buf_len

\* compy_srtp_format_crypto_attr, with 44 octets for the Base64 text.
FormatCryptoAttr(suite, buf_len) ==
    LET b64 == Encode(k_key, 44)
        cut == AttrLen(b64) - buf_len + 1
        kept == IF cut > 0 THEN SubSeq(b64, 1, Len(b64) - cut) ELSE b64
    IN  /\ k_key # <<>> /\ k_attr = NoAttr /\ k_got = NoAttr
        /\ k_suite' = suite
        /\ IF b64 = NoText \/ suite \notin Suites \/ Truncated(AttrLen(b64), buf_len)
           THEN k_attr' = RefusedAttr
           ELSE k_attr' = [suite |-> suite, text |-> kept]
        /\ UNCHANGED <<k_key, k_own, k_got>>

\* Another implementation (external) writes the attribute.
ForeignAttr ==
    /\ k_attr = NoAttr /\ k_key = <<>>
    /\ \E a \in Foreign : k_attr' = a
    /\ k_own' = FALSE
    /\ UNCHANGED <<k_key, k_suite, k_got>>

\* compy_srtp_parse_crypto_attr: at most 63 characters of the key are read,
\* and they must stand for 30 octets.
ParseCryptoAttr ==
    LET text == SubSeq(k_attr.text, 1, IF Len(k_attr.text) < 63 THEN Len(k_attr.text) ELSE 63)
        key == Decode(text, KEY + SALT)
    IN  /\ k_attr \notin {NoAttr, RefusedAttr} /\ k_got = NoAttr
        /\ k_got' = IF text = <<>> \/ k_attr.suite \notin Suites \/ Len(key) # KEY + SALT
                    THEN RefusedAttr ELSE [suite |-> k_attr.suite, text |-> key]
        /\ UNCHANGED <<k_key, k_suite, k_attr, k_own>>

CryptoNext ==
    \/ GenerateKey
    \/ \E suite \in Suites \cup {"unknown"}, n \in BufLens : FormatCryptoAttr(suite, n)
    \/ ForeignAttr
    \/ ParseCryptoAttr

CryptoSpec == CryptoInit /\ [][CryptoNext]_cryptoVars

\* What format_crypto_attr wrote, parse_crypto_attr reads as the same suite and
\* the same key, whatever the size of the buffer and the octets of the key; and
\* of a foreign attribute that is accepted, every character counts ('=' in the
\* middle of it is read as 'A').
KeyRoundTrip ==
    /\ k_own /\ k_got # NoAttr => k_got = [suite |-> k_suite, text |-> k_key]
    /\ ~k_own /\ k_got \notin {NoAttr, RefusedAttr} =>
           Encode(k_got.text, 44) = [i \in DOMAIN k_attr.text |-> Sextet(k_attr.text[i])]
=============================================================================
