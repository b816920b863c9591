----------------------------- MODULE Ciphertext -----------------------------
(***************************************************************************)
(* The format of an encrypted value, and what makes and opens it            *)
(* (encryption/encryption.cpp): prefix, base64, and in it the nonce, the    *)
(* enciphered text and a tag over both lengths and the text.                *)
(*                                                                         *)
(* Strings are sequences of bytes, which have 8 bits in the code and        *)
(* ByteBits here; three bytes make four base64 digits either way.  The key  *)
(* stream (chacha20_block) and the tag (poly1305, for its arithmetic see    *)
(* Poly1305) are parameters.                                                *)
(***************************************************************************)
EXTENDS Integers, FiniteSets, SequencesExt

CONSTANTS
    ByteBits,
    Alphabet,             \* BASE64_ALPHABET: digit -> byte
    Pad, Quote,           \* the bytes '=' and single quote
    PREFIX,               \* "ENC1:"
    NONCE_SIZE, TAG_SIZE,
    BLOCK_SIZE,           \* of the key stream: 64
    PAD_SIZE,             \* of what the tag is made of: 16
    Keystream,            \* <<key, counter, nonce>> -> block
    Mac,                  \* <<one-time key, string>> -> tag
    SomeKeys, Nonces, SomeTexts, SomeStrings  \* what the properties look at

Byte == 0 .. 2 ^ ByteBits - 1

ASSUME CiphertextAssumption ==
    /\ ByteBits \in Nat /\ ByteBits % 4 = 0
    /\ Alphabet \in [0 .. 2 ^ ((ByteBits * 3) \div 4) - 1 -> Byte]
    /\ \A i, j \in DOMAIN Alphabet : Alphabet[i] = Alphabet[j] => i = j
    /\ Pad \in Byte \ {Quote} /\ {Pad, Quote} \cap Range(Alphabet) = {}
    /\ PREFIX \in Seq(Byte \ {Quote})
    /\ {TAG_SIZE, BLOCK_SIZE, PAD_SIZE} \subseteq Nat \ {0} /\ NONCE_SIZE \in Nat
    /\ \A nonce \in Nonces : nonce \in [1 .. NONCE_SIZE -> Byte]
    /\ SomeTexts \subseteq Seq(Byte)
    /\ IsFiniteSet(SomeStrings) /\ SomeStrings \subseteq Seq(Byte)

DigitBits == (ByteBits * 3) \div 4
Zeros(n) == [i \in 1 .. n |-> 0]

\* What a function that may fail returns.
Failed == [ok |-> FALSE]
Got(string) == [ok |-> TRUE, string |-> string]

------------------------------------------------------------------------------
\* Base64.

\* The i-th of so many parts of a number with so many bits each, highest first.
Part(number, i, parts, bits) == (number \div 2 ^ (bits * (parts - i))) % 2 ^ bits

EncodedGroup(group) ==
    LET full == group \o Zeros(3 - Len(group))
        v == full[1] * 2 ^ (2 * ByteBits) + full[2] * 2 ^ ByteBits + full[3]
    IN  [i \in 1 .. 4 |-> IF i <= Len(group) + 1 THEN Alphabet[Part(v, i, 4, DigitBits)] ELSE Pad]

base64_encode(data) ==
    LET groups == [g \in 1 .. (Len(data) + 2) \div 3 |->
            EncodedGroup(SubSeq(data, 3 * g - 2, IF 3 * g < Len(data) THEN 3 * g ELSE Len(data)))]
    IN  [i \in 1 .. 4 * Len(groups) |-> groups[1 + ((i - 1) \div 4)][1 + ((i - 1) % 4)]]

base64_value(c) ==
    LET digits == {digit \in DOMAIN Alphabet : Alphabet[digit] = c}
    IN  IF digits = {} THEN -1 ELSE CHOOSE digit \in digits : TRUE

\* Padding counts as such in the last group only, one or two bytes of it.
IsGroup(group, last) ==
    /\ \A i \in 1 .. 4 : base64_value(group[i]) # -1 \/ (last /\ i > 2 /\ group[i] = Pad)
    /\ group[3] = Pad => group[4] = Pad

DecodedNumber(group) ==
    LET digits == [i \in 1 .. 4 |-> IF group[i] = Pad THEN 0 ELSE base64_value(group[i])]
    IN  digits[1] * 2 ^ (3 * DigitBits) + digits[2] * 2 ^ (2 * DigitBits)
            + digits[3] * 2 ^ DigitBits + digits[4]

\* (fault) the bytes that padding stands for are kept
DecodedGroupWithPadding(group) == [i \in 1 .. 3 |-> Part(DecodedNumber(group), i, 3, ByteBits)]

DecodedGroup(group) ==
    [i \in 1 .. Cardinality({j \in 2 .. 4 : group[j] # Pad}) |->
        Part(DecodedNumber(group), i, 3, ByteBits)]

base64_decode(text) ==
    LET groups == [g \in 1 .. Len(text) \div 4 |-> SubSeq(text, 4 * g - 3, 4 * g)]
        bytes == [g \in DOMAIN groups |-> DecodedGroup(groups[g])]
        size == IF text = <<>> THEN 0 ELSE 3 * (Len(groups) - 1) + Len(bytes[Len(groups)])
    IN  IF Len(text) % 4 = 0 /\ \A g \in DOMAIN groups : IsGroup(groups[g], g = Len(groups))
        THEN Got([i \in 1 .. size |-> bytes[1 + ((i - 1) \div 3)][1 + ((i - 1) % 3)]])
        ELSE Failed

------------------------------------------------------------------------------
\* Authenticated encryption.

Padded(string) == string \o Zeros((PAD_SIZE - (Len(string) % PAD_SIZE)) % PAD_SIZE)

\* (fault) the lengths are left out
aead_mac_data_without_lengths(aad, ciphertext) == Padded(aad) \o Padded(ciphertext)

\* Eight bytes of v, the lowest first.
append64_le(out, v) ==
    LET shifted[i \in 0 .. 7] == IF i = 0 THEN v ELSE shifted[i - 1] \div 2 ^ ByteBits
    IN  out \o [i \in 1 .. 8 |-> shifted[i - 1] % 2 ^ ByteBits]

aead_mac_data(aad, ciphertext) ==
    append64_le(append64_le(Padded(aad) \o Padded(ciphertext), Len(aad)), Len(ciphertext))

\* The operator ^ on bytes.
Xor ==
    [a \in Byte |-> [b \in Byte |->
        LET low[bits \in 0 .. ByteBits] ==
                IF bits = 0 THEN 0
                ELSE low[bits - 1] + 2 ^ (bits - 1)
                        * ((a \div 2 ^ (bits - 1) + b \div 2 ^ (bits - 1)) % 2)
        IN  low[ByteBits]]]

chacha20_xor(k, counter, nonce, data) ==
    [i \in DOMAIN data |->
        Xor[data[i]][Keystream[k, counter + ((i - 1) \div BLOCK_SIZE), nonce][1 + ((i - 1) % BLOCK_SIZE)]]]

poly1305_key_gen(k, nonce) == Keystream[k, 0, nonce]

aead_seal(k, nonce, aad, plaintext) ==
    LET ciphertext == chacha20_xor(k, 1, nonce, plaintext)
    IN  ciphertext \o Mac[poly1305_key_gen(k, nonce), aead_mac_data(aad, ciphertext)]

\* (fault) the tag is cut off and not looked at
aead_open_unchecked(k, nonce, aad, sealed) ==
    IF Len(sealed) < TAG_SIZE THEN Failed
    ELSE Got(chacha20_xor(k, 1, nonce, SubSeq(sealed, 1, Len(sealed) - TAG_SIZE)))

aead_open(k, nonce, aad, sealed) ==
    LET size == Len(sealed) - TAG_SIZE
        ciphertext == SubSeq(sealed, 1, size)
    IN  IF /\ size >= 0
           /\ SubSeq(sealed, size + 1, Len(sealed))
                = Mac[poly1305_key_gen(k, nonce), aead_mac_data(aad, ciphertext)]
        THEN Got(chacha20_xor(k, 1, nonce, ciphertext))
        ELSE Failed

encrypt(k, nonce, input) ==
    PREFIX \o base64_encode(nonce \o aead_seal(k, nonce, PREFIX, input))

try_decrypt(k, input) ==
    LET payload == base64_decode(SubSeq(input, Len(PREFIX) + 1, Len(input)))
    IN  IF ~IsPrefix(PREFIX, input) \/ ~payload.ok THEN Failed
        ELSE IF Len(payload.string) < NONCE_SIZE + TAG_SIZE THEN Failed
        ELSE aead_open(k, SubSeq(payload.string, 1, NONCE_SIZE), PREFIX,
                       SubSeq(payload.string, NONCE_SIZE + 1, Len(payload.string)))

------------------------------------------------------------------------------
\* The properties are about these, and StoredValues states them.

\* A value opens as what it was made from, and no quote in it ends an SQL string.
Opened ==
    \A k \in SomeKeys, nonce \in Nonces, text \in SomeTexts :
        LET stored == encrypt(k, nonce, text)
        IN  /\ try_decrypt(k, stored) = Got(text)
            /\ \A i \in DOMAIN stored : stored[i] # Quote

\* The last digit before padding has bits that no byte of the payload is made of.
SpareBits(stored, i) ==
    IF i > Len(PREFIX) /\ i < Len(stored) /\ stored[i] # Pad /\ stored[i + 1] = Pad
    THEN (Len(stored) - i) * (ByteBits \div 4)
    ELSE 0

ReadAlike(stored, i, byte) ==
    \/ byte = stored[i]
    \/ /\ SpareBits(stored, i) > 0 /\ byte \in Range(Alphabet)
       /\ base64_value(byte) \div 2 ^ SpareBits(stored, i)
            = base64_value(stored[i]) \div 2 ^ SpareBits(stored, i)

\* One that lost its end does not open, nor does one with a byte changed, unless only
\* spare bits are: then, and only then, it opens, as what it was.
DamageNoticed ==
    \A k \in SomeKeys, nonce \in Nonces, text \in SomeTexts :
        LET stored == encrypt(k, nonce, text)
        IN  /\ \A i \in DOMAIN stored, byte \in Byte :
                  try_decrypt(k, [stored EXCEPT ![i] = byte])
                      = IF ReadAlike(stored, i, byte) THEN Got(text) ELSE Failed
            /\ \A size \in 0 .. Len(stored) - 1 : ~try_decrypt(k, SubSeq(stored, 1, size)).ok

\* No two pairs of strings are the same input of the tag.
Distinguished ==
    Cardinality({aead_mac_data(aad, ciphertext) : aad \in SomeStrings, ciphertext \in SomeStrings})
        = Cardinality(SomeStrings) * Cardinality(SomeStrings)
=============================================================================
