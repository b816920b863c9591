---------------------------- MODULE StoredValues ----------------------------
(***************************************************************************)
(* The values of KeyFile as the bytes they are in the database: what        *)
(* Encryption says of a value under some layers of keys is what the code    *)
(* of encryption.cpp (Ciphertext, Poly1305) does to its bytes.              *)
(***************************************************************************)
EXTENDS KeyFile, Ciphertext, Poly1305

CONSTANTS
    KeyBytes,    \* the bytes of a key
    TextBytes    \* the bytes of a plain text

ASSUME StoredValuesAssumption ==
    /\ DOMAIN KeyBytes = Keys
    /\ DOMAIN TextBytes = PlainTexts /\ \A text \in PlainTexts : TextBytes[text] \in Seq(Byte)

\* A value sealed with the keys of its layers, one after the other.
StoredBytes(value, nonce) ==
    LET sealed[n \in 0 .. Len(value.layers)] ==
            IF n = 0 THEN TextBytes[value.text]
            ELSE encrypt(KeyBytes[value.layers[n]], nonce, sealed[n - 1])
    IN  sealed[Len(value.layers)]

\* The calculations have no state of their own: those that are checked over bounded
\* inputs, and not over the rows, are looked at once, before the first start.
Unused == sessions = 0

------------------------------------------------------------------------------
\* Properties.

\* encryption.hpp:84, "Decrypts a value produced by encrypt() with the same key".  A row
\* that plain text, lost keys and repeated sealing brought about opens with the key of its
\* outermost layer as what is in that layer, which is what KeyFile takes for granted; and
\* whatever the length of the text, a stored value opens as what it was made from and
\* holds no quote that would end an SQL string.
StoredValueOpens ==
    /\ \A id \in Ids, k \in Keys, nonce \in Nonces :
          TryDecrypt(k, db[id]) =>
              try_decrypt(KeyBytes[k], StoredBytes(db[id], nonce))
                  = Got(StoredBytes(Decrypted(db[id]), nonce))
    /\ Unused => Opened

\* encryption.hpp:23-24, "a tampered or corrupted password fails to decrypt instead of
\* returning garbage": a row does not open with any other key, and a stored value that
\* lost its end or has one byte changed, padding and prefix included, does not open.
\* Against encryption.hpp:22-23, where the tag "detects any change to the stored value",
\* there is one exception: base64_decode drops bits of the last digit before padding
\* (encryption.cpp:397-406), and a value with only these changed opens as the same text.
NothingElseOpens ==
    /\ \A id \in Ids, k \in Keys, nonce \in Nonces :
          ~TryDecrypt(k, db[id]) => try_decrypt(KeyBytes[k], StoredBytes(db[id], nonce)) = Failed
    /\ Unused => DamageNoticed

\* encryption.cpp:130-131, 136-139: no two pairs of associated data and ciphertext are
\* the same input of the tag, though both are padded with zeros they may end with.
MacDataUnambiguous == Unused => Distinguished

\* encryption.cpp:214, "Computes ((sum of message blocks, each as a number with a high
\* bit added) * r^i) mod 2^130-5, + s": in every turn of the loop, from every accumulator
\* the turn before may leave, in the reduction after the last one, and over a whole message.
Poly1305Correct == Unused => AbsorbedExact /\ ReducedExact /\ TagExact
=============================================================================
