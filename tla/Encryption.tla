----------------------------- MODULE Encryption -----------------------------
(***************************************************************************)
(* Password values as encryption/encryption.cpp sees them.  A value is a    *)
(* text under zero or more layers of encryption, innermost first: plain     *)
(* text has none, and one layer is one "ENC1:..." string made with one key. *)
(* Authenticated encryption is modelled by what it guarantees: try_decrypt  *)
(* succeeds exactly on values whose outermost layer was made with that key. *)
(* A value damaged on disk is a layer made with a key nobody holds.         *)
(***************************************************************************)
EXTENDS Integers, Sequences

CONSTANTS Keys, PlainTexts

Values == [layers : Seq(Keys), text : PlainTexts]

Plain(text) == [layers |-> <<>>, text |-> text]

\* Encryption::encrypt
Encrypted(key, value) ==
    [layers |-> Append(value.layers, key), text |-> value.text]

\* Encryption::try_decrypt: does it succeed, and with which output?
TryDecrypt(key, value) ==
    /\ Len(value.layers) > 0
    /\ value.layers[Len(value.layers)] = key

Decrypted(value) ==
    [layers |-> SubSeq(value.layers, 1, Len(value.layers) - 1),
     text   |-> value.text]

\* (fault) takes every value that looks encrypted for one of its own
EncryptForStorageByPrefix(key, value) ==
    IF Len(value.layers) > 0 THEN value ELSE Encrypted(key, value)

\* UserAccount::encrypt_for_storage
EncryptForStorage(key, value) ==
    IF TryDecrypt(key, value) THEN value ELSE Encrypted(key, value)

\* The password a user is shown for a stored value (UserAccount::decrypted_copy).
Shown(key, value, empty) ==
    IF TryDecrypt(key, value) THEN Decrypted(value) ELSE empty
=============================================================================
