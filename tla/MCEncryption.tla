---------------------------- MODULE MCEncryption ----------------------------
(***************************************************************************)
(* The small instance of KeyFile for TLC, and with it the calculations of   *)
(* encryption.cpp that it takes for granted, on bytes of four bits.         *)
(* The key stream and the tag are simple functions of all they depend on.   *)
(***************************************************************************)
EXTENDS MCKeyFile, StoredValues, TLC

MCCorners == {0, 1, 26, 27, 31, 32, 62}
MCMessages == BoundedSeq({2, 8191, 16383}, 2)

MCAlphabet == [digit \in 0 .. 7 |-> 15 - digit]
MCPrefix == <<12, 3>>

MCKeyBytes == k1 :> 1 @@ k2 :> 2 @@ k3 :> 3
MCTextBytes == "" :> <<>> @@ "old" :> <<9>> @@ "new" :> <<9, 0>>

MCStrings == Seq(Byte)

MCKeystream ==
    [k \in 1 .. 3, counter \in 0 .. 20, nonce \in MCStrings |->
        [i \in 1 .. 3 |-> (7 * k + 5 * counter + 3 * i + nonce[1]) % 16]]

\* A polynomial, and the one-time key added to its three digits.
MCMac ==
    [one_time_key \in MCStrings, string \in MCStrings |->
        LET sum[i \in 0 .. Len(string)] ==
                IF i = 0 THEN 1 ELSE (sum[i - 1] * 257 + string[i]) % 4093
        IN  [i \in 1 .. 3 |-> (Part(sum[Len(string)], i, 3, 4) + one_time_key[i]) % 16]]

MCNonces == {<<n>> : n \in {0, 7}}
MCSomeTexts == BoundedSeq({0, 9}, 4)
MCSomeStrings == BoundedSeq({0, 1}, 4)
=============================================================================
