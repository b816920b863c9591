------------------------------ MODULE Poly1305 ------------------------------
(***************************************************************************)
(* The arithmetic of Encryption::poly1305 (encryption/encryption.cpp): a    *)
(* number modulo p kept in limbs of a few bits, in 32-bit and 64-bit words  *)
(* that wrap around.  The code has 5 limbs of 26 bits, p = 2^130 - 5 and    *)
(* blocks of 16 bytes; here the number of limbs and how far each counts     *)
(* are parameters, a word has 6 bits more than a limb as it has there, and  *)
(* a block has 2 bits less than the limbs together.  Loading bytes into     *)
(* limbs, and limbs into bytes, is taking the digits of a number.           *)
(***************************************************************************)
EXTENDS Integers, Sequences

CONSTANTS
    Limbs,       \* how many there are
    B,           \* how many values a limb has: 2^26
    Corners,     \* the limb values the accumulator is checked with
    Messages     \* the sequences of blocks the whole calculation is checked with

ASSUME Poly1305Assumption ==
    /\ Limbs \in Nat /\ Limbs > 1
    /\ B \in Nat /\ B > 0 /\ B % 4 = 0
    /\ Corners \subseteq Nat

Index == 0 .. Limbs - 1
Top == Limbs - 1

\* B^i, which is what limb i counts
Weight[i \in 0 .. Limbs] == IF i = 0 THEN 1 ELSE B * Weight[i - 1]

\* How many values a block of the message has: 2^128.
BlockValues == Weight[Limbs] \div 4

ASSUME MessagesAssumption == Messages \subseteq Seq(0 .. 2 * BlockValues - 1)

Word == 64 * B
U32(n) == n % Word
U64(n) == n % (Word * Word)

Total(terms) ==
    LET sum[i \in Index] == terms[i] + (IF i = 0 THEN 0 ELSE sum[i - 1])
    IN  sum[Top]

\* The limbs of a number, and the number in some limbs.
LimbsOf(n) == [i \in Index |-> (n \div Weight[i]) % B]
Value(h) == Total([i \in Index |-> h[i] * Weight[i]])

\* What is below some power of two, and a one in that place: at the top of a full block
\* (hibit), after the last byte of a shorter one.
Block(place, n) == n + place

\* (fault) the products are computed in 32 bits
ProductIn32Bits(h, r) ==
    [i \in Index |-> U32(Total([j \in Index |->
        IF j <= i THEN h[j] * r[i - j] ELSE h[j] * U32(5 * r[Limbs + i - j])]))]

\* d = h * r: what goes beyond the top limb comes back five times, as B^Limbs = 5.
Product(h, r) ==
    [i \in Index |-> U64(Total([j \in Index |->
        IF j <= i THEN h[j] * r[i - j] ELSE h[j] * U32(5 * r[Limbs + i - j])]))]

\* Carries from limb to limb, starting at this one with what came in.
Carried(d, first) ==
    LET total[i \in first .. Top] ==
            IF i = first THEN d[i] ELSE U64(d[i] + U32(total[i - 1] \div B))
    IN  [i \in Index |-> IF i < first THEN d[i]
                         ELSE IF i < Top THEN total[i] % B ELSE total[i]]

\* The carry out of the top limb goes into the lowest, and on into the next.
WrappedAround(d) ==
    LET h0 == U32(d[0] + U32(5 * U32(d[Top] \div B)))
    IN  [i \in Index |->
            CASE i = 0 -> h0 % B
              [] i = 1 -> U32((IF Top = 1 THEN d[1] % B ELSE d[1]) + h0 \div B)
              [] OTHER -> d[i] % B]

\* One turn of the loop over the message.
Absorbed(h, r, block) ==
    LET sum == [i \in Index |-> U32(h[i] + LimbsOf(block)[i])]
    IN  WrappedAround(Carried(Product(sum, r), 0))

\* h - p, or a top limb whose sign bit says that h < p
MinusP(h) ==
    LET g == [i \in Index |-> IF i = 0 THEN h[0] + 5 ELSE h[i]]
    IN  [Carried(g, 0) EXCEPT ![Top] = U32(@ - B)]

\* After the last block: carry, and subtract p unless that is negative.
Reduced(h) ==
    LET carried == WrappedAround(Carried(h, 1))
        g == MinusP(carried)
    IN  IF g[Top] >= Word \div 2 THEN carried ELSE g

\* The second half of the key is added, and as many bits kept as a block has.
Tag(h, s) == (Value(Reduced(h)) + s) % BlockValues

\* The tag of a message, with the two halves of the one-time key.
poly1305(r, s, message) ==
    LET h[n \in 0 .. Len(message)] ==
            IF n = 0 THEN [i \in Index |-> 0] ELSE Absorbed(h[n - 1], r, message[n])
    IN  Tag(h[Len(message)], s)

------------------------------------------------------------------------------
\* The definition (RFC 8439, 2.5): a polynomial modulo p.

P == Weight[Limbs] - 5

Polynomial(r, message) ==
    LET sum[n \in 0 .. Len(message)] ==
            IF n = 0 THEN 0 ELSE ((sum[n - 1] + message[n]) * Value(r)) % P
    IN  sum[Len(message)]

AreLimbs(h, second) == \A i \in Index : h[i] < IF i = 1 THEN second ELSE B

\* Between two blocks limb 1 may be larger than a limb, by what came around.
Larger == B + 10 * Limbs + 1

Accumulators == {h \in [Index -> Corners] : AreLimbs(h, Larger)}
Factors == {r \in [Index -> Corners] : AreLimbs(r, B)}
SomeBlocks ==
    {Block(place, n) : place \in {2, BlockValues \div 2, BlockValues}, n \in {0, 1}}
        \cup {Block(BlockValues, BlockValues - 1)}
Pads == {0, 1, BlockValues - 1}

\* A block takes the accumulator from any value it may have to one that stands for
\* (h + block) * r modulo p and that the next turn can start from, so no product or
\* carry is cut off by its word.
TurnExact(h, r, block) ==
    LET next == Absorbed(h, r, block)
    IN  /\ Value(next) % P = (((Value(h) + block) % P) * Value(r)) % P
        /\ AreLimbs(next, Larger)

\* In the end the accumulator is brought below p, with limbs that can be packed without
\* overlapping.
ReductionExact(h) == Value(Reduced(h)) = Value(h) % P /\ AreLimbs(Reduced(h), B)

AbsorbedExact == \A h \in Accumulators, r \in Factors, block \in SomeBlocks : TurnExact(h, r, block)
ReducedExact == \A h \in Accumulators : ReductionExact(h)
TagExact ==
    \A r \in Factors, s \in Pads, message \in Messages :
        poly1305(r, s, message) = (Polynomial(r, message) + s) % BlockValues
=============================================================================
