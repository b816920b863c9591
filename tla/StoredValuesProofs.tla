------------------------- MODULE StoredValuesProofs -------------------------
(***************************************************************************)
(* Theorems of StoredValues, and of the KeyFile, Poly1305 and Ciphertext    *)
(* it is made of, for every value of their constants.  From the bottom up:  *)
(* division and numbers in limbs, one turn of the loop of poly1305, its     *)
(* final reduction and whole messages; base64, the format of a stored       *)
(* value, and the input of the tag; then the key file and the rows.         *)
(***************************************************************************)
EXTENDS StoredValues, SequenceTheorems, FiniteSetTheorems, WellFoundedInduction, TLAPS

------------------------------------------------------------------------------
\* Division.

\* A number is its quotient and its remainder.
LEMMA Division ==
    ASSUME NEW n \in Int, NEW b \in Nat \ {0}
    PROVE  n \div b \in Int /\ n % b \in 0 .. b - 1 /\ n = b * (n \div b) + (n % b)
  OBVIOUS

\* A quotient and a remainder, from a number that is made of them.
LEMMA Quotient ==
    ASSUME NEW b \in Nat \ {0}, NEW q \in Int, NEW r \in 0 .. b - 1, NEW n, n = b * q + r
    PROVE  n \div b = q /\ n % b = r
  OBVIOUS

\* What is below the divisor is its own remainder.
LEMMA Fits ==
    ASSUME NEW b \in Nat \ {0}, NEW n \in 0 .. b - 1
    PROVE  n % b = n /\ n \div b = 0
  OBVIOUS

\* A quotient is below what the number is below, divided.
LEMMA QuotientBound ==
    ASSUME NEW n \in Nat, NEW b \in Nat \ {0}, NEW q \in Nat, n < b * q
    PROVE  n \div b \in Nat /\ n \div b < q
  <1>1. n \div b \in Int /\ n % b \in 0 .. b - 1 /\ n = b * (n \div b) + (n % b)
    BY Division
  <1>2. ASSUME n \div b < 0 PROVE FALSE
    <2> DEFINE m == 0 - (n \div b) - 1
    <2>1. m \in Nat /\ n \div b = 0 - m - 1
      BY <1>1, <1>2
    <2>2. b * (n \div b) = 0 - b * m - b
      BY <2>1
    <2>3. b * m >= 0
      BY <2>1
    <2> HIDE DEF m
    <2> QED
      BY <1>1, <2>1, <2>2, <2>3
  <1>3. ASSUME n \div b >= q PROVE FALSE
    <2> DEFINE m == (n \div b) - q
    <2>1. m \in Nat /\ n \div b = q + m
      BY <1>1, <1>3
    <2>2. b * (n \div b) = b * q + b * m
      BY <2>1
    <2>3. b * m >= 0
      BY <2>1
    <2> HIDE DEF m
    <2> QED
      BY <1>1, <2>1, <2>2, <2>3
  <1> QED
    BY <1>1, <1>2, <1>3

\* The quotient of a natural number is one.
LEMMA DivisionOfNat ==
    ASSUME NEW n \in Nat, NEW b \in Nat \ {0}
    PROVE  n \div b \in Nat /\ n % b \in 0 .. b - 1 /\ n = b * (n \div b) + (n % b)
  <1>1. n + 1 \in Nat /\ n < b * (n + 1)
    <2>1. b * (n + 1) = (b - 1) * n + n + b /\ (b - 1) * n >= 0
      OBVIOUS
    <2> QED
      BY <2>1
  <1>2. n \div b \in Nat
    BY <1>1, QuotientBound
  <1> QED
    BY <1>2, Division

\* Numbers that differ by a multiple of the modulus are the same modulo it.
LEMMA SameModulo ==
    ASSUME NEW n \in Int, NEW b \in Nat \ {0}, NEW k \in Int
    PROVE  (n + b * k) % b = n % b
  <1>1. n \div b \in Int /\ n % b \in 0 .. b - 1 /\ n = b * (n \div b) + (n % b)
    BY Division
  <1> DEFINE q == (n \div b) + k
             r == n % b
             m == n + b * k
  <1>2. q \in Int /\ r \in 0 .. b - 1 /\ m = b * q + r
    BY <1>1
  <1>3. m % b = r
    <2> HIDE DEF q, r, m
    <2> QED
      BY <1>2, Quotient
  <1> QED
    BY <1>3

\* A factor may be replaced by what it is modulo the modulus.
LEMMA ProductModulo ==
    ASSUME NEW n \in Int, NEW m \in Int, NEW b \in Nat \ {0}
    PROVE  ((n % b) * m) % b = (n * m) % b
  <1>1. n \div b \in Int /\ n % b \in Int /\ n = b * (n \div b) + (n % b)
    BY Division
  <1> DEFINE q == n \div b
             r == n % b
  <1>2. n * m = r * m + b * (q * m)
    <2> HIDE DEF q, r
    <2> QED
      BY <1>1 DEF q, r
  <1>3. r * m \in Int /\ q * m \in Int
    BY <1>1
  <1>4. (r * m + b * (q * m)) % b = (r * m) % b
    <2> DEFINE x == r * m
               k == q * m
    <2>1. x \in Int /\ k \in Int
      BY <1>3
    <2> HIDE DEF x, k
    <2>2. (x + b * k) % b = x % b
      BY <2>1, SameModulo
    <2> QED
      BY <2>2 DEF x, k
  <1> QED
    BY <1>2, <1>4

\* Products grow with their factors.
LEMMA ProductBound ==
    ASSUME NEW a \in Nat, NEW c \in Nat, NEW x \in 0 .. a, NEW y \in 0 .. c
    PROVE  x * y \in 0 .. a * c
  <1>1. x * y >= 0 /\ (a - x) * y >= 0 /\ a * (c - y) >= 0
    OBVIOUS
  <1>2. a * c = x * y + (a - x) * y + a * (c - y)
    OBVIOUS
  <1> QED
    BY <1>1, <1>2

------------------------------------------------------------------------------
\* Numbers in five limbs.

\* The code has five limbs of 26 bits; this holds from 11 bits on.
FiveLimbs == Limbs = 5 /\ B >= 2048

\* What the parameters of the arithmetic are when there are five limbs, as in the code.
LEMMA FiveIndex ==
    ASSUME FiveLimbs
    PROVE  Index = 0 .. 4 /\ Top = 4 /\ B \in Nat \ {0} /\ Word \in Nat \ {0} /\ Word = 64 * B
  BY Poly1305Assumption DEF FiveLimbs, Index, Top, Word

\* The sum of five terms: the one recursive function it is the last value of exists.
LEMMA TotalOfFive ==
    ASSUME FiveLimbs, NEW t \in [0 .. 4 -> Int]
    PROVE  Total(t) = t[0] + t[1] + t[2] + t[3] + t[4]
  <1> DEFINE E(g) == [i \in Index |-> t[i] + (IF i = 0 THEN 0 ELSE g[i - 1])]
             f == [i \in Index |-> CASE i = 0 -> t[0]
                                     [] i = 1 -> t[0] + t[1]
                                     [] i = 2 -> t[0] + t[1] + t[2]
                                     [] i = 3 -> t[0] + t[1] + t[2] + t[3]
                                     [] i = 4 -> t[0] + t[1] + t[2] + t[3] + t[4]]
             sum == CHOOSE g : g = E(g)
  <1>1. Index = 0 .. 4 /\ Top = 4
    BY FiveIndex
  <1>2. f = E(f)
    BY <1>1
  <1>3. sum = E(sum)
    <2> HIDE DEF E, f
    <2> QED
      BY <1>2
  <1>4. Total(t) = sum[4]
    BY <1>1 DEF Total
  <1>5. /\ sum[0] = t[0] /\ sum[1] = t[1] + sum[0] /\ sum[2] = t[2] + sum[1]
        /\ sum[3] = t[3] + sum[2] /\ sum[4] = t[4] + sum[3]
    <2> HIDE DEF sum
    <2>1. \A i \in 0 .. 4 : sum[i] = t[i] + (IF i = 0 THEN 0 ELSE sum[i - 1])
      BY <1>1, <1>3
    <2> QED
      BY <2>1
  <1> HIDE DEF sum
  <1> QED
    BY <1>4, <1>5

\* What each limb counts, place by place.
LEMMA Weights ==
    ASSUME FiveLimbs
    PROVE  /\ \A i \in 0 .. 5 : Weight[i] \in Nat \ {0}
           /\ Weight[0] = 1
           /\ \A i \in 0 .. 4 : Weight[i + 1] = B * Weight[i]
  <1> DEFINE E(g) == [i \in 0 .. 5 |-> IF i = 0 THEN 1 ELSE B * g[i - 1]]
             f == [i \in 0 .. 5 |-> CASE i = 0 -> 1
                                      [] i = 1 -> B * 1
                                      [] i = 2 -> B * (B * 1)
                                      [] i = 3 -> B * (B * (B * 1))
                                      [] i = 4 -> B * (B * (B * (B * 1)))
                                      [] i = 5 -> B * (B * (B * (B * (B * 1))))]
  <1>1. B \in Nat \ {0} /\ Limbs = 5
    BY FiveIndex DEF FiveLimbs
  <1>2. f = E(f)
    <2> DEFINE F(i) == CASE i = 0 -> 1
                         [] i = 1 -> B * 1
                         [] i = 2 -> B * (B * 1)
                         [] i = 3 -> B * (B * (B * 1))
                         [] i = 4 -> B * (B * (B * (B * 1)))
                         [] i = 5 -> B * (B * (B * (B * (B * 1))))
    <2>1. \A i \in 0 .. 5 : f[i] = F(i)
      OBVIOUS
    <2>2. \A i \in 0 .. 5 : f[i] = IF i = 0 THEN 1 ELSE B * f[i - 1]
      BY <2>1
    <2> QED
      BY <2>2
  <1>3. Weight = E(Weight)
    <2>1. Weight = CHOOSE g : g = E(g)
      BY <1>1 DEF Weight
    <2> HIDE DEF E, f
    <2> QED
      BY <1>2, <2>1
  <1>4. Weight[0] = 1 /\ \A i \in 0 .. 4 : Weight[i + 1] = B * Weight[i]
    <2>1. \A i \in 0 .. 5 : Weight[i] = IF i = 0 THEN 1 ELSE B * Weight[i - 1]
      BY <1>3
    <2>2. \A i \in 0 .. 4 : i + 1 \in 0 .. 5 /\ i + 1 # 0 /\ (i + 1) - 1 = i
      OBVIOUS
    <2> QED
      BY <2>1, <2>2
  <1>5. \A x \in Nat \ {0} : B * x \in Nat \ {0}
    BY <1>1
  <1>6. /\ Weight[1] = B * Weight[0] /\ Weight[2] = B * Weight[1] /\ Weight[3] = B * Weight[2]
        /\ Weight[4] = B * Weight[3] /\ Weight[5] = B * Weight[4]
    BY <1>4
  <1>7. /\ Weight[0] \in Nat \ {0} /\ Weight[1] \in Nat \ {0} /\ Weight[2] \in Nat \ {0}
        /\ Weight[3] \in Nat \ {0} /\ Weight[4] \in Nat \ {0} /\ Weight[5] \in Nat \ {0}
    BY <1>4, <1>5, <1>6
  <1> QED
    BY <1>4, <1>7

\* Limbs by name.
LEMMA FiveNumbers ==
    ASSUME NEW h \in [0 .. 4 -> Nat]
    PROVE  \E h0, h1, h2, h3, h4 \in Nat :
              h[0] = h0 /\ h[1] = h1 /\ h[2] = h2 /\ h[3] = h3 /\ h[4] = h4
  <1>1. h[0] \in Nat /\ h[1] \in Nat /\ h[2] \in Nat /\ h[3] \in Nat /\ h[4] \in Nat
    OBVIOUS
  <1> QED
    BY ONLY <1>1

\* The number in five limbs, limb by limb.
LEMMA ValueOfFive ==
    ASSUME FiveLimbs, NEW h \in [0 .. 4 -> Int]
    PROVE  Value(h) = h[0] + B * (h[1] + B * (h[2] + B * (h[3] + B * h[4])))
  <1> DEFINE t == [i \in 0 .. 4 |-> h[i] * Weight[i]]
  <1>1. Index = 0 .. 4 /\ B \in Nat
    BY FiveIndex
  <1>2. \A i \in 0 .. 4 : h[i] \in Int /\ Weight[i] \in Int
    BY Weights
  <1>3. t \in [0 .. 4 -> Int]
    BY <1>2
  <1>4. Value(h) = t[0] + t[1] + t[2] + t[3] + t[4]
    BY <1>1, <1>3, TotalOfFive DEF Value
  <1>5. Weight[0] = 1 /\ Weight[1] = B /\ Weight[2] = B * B /\ Weight[3] = B * (B * B)
        /\ Weight[4] = B * (B * (B * B))
    <2>1. /\ Weight[0] = 1 /\ Weight[0 + 1] = B * Weight[0] /\ Weight[1 + 1] = B * Weight[1]
          /\ Weight[2 + 1] = B * Weight[2] /\ Weight[3 + 1] = B * Weight[3]
      BY Weights
    <2> QED
      BY <1>1, <2>1
  <1>6. Value(h) = h[0] + h[1] * B + h[2] * (B * B) + h[3] * (B * (B * B)) + h[4] * (B * (B * (B * B)))
    BY <1>2, <1>4, <1>5
  <1> QED
    BY <1>1, <1>2, <1>6

\* Limbs that are natural numbers make one.
LEMMA ValueOfFiveNat ==
    ASSUME FiveLimbs, NEW h \in [0 .. 4 -> Nat]
    PROVE  Value(h) \in Nat
  <1>1. B \in Nat /\ \A x, y \in Nat : x * y \in Nat /\ x + y \in Nat
    BY FiveIndex
  <1>2. h \in [0 .. 4 -> Int] /\ h[0] \in Nat /\ h[1] \in Nat /\ h[2] \in Nat /\ h[3] \in Nat /\ h[4] \in Nat
    OBVIOUS
  <1>3. Value(h) = h[0] + B * (h[1] + B * (h[2] + B * (h[3] + B * h[4])))
    BY <1>2, ValueOfFive
  <1> QED
    BY <1>1, <1>2, <1>3

\* Dividing by a product is dividing by one factor and then by the other.
LEMMA QuotientTwice ==
    ASSUME NEW n \in Nat, NEW a \in Nat \ {0}, NEW b \in Nat \ {0}
    PROVE  n \div (a * b) = (n \div a) \div b /\ n \div (a * b) \in Nat
  <1> DEFINE q == n \div a
             r == n % a
             qq == q \div b
             rr == q % b
             ab == a * b
             rest == a * rr + r
  <1>1. q \in Nat /\ r \in 0 .. a - 1 /\ n = a * q + r
    BY DivisionOfNat
  <1>2. qq \in Nat /\ rr \in 0 .. b - 1 /\ q = b * qq + rr
    <2> HIDE DEF q
    <2> QED
      BY <1>1, DivisionOfNat
  <1>3. ab \in Nat \ {0}
    OBVIOUS
  <1>4. rest \in 0 .. ab - 1
    <2> HIDE DEF q, r, qq, rr
    <2>1. a * rr <= a * (b - 1)
      <3>1. a * rr \in 0 .. a * (b - 1)
        BY <1>2, ProductBound
      <3> QED
        BY <3>1
    <2>2. a * (b - 1) = a * b - a /\ a * rr >= 0
      BY <1>2
    <2> QED
      BY <1>1, <1>2, <2>1, <2>2
  <1>5. n = ab * qq + rest
    <2> HIDE DEF q, r, qq, rr
    <2>1. a * (b * qq + rr) = (a * b) * qq + a * rr
      BY <1>2
    <2> QED
      BY <1>1, <1>2, <2>1
  <1>6. n \div ab = qq
    <2> HIDE DEF q, r, qq, rr, ab, rest
    <2> QED
      BY <1>2, <1>3, <1>4, <1>5, Quotient
  <1> QED
    BY <1>2, <1>6

\* The limbs of a number are its digits.
LEMMA LimbsOfNumber ==
    ASSUME FiveLimbs, NEW n \in Nat, n < Weight[5]
    PROVE  /\ LimbsOf(n) \in [0 .. 4 -> 0 .. B - 1]
           /\ Value(LimbsOf(n)) = n
  <1> DEFINE q(i) == n \div Weight[i]
             l == LimbsOf(n)
  <1>1. Index = 0 .. 4 /\ B \in Nat \ {0}
    BY FiveIndex
  <1>2. \A i \in 0 .. 4 : Weight[i] \in Nat \ {0} /\ Weight[i + 1] = B * Weight[i] /\ Weight[i + 1] = Weight[i] * B
    BY <1>1, Weights
  <1>3. \A i \in 0 .. 4 : q(i) \in Nat /\ q(i + 1) = q(i) \div B
    <2> TAKE i \in 0 .. 4
    <2>1. n \div (Weight[i] * B) = (n \div Weight[i]) \div B
      BY <1>1, <1>2, QuotientTwice
    <2>2. n \div Weight[i] \in Nat
      BY <1>2, DivisionOfNat
    <2> QED
      BY <1>2, <2>1, <2>2
  <1>4. \A i \in 0 .. 4 : l[i] = q(i) % B
    BY <1>1 DEF LimbsOf
  <1>5. \A i \in 0 .. 4 : l[i] \in 0 .. B - 1 /\ q(i) = B * q(i + 1) + l[i]
    <2> TAKE i \in 0 .. 4
    <2> DEFINE x == q(i)
    <2>1. x \in Nat /\ l[i] = x % B /\ q(i + 1) = x \div B
      BY <1>3, <1>4
    <2> HIDE DEF x, l, q
    <2>2. x % B \in 0 .. B - 1 /\ x = B * (x \div B) + (x % B)
      BY <1>1, <2>1, DivisionOfNat
    <2> QED
      BY <2>1, <2>2 DEF x
  <1>6. l \in [0 .. 4 -> 0 .. B - 1]
    <2>1. l = [i \in 0 .. 4 |-> l[i]]
      BY <1>1 DEF LimbsOf
    <2> HIDE DEF l
    <2> QED
      BY <1>5, <2>1
  <1>7. q(0) = n /\ q(5) = 0
    <2>1. Weight[0] = 1 /\ Weight[5] \in Nat \ {0}
      BY Weights
    <2> QED
      BY <2>1, Fits
  <1>8. Value(l) = l[0] + B * (l[1] + B * (l[2] + B * (l[3] + B * l[4])))
    <2>1. l \in [0 .. 4 -> Int]
      BY <1>1, <1>6
    <2> HIDE DEF l
    <2> QED
      BY <2>1, ValueOfFive
  <1>9. /\ q(0) = B * q(1) + l[0] /\ q(1) = B * q(2) + l[1] /\ q(2) = B * q(3) + l[2]
        /\ q(3) = B * q(4) + l[3] /\ q(4) = B * q(5) + l[4]
    <2> HIDE DEF l, q
    <2>1. /\ q(0) = B * q(0 + 1) + l[0] /\ q(1) = B * q(1 + 1) + l[1] /\ q(2) = B * q(2 + 1) + l[2]
          /\ q(3) = B * q(3 + 1) + l[3] /\ q(4) = B * q(4 + 1) + l[4]
      BY <1>5
    <2> QED
      BY <2>1
  <1>10. Value(l) = n
    <2>1. \A i \in 0 .. 4 : l[i] \in Int
      BY <1>5
    <2> HIDE DEF l, q
    <2>2. q(4) = l[4]
      BY <1>1, <1>7, <1>9, <2>1
    <2>3. q(3) = l[3] + B * l[4]
      BY <1>1, <1>9, <2>1, <2>2
    <2>4. q(2) = l[2] + B * (l[3] + B * l[4])
      BY <1>1, <1>9, <2>1, <2>3
    <2>5. q(1) = l[1] + B * (l[2] + B * (l[3] + B * l[4]))
      BY <1>1, <1>9, <2>1, <2>4
    <2> QED
      BY <1>1, <1>7, <1>8, <1>9, <2>1, <2>5
  <1> QED
    BY <1>6, <1>10

------------------------------------------------------------------------------
\* Carries.

\* A carry is cut off by neither word.
LEMMA OneCarry ==
    ASSUME FiveLimbs, NEW x \in Nat, x < Word * B, NEW d \in Nat, d + Word <= Word * B
    PROVE  /\ x \div B \in Nat /\ x \div B < Word
           /\ U64(d + U32(x \div B)) = d + (x \div B)
           /\ d + (x \div B) < Word * B
  <1>1. B \in Nat \ {0} /\ Word \in Nat \ {0} /\ Word = 64 * B
    BY FiveIndex
  <1> DEFINE c == x \div B
             n == d + c
             ww == Word * Word
  <1>2. c \in Nat /\ c < Word
    <2>1. Word * B = B * Word
      BY <1>1
    <2> QED
      BY <1>1, <2>1, QuotientBound
  <1>3. U32(c) = c
    <2> HIDE DEF c
    <2> QED
      BY <1>1, <1>2, Fits DEF U32
  <1>4. n \in Nat /\ n < Word * B
    <2> HIDE DEF c
    <2> QED
      BY <1>1, <1>2
  <1>5. Word * B <= ww /\ ww \in Nat \ {0}
    <2>1. ww = 64 * (Word * B) /\ Word * B \in Nat \ {0}
      BY <1>1
    <2> QED
      BY <2>1
  <1>6. n % ww = n
    <2> HIDE DEF n, ww
    <2> QED
      BY <1>1, <1>4, <1>5, Fits
  <1> QED
    BY <1>2, <1>3, <1>4, <1>6 DEF U64

\* What one limb hands on the next one gets.
LEMMA CarryOver ==
    ASSUME NEW b \in Int, NEW d \in Int, NEW e \in Int, NEW in \in Int, NEW out \in Int,
           NEW u \in Int, NEW v \in Int, d + in = b * out + e, v = u + out
    PROVE  d + b * u \in Int /\ e + b * v \in Int /\ d + b * u = (e + b * v) - in
  OBVIOUS

\* The sums that Carried takes its digits from.
LEMMA CarriedSums ==
    ASSUME FiveLimbs, NEW first \in {0, 1}, NEW d \in [0 .. 4 -> Nat],
           \A i \in 0 .. 4 : d[i] + Word <= Word * B
    PROVE  \E t \in [first .. 4 -> Nat] :
              /\ t[first] = d[first]
              /\ \A i \in (first + 1) .. 4 : t[i] = d[i] + (t[i - 1] \div B)
              /\ \A i \in first .. 4 : t[i] \div B < Word
              /\ Carried(d, first) = [i \in 0 .. 4 |-> IF i < first THEN d[i]
                                                       ELSE IF i < 4 THEN t[i] % B ELSE t[i]]
  <1> DEFINE E(g) == [i \in first .. 4 |->
                         IF i = first THEN d[i] ELSE U64(d[i] + U32(g[i - 1] \div B))]
             t1 == U64(d[1] + U32(d[0] \div B))
             u1 == IF first = 0 THEN t1 ELSE d[1]
             u2 == U64(d[2] + U32(u1 \div B))
             u3 == U64(d[3] + U32(u2 \div B))
             u4 == U64(d[4] + U32(u3 \div B))
             f == [i \in first .. 4 |-> CASE i = 0 -> d[0] [] i = 1 -> u1 [] i = 2 -> u2
                                          [] i = 3 -> u3 [] i = 4 -> u4]
             t == CHOOSE g : g = E(g)
  <1>1. Index = 0 .. 4 /\ Top = 4 /\ B \in Nat \ {0} /\ Word \in Nat \ {0}
    BY FiveIndex
  <1>2. \E g : g = E(g)
    <2>1. f = E(f)
      <3> DEFINE R(i) == IF i = first THEN d[i] ELSE U64(d[i] + U32(f[i - 1] \div B))
      <3>1. /\ first = 0 => f[0] = d[0] /\ f[1] = t1
            /\ first = 1 => f[1] = d[1]
            /\ f[1] = u1 /\ f[2] = u2 /\ f[3] = u3 /\ f[4] = u4
        <4> HIDE DEF t1, u2, u3, u4
        <4> QED
          OBVIOUS
      <3> HIDE DEF f
      <3>2. /\ first = 0 => f[0] = R(0)
            /\ f[1] = R(1) /\ f[2] = R(2) /\ f[3] = R(3) /\ f[4] = R(4)
        <4>1. f[1] = R(1)
          BY <3>1
        <4>2. f[2] = R(2) /\ f[3] = R(3) /\ f[4] = R(4)
          <5> HIDE DEF u1
          <5>1. f[2] = u2 /\ f[3] = u3 /\ f[4] = u4 /\ f[1] = u1
            BY <3>1
          <5>2. /\ 2 # first /\ 3 # first /\ 4 # first
                /\ 2 - 1 = 1 /\ 3 - 1 = 2 /\ 4 - 1 = 3
            OBVIOUS
          <5>3. u3 = U64(d[3] + U32(f[2] \div B))
            <6> HIDE DEF u2
            <6> QED
              BY <5>1
          <5>4. u4 = U64(d[4] + U32(f[3] \div B))
            <6> HIDE DEF u3
            <6> QED
              BY <5>1
          <5>5. u2 = U64(d[2] + U32(f[1] \div B))
            BY <5>1
          <5> HIDE DEF u2, u3, u4
          <5> QED
            BY <5>1, <5>2, <5>3, <5>4, <5>5
        <4> QED
          BY <3>1, <4>1, <4>2
      <3>3. \A i \in first .. 4 : f[i] = R(i)
        <4> HIDE DEF R
        <4> QED
          BY <3>2
      <3>4. f = [i \in first .. 4 |-> f[i]]
        BY DEF f
      <3> QED
        BY <3>3, <3>4
    <2> HIDE DEF E, f
    <2> QED
      BY <2>1
  <1>3. t = E(t)
    <2> HIDE DEF E
    <2> QED
      BY <1>2
  <1> HIDE DEF f
  <1>4. Carried(d, first) = [i \in 0 .. 4 |-> IF i < first THEN d[i]
                                              ELSE IF i < 4 THEN t[i] % B ELSE t[i]]
    BY <1>1 DEF Carried
  <1> HIDE DEF t
  <1>5. \A i \in first .. 4 : t[i] = IF i = first THEN d[i] ELSE U64(d[i] + U32(t[i - 1] \div B))
    BY <1>3
  <1>6. \A i \in 0 .. 4 : d[i] \in Nat /\ d[i] < Word * B
    BY <1>1
  <1> DEFINE Good(i) == t[i] \in Nat /\ t[i] < Word * B
  <1>7. Good(first) /\ t[first] = d[first]
    BY <1>5, <1>6
  <1>8. ASSUME NEW i \in (first + 1) .. 4, Good(i - 1)
        PROVE  Good(i) /\ t[i] = d[i] + (t[i - 1] \div B)
    <2>1. t[i] = U64(d[i] + U32(t[i - 1] \div B)) /\ i \in 0 .. 4
      BY <1>5
    <2>2. d[i] \in Nat /\ d[i] + Word <= Word * B
      BY <2>1
    <2>3. /\ t[i - 1] \div B \in Nat
          /\ U64(d[i] + U32(t[i - 1] \div B)) = d[i] + (t[i - 1] \div B)
          /\ d[i] + (t[i - 1] \div B) < Word * B
      BY <1>8, <2>2, OneCarry
    <2> QED
      BY <2>1, <2>2, <2>3
  <1>9. \A i \in first .. 4 : Good(i)
    <2> HIDE DEF Good
    <2>1. first = 0 => Good(1)
      <3> SUFFICES ASSUME first = 0 PROVE Good(1)
        OBVIOUS
      <3>1. 1 \in (first + 1) .. 4 /\ Good(1 - 1)
        BY <1>7
      <3> QED
        BY <1>8, <3>1
    <2>2. Good(1)
      BY <1>7, <2>1
    <2>3. Good(2)
      <3>1. 2 \in (first + 1) .. 4 /\ Good(2 - 1)
        BY <2>2
      <3> QED
        BY <1>8, <3>1
    <2>4. Good(3)
      <3>1. 3 \in (first + 1) .. 4 /\ Good(3 - 1)
        BY <2>3
      <3> QED
        BY <1>8, <3>1
    <2>5. Good(4)
      <3>1. 4 \in (first + 1) .. 4 /\ Good(4 - 1)
        BY <2>4
      <3> QED
        BY <1>8, <3>1
    <2>6. first = 0 => Good(0)
      BY <1>7
    <2> QED
      BY <2>2, <2>3, <2>4, <2>5, <2>6
  <1>10. \A i \in (first + 1) .. 4 : t[i] = d[i] + (t[i - 1] \div B)
    <2> TAKE i \in (first + 1) .. 4
    <2>1. i - 1 \in first .. 4
      OBVIOUS
    <2> HIDE DEF Good
    <2> QED
      BY <1>8, <1>9, <2>1
  <1>11. \A i \in first .. 4 : t[i] \div B < Word
    <2> TAKE i \in first .. 4
    <2>1. t[i] \in Nat /\ t[i] < B * Word
      BY <1>1, <1>9
    <2> QED
      BY <1>1, <2>1, QuotientBound
  <1>12. t \in [first .. 4 -> Nat]
    <2>1. t = [i \in first .. 4 |-> t[i]]
      BY <1>3
    <2> QED
      BY <1>9, <2>1
  <1> QED
    BY <1>4, <1>7, <1>10, <1>11, <1>12

\* Carrying changes the limbs and not the number.
LEMMA CarriedNumber ==
    ASSUME FiveLimbs, NEW first \in {0, 1}, NEW d \in [0 .. 4 -> Nat],
           \A i \in 0 .. 4 : d[i] + Word <= Word * B
    PROVE  /\ Carried(d, first) \in [0 .. 4 -> Nat]
           /\ \A i \in first .. 3 : Carried(d, first)[i] < B
           /\ first = 1 => Carried(d, first)[0] = d[0]
           /\ Carried(d, first)[4] < d[4] + Word
           /\ Value(Carried(d, first)) = Value(d)
  <1> DEFINE e == Carried(d, first)
  <1>1. B \in Nat \ {0} /\ Word \in Nat \ {0}
    BY FiveIndex
  <1>2. PICK t \in [first .. 4 -> Nat] :
              /\ t[first] = d[first]
              /\ \A i \in (first + 1) .. 4 : t[i] = d[i] + (t[i - 1] \div B)
              /\ \A i \in first .. 4 : t[i] \div B < Word
              /\ e = [i \in 0 .. 4 |-> IF i < first THEN d[i]
                                       ELSE IF i < 4 THEN t[i] % B ELSE t[i]]
    BY CarriedSums
  <1> HIDE DEF e
  <1> DEFINE c(i) == t[i] \div B
  <1>3. \A i \in first .. 4 : c(i) \in Nat /\ c(i) < Word /\ t[i] % B \in 0 .. B - 1 /\ t[i] = B * c(i) + (t[i] % B)
    <2> TAKE i \in first .. 4
    <2> DEFINE x == t[i]
    <2>1. x \in Nat
      OBVIOUS
    <2>2. x \div B \in Nat /\ x % B \in 0 .. B - 1 /\ x = B * (x \div B) + (x % B)
      <3> HIDE DEF x
      <3> QED
        BY <1>1, <2>1, DivisionOfNat
    <2> QED
      BY <1>2, <2>2
  <1>4. e \in [0 .. 4 -> Nat]
    <2>1. \A i \in 0 .. 4 : e[i] \in Nat
      <3> TAKE i \in 0 .. 4
      <3>1. CASE i < first
        BY <1>2, <3>1
      <3>2. CASE ~(i < first) /\ i < 4
        <4>1. e[i] = t[i] % B /\ i \in first .. 4
          BY <1>2, <3>2
        <4> QED
          BY <1>3, <4>1, <1>1
      <3>3. CASE ~(i < first) /\ ~(i < 4)
        BY <1>2, <3>3
      <3> QED
        BY <3>1, <3>2, <3>3
    <2> QED
      BY <1>2, <2>1
  <1>5. \A i \in first .. 3 : e[i] = t[i] % B
    <2> TAKE i \in first .. 3
    <2>1. i \in 0 .. 4 /\ ~(i < first) /\ i < 4
      OBVIOUS
    <2>2. e[i] = IF i < first THEN d[i] ELSE IF i < 4 THEN t[i] % B ELSE t[i]
      BY <1>2, <2>1
    <2> QED
      BY <2>1, <2>2
  <1>6. \A i \in first .. 3 : e[i] < B
    <2> TAKE i \in first .. 3
    <2> DEFINE x == t[i] % B
    <2>1. e[i] = x /\ i \in first .. 4
      BY <1>5
    <2>2. x \in 0 .. B - 1
      BY <1>3, <2>1
    <2> HIDE DEF x
    <2> QED
      BY <1>1, <2>1, <2>2
  <1>7. first = 1 => e[0] = d[0]
    BY <1>2
  <1>8. e[4] = d[4] + c(3) /\ c(3) < Word /\ c(3) \in Nat
    <2>1. e[4] = t[4]
      BY <1>2
    <2>2. t[4] = d[4] + (t[4 - 1] \div B)
      <3>1. 4 \in (first + 1) .. 4
        OBVIOUS
      <3> QED
        BY <1>2, <3>1
    <2>3. 3 \in first .. 4 /\ 4 - 1 = 3
      OBVIOUS
    <2>4. c(3) < Word /\ c(3) \in Nat
      BY <1>3, <2>3
    <2> QED
      BY <2>1, <2>2, <2>3, <2>4
  <1>9. e[4] < d[4] + Word
    <2> HIDE DEF c
    <2>1. d[4] \in Nat
      OBVIOUS
    <2> QED
      BY <1>1, <1>8, <2>1
  <1>10. \A i \in (first + 1) .. 3 : d[i] + c(i - 1) = B * c(i) + e[i]
    <2> TAKE i \in (first + 1) .. 3
    <2>1. i \in first .. 4 /\ i \in (first + 1) .. 4 /\ i \in first .. 3
      OBVIOUS
    <2>2. t[i] = d[i] + c(i - 1)
      BY <1>2, <2>1
    <2>3. t[i] = B * c(i) + (t[i] % B)
      BY <1>3, <2>1
    <2> HIDE DEF c
    <2> QED
      BY <1>5, <2>1, <2>2, <2>3
  <1>11. d[first] = B * c(first) + e[first]
    <2>1. first \in first .. 4 /\ first \in first .. 3
      OBVIOUS
    <2>2. t[first] = B * c(first) + (t[first] % B)
      BY <1>3, <2>1
    <2> HIDE DEF c
    <2> QED
      BY <1>2, <1>5, <2>1, <2>2
  <1>12. \E c0, c1, c2, c3 \in Nat :
             /\ d[0] = B * c0 + e[0] /\ d[1] + c0 = B * c1 + e[1] /\ d[2] + c1 = B * c2 + e[2]
             /\ d[3] + c2 = B * c3 + e[3] /\ d[4] + c3 = e[4]
    <2> DEFINE c0 == IF first = 0 THEN c(0) ELSE 0
    <2>1. c0 \in Nat /\ c(1) \in Nat /\ c(2) \in Nat /\ c(3) \in Nat
      <3>1. 1 \in first .. 4 /\ 2 \in first .. 4 /\ 3 \in first .. 4 /\ (first = 0 => 0 \in first .. 4)
        OBVIOUS
      <3> HIDE DEF c
      <3> QED
        BY <1>3, <3>1
    <2>2. d[2] + c(1) = B * c(2) + e[2] /\ d[3] + c(2) = B * c(3) + e[3]
      <3>1. 2 \in (first + 1) .. 3 /\ 3 \in (first + 1) .. 3
        OBVIOUS
      <3>2. d[2] + c(2 - 1) = B * c(2) + e[2] /\ d[3] + c(3 - 1) = B * c(3) + e[3]
        <4> HIDE DEF c
        <4> QED
          BY <1>10, <3>1
      <3> HIDE DEF c
      <3> QED
        BY <3>2
    <2>3. d[0] = B * c0 + e[0] /\ d[1] + c0 = B * c(1) + e[1]
      <3>1. CASE first = 0
        <4>1. d[1] + c(1 - 1) = B * c(1) + e[1]
          <5> HIDE DEF c
          <5> QED
            BY <1>10, <3>1
        <4>2. d[0] = B * c(0) + e[0]
          <5>1. d[first] = B * c(first) + e[first]
            BY <1>11
          <5> QED
            BY <3>1, <5>1
        <4> HIDE DEF c
        <4> QED
          BY <3>1, <4>1, <4>2
      <3>2. CASE first = 1
        <4>1. d[1] = B * c(1) + e[1] /\ e[0] = d[0] /\ d[1] \in Nat /\ d[0] \in Nat
          <5> HIDE DEF c
          <5> QED
            BY <1>7, <1>11, <3>2
        <4>2. c0 = 0 /\ B * 0 = 0
          BY <1>1, <3>2
        <4>3. B * c0 = 0
          <5> HIDE DEF c, c0
          <5> QED
            BY <4>2
        <4>4. e[0] \in Nat /\ e[1] \in Nat
          BY <1>4
        <4> HIDE DEF c, c0
        <4>5. d[0] = B * c0 + e[0]
          BY <4>1, <4>3
        <4>6. d[1] + c0 = B * c(1) + e[1]
          BY <4>1, <4>2
        <4> QED
          BY <4>5, <4>6
      <3> QED
        BY <3>1, <3>2
    <2> HIDE DEF c, c0
    <2> QED
      BY <1>8, <2>1, <2>2, <2>3
  <1>15. Value(e) = Value(d)
    <2>1. PICK d0, d1, d2, d3, d4 \in Nat :
             d[0] = d0 /\ d[1] = d1 /\ d[2] = d2 /\ d[3] = d3 /\ d[4] = d4
      BY FiveNumbers
    <2>2. PICK e0, e1, e2, e3, e4 \in Nat :
             e[0] = e0 /\ e[1] = e1 /\ e[2] = e2 /\ e[3] = e3 /\ e[4] = e4
      BY <1>4, FiveNumbers
    <2>3. PICK c0, c1, c2, c3 \in Nat :
             /\ d[0] = B * c0 + e[0] /\ d[1] + c0 = B * c1 + e[1] /\ d[2] + c1 = B * c2 + e[2]
             /\ d[3] + c2 = B * c3 + e[3] /\ d[4] + c3 = e[4]
      BY <1>12
    <2>a. /\ d0 + 0 = B * c0 + e0 /\ d1 + c0 = B * c1 + e1 /\ d2 + c1 = B * c2 + e2
          /\ d3 + c2 = B * c3 + e3 /\ d4 + c3 = e4
      <3>1. d0 + 0 = d0 /\ d[0] = B * c0 + e[0]
        BY <2>3
      <3>2. /\ d[1] + c0 = B * c1 + e[1] /\ d[2] + c1 = B * c2 + e[2]
            /\ d[3] + c2 = B * c3 + e[3] /\ d[4] + c3 = e[4]
        BY <2>3
      <3> HIDE DEF e
      <3> QED
        BY <2>1, <2>2, <3>1, <3>2
    <2>4. /\ Value(d) = d0 + B * (d1 + B * (d2 + B * (d3 + B * d4)))
          /\ Value(e) = e0 + B * (e1 + B * (e2 + B * (e3 + B * e4)))
      <3>1. d \in [0 .. 4 -> Int] /\ e \in [0 .. 4 -> Int]
        BY <1>4
      <3> QED
        BY <2>1, <2>2, <3>1, ValueOfFive
    <2> DEFINE u3 == d3 + B * d4
               u2 == d2 + B * u3
               u1 == d1 + B * u2
               u0 == d0 + B * u1
               v3 == e3 + B * e4
               v2 == e2 + B * v3
               v1 == e1 + B * v2
               v0 == e0 + B * v1
    <2>5. u3 \in Int /\ v3 \in Int /\ u3 = v3 - c2
      <3>1. e4 = d4 + c3 /\ d3 + c2 = B * c3 + e3
        BY <2>a
      <3>2. /\ B \in Int /\ d3 \in Int /\ e3 \in Int /\ c2 \in Int /\ c3 \in Int
            /\ d4 \in Int /\ e4 \in Int
        BY <1>1
      <3>3. d3 + B * d4 \in Int /\ e3 + B * e4 \in Int /\ d3 + B * d4 = (e3 + B * e4) - c2
        BY ONLY <3>1, <3>2, CarryOver
      <3> QED
        BY <3>3
    <2>6. u2 \in Int /\ v2 \in Int /\ u2 = v2 - c1
      <3> HIDE DEF u3, v3
      <3>1. v3 = u3 + c2
        BY <2>5
      <3> QED
        BY <1>1, <2>a, <2>5, <3>1, CarryOver
    <2>7. u1 \in Int /\ v1 \in Int /\ u1 = v1 - c0
      <3> HIDE DEF u2, v2
      <3>1. v2 = u2 + c1
        BY <2>6
      <3> QED
        BY <1>1, <2>a, <2>6, <3>1, CarryOver
    <2>8. u0 = v0
      <3>a. u0 \in Int /\ v0 \in Int /\ u0 = v0 - 0
        <4> HIDE DEF u1, v1
        <4>1. v1 = u1 + c0
          BY <2>7
        <4> QED
          BY <1>1, <2>a, <2>7, <4>1, CarryOver
      <3> HIDE DEF u0, v0
      <3> QED
        BY <3>a
    <2>9. Value(d) = u0 /\ Value(e) = v0
      BY <2>4
    <2> HIDE DEF u0, v0
    <2> QED
      BY <2>8, <2>9
  <1> QED
    BY <1>4, <1>6, <1>7, <1>9, <1>15 DEF e

\* The modulus.
LEMMA Modulus ==
    ASSUME FiveLimbs
    PROVE  /\ P \in Nat \ {0} /\ P = Weight[5] - 5 /\ Weight[5] = B * (B * (B * (B * B)))
           /\ Weight[5] \in Nat
           /\ Weight[5] > B * B
  <1>1. B \in Nat /\ B >= 2048 /\ Limbs = 5
    BY FiveIndex DEF FiveLimbs
  <1>2. /\ Weight[0] = 1 /\ Weight[0 + 1] = B * Weight[0] /\ Weight[1 + 1] = B * Weight[1]
        /\ Weight[2 + 1] = B * Weight[2] /\ Weight[3 + 1] = B * Weight[3]
        /\ Weight[4 + 1] = B * Weight[4]
    BY Weights
  <1>3. Weight[5] = B * (B * (B * (B * B)))
    BY <1>1, <1>2
  <1>4. \A x \in Nat : x > 5 => B * x > x /\ B * x \in Nat
    <2> TAKE x \in Nat
    <2>1. B * x = x + (B - 1) * x /\ (x > 5 => (B - 1) * x > 0)
      BY <1>1
    <2> QED
      BY <1>1, <2>1
  <1> DEFINE b2 == B * B
             b3 == B * b2
             b4 == B * b3
             b5 == B * b4
  <1>5. b2 \in Nat /\ b2 > 5
    <2>1. B > 5 /\ B \in Nat
      BY <1>1
    <2> QED
      BY <1>4, <2>1
  <1>6. b3 \in Nat /\ b3 > b2
    <2> HIDE DEF b2
    <2> QED
      BY <1>4, <1>5
  <1>7. b4 \in Nat /\ b4 > b3
    <2> HIDE DEF b2, b3
    <2> QED
      BY <1>4, <1>5, <1>6
  <1>8. b5 \in Nat /\ b5 > b4
    <2> HIDE DEF b2, b3, b4
    <2> QED
      BY <1>4, <1>5, <1>6, <1>7
  <1>9. b5 > b2 /\ b5 - 5 \in Nat \ {0}
    <2> HIDE DEF b2, b3, b4, b5
    <2> QED
      BY <1>5, <1>6, <1>7, <1>8
  <1> QED
    BY <1>1, <1>3, <1>8, <1>9 DEF P

\* What comes around leaves the number the same modulo p.
LEMMA WrappedNumber ==
    ASSUME FiveLimbs, NEW d \in [0 .. 4 -> Nat], \A i \in 0 .. 3 : d[i] < B,
           NEW c, c = d[4] \div B, 5 * c <= 51 * B
    PROVE  /\ c \in Nat
           /\ WrappedAround(d) \in [0 .. 4 -> Nat]
           /\ \A i \in 0 .. 4 : i # 1 => WrappedAround(d)[i] < B
           /\ WrappedAround(d)[1] <= d[1] + 51
           /\ c = 0 => WrappedAround(d)[1] = d[1]
           /\ Value(d) = Value(WrappedAround(d)) + P * c
  <1> DEFINE s == d[0] + 5 * c
             up == s \div B
             n == WrappedAround(d)
  <1>1. Index = 0 .. 4 /\ Top = 4 /\ B \in Nat \ {0} /\ Word \in Nat \ {0} /\ Word = 64 * B
    BY FiveIndex
  <1>2. PICK d0, d1, d2, d3, d4 \in Nat :
           d[0] = d0 /\ d[1] = d1 /\ d[2] = d2 /\ d[3] = d3 /\ d[4] = d4
    BY FiveNumbers
  <1>a. d0 < B /\ d1 < B /\ d2 < B /\ d3 < B
    BY <1>2
  <1>3. c \in Nat /\ d4 % B \in 0 .. B - 1 /\ d4 = B * c + (d4 % B)
    <2>1. c = d4 \div B
      BY <1>2
    <2>2. d4 \div B \in Nat /\ d4 % B \in 0 .. B - 1 /\ d4 = B * (d4 \div B) + (d4 % B)
      BY <1>1, DivisionOfNat
    <2> QED
      BY <2>1, <2>2
  <1>4. s \in Nat /\ s < 52 * B
    <2>1. s = d0 + 5 * c
      BY <1>2
    <2> HIDE DEF s
    <2> QED
      BY <1>1, <1>3, <1>a, <2>1
  <1>5. up \in Nat /\ up <= 51 /\ s % B \in 0 .. B - 1 /\ s = B * up + (s % B)
    <2>1. 52 \in Nat /\ s < B * 52
      BY <1>1, <1>4
    <2> HIDE DEF s
    <2>2. up \in Nat /\ up < 52
      BY <1>1, <1>4, <2>1, QuotientBound
    <2>3. s % B \in 0 .. B - 1 /\ s = B * up + (s % B)
      BY <1>1, <1>4, DivisionOfNat
    <2> QED
      BY <2>2, <2>3
  <1>6. U32(c) = c /\ U32(5 * c) = 5 * c /\ U32(s) = s /\ U32(d[1] + up) = d[1] + up
    <2>1. c \in 0 .. Word - 1 /\ 5 * c \in 0 .. Word - 1
      BY <1>1, <1>3
    <2>2. s \in 0 .. Word - 1
      BY <1>1, <1>4
    <2>3. d[1] + up \in 0 .. Word - 1
      <3> HIDE DEF up
      <3> QED
        BY <1>1, <1>2, <1>5, <1>a
    <2>4. \A x \in 0 .. Word - 1 : U32(x) = x
      BY <1>1, Fits DEF U32
    <2> HIDE DEF s, up
    <2> QED
      BY <2>1, <2>2, <2>3, <2>4
  <1>7. n = [i \in 0 .. 4 |-> CASE i = 0 -> s % B [] i = 1 -> d[1] + up [] OTHER -> d[i] % B]
    <2>1. U32(d[0] + U32(5 * U32(d[4] \div B))) = s
      BY <1>6
    <2> HIDE DEF s
    <2>2. n = [i \in 0 .. 4 |-> CASE i = 0 -> s % B [] i = 1 -> U32(d[1] + (s \div B)) [] OTHER -> d[i] % B]
      BY <1>1, <2>1 DEF WrappedAround
    <2> QED
      BY <1>6, <2>2
  <1>8. /\ n[0] = s % B /\ n[1] = d[1] + up
        /\ n[2] = d[2] /\ n[3] = d[3] /\ n[4] = d[4] % B
    <2>1. d[2] \in 0 .. B - 1 /\ d[3] \in 0 .. B - 1
      BY <1>1, <1>2, <1>a
    <2>2. d[2] % B = d[2] /\ d[3] % B = d[3]
      BY <1>1, <2>1, Fits
    <2>3. n[0] = s % B /\ n[1] = d[1] + up /\ n[2] = d[2] % B /\ n[3] = d[3] % B /\ n[4] = d[4] % B
      <3> HIDE DEF s, up, n
      <3> QED
        BY <1>7
    <2> QED
      BY <2>2, <2>3
  <1>9. n \in [0 .. 4 -> Nat] /\ \A i \in 0 .. 4 : i # 1 => n[i] < B
    <2> HIDE DEF s, up
    <2>1. /\ n[0] \in Nat /\ n[1] \in Nat /\ n[2] \in Nat /\ n[3] \in Nat /\ n[4] \in Nat
          /\ n[0] < B /\ n[2] < B /\ n[3] < B /\ n[4] < B
      <3> DEFINE x == s % B
                 y == d4 % B
      <3>1. x \in 0 .. B - 1 /\ y \in 0 .. B - 1
        BY <1>3, <1>5
      <3>2. n[0] = x /\ n[1] = d1 + up /\ n[2] = d2 /\ n[3] = d3 /\ n[4] = y
        BY <1>2, <1>8
      <3> HIDE DEF x, y, n
      <3> QED
        BY <1>1, <1>5, <1>a, <3>1, <3>2
    <2>2. n = [i \in 0 .. 4 |-> n[i]]
      BY <1>7
    <2> HIDE DEF n
    <2>3. \A i \in 0 .. 4 : i = 0 \/ i = 1 \/ i = 2 \/ i = 3 \/ i = 4
      OBVIOUS
    <2> QED
      BY <2>1, <2>2, <2>3
  <1>10. n[1] <= d[1] + 51
    <2> HIDE DEF s, up, n
    <2> QED
      BY <1>2, <1>5, <1>8
  <1>11. c = 0 => n[1] = d[1]
    <2> SUFFICES ASSUME c = 0 PROVE n[1] = d[1]
      OBVIOUS
    <2>1. s = d[0] /\ d[0] \in 0 .. B - 1
      BY <1>1, <1>2
    <2>2. up = 0
      <3> HIDE DEF s
      <3> QED
        BY <1>1, <2>1, Fits
    <2> HIDE DEF s, up, n
    <2> QED
      BY <1>2, <1>8, <2>2
  <1>12. /\ Value(d) = d[0] + B * (d[1] + B * (d[2] + B * (d[3] + B * d[4])))
         /\ Value(n) = n[0] + B * (n[1] + B * (n[2] + B * (n[3] + B * n[4])))
    <2>1. d \in [0 .. 4 -> Int] /\ n \in [0 .. 4 -> Int]
      BY <1>9
    <2> HIDE DEF n
    <2>2. Value(d) = d[0] + B * (d[1] + B * (d[2] + B * (d[3] + B * d[4])))
      BY <2>1, ValueOfFive
    <2>3. Value(n) = n[0] + B * (n[1] + B * (n[2] + B * (n[3] + B * n[4])))
      BY <2>1, ValueOfFive
    <2> QED
      BY <2>2, <2>3
  <1>13. Value(d) = Value(n) + P * c
    <2>1. PICK m, x, y, c1 \in Nat : m = up /\ x = s % B /\ y = d4 % B /\ c1 = c
      <3>1. s % B \in Nat /\ d4 % B \in Nat
        BY <1>1, <1>3, <1>5
      <3> HIDE DEF s
      <3> QED
        BY ONLY <1>3, <1>5, <3>1
    <2>2. d4 = B * c1 + y /\ d0 + 5 * c1 = B * m + x
      BY <1>2, <1>3, <1>5, <2>1
    <2>3. /\ Value(d) = d0 + B * (d1 + B * (d2 + B * (d3 + B * d4)))
          /\ Value(n) = x + B * (d1 + m + B * (d2 + B * (d3 + B * y)))
      <3> HIDE DEF s, up, n
      <3> QED
        BY <1>2, <1>8, <1>12, <2>1
    <2>4. P * c = B * (B * (B * (B * (B * c1)))) - 5 * c1
      <3>1. P = B * (B * (B * (B * B))) - 5
        BY Modulus
      <3>2. P * c1 = B * (B * (B * (B * (B * c1)))) - 5 * c1
        BY <1>1, <3>1
      <3> QED
        BY <2>1, <3>2
    <2>5. d3 + B * d4 = d3 + B * y + B * (B * c1)
      BY <1>1, <2>2
    <2>6. d2 + B * (d3 + B * d4) = d2 + B * (d3 + B * y) + B * (B * (B * c1))
      BY <1>1, <2>2, <2>5
    <2>7. d1 + B * (d2 + B * (d3 + B * d4))
            = d1 + B * (d2 + B * (d3 + B * y)) + B * (B * (B * (B * c1)))
      BY <1>1, <2>2, <2>6
    <2> DEFINE u == d1 + B * (d2 + B * (d3 + B * d4))
               v == d1 + B * (d2 + B * (d3 + B * y))
               w == B * (B * (B * (B * c1)))
    <2>8. u \in Int /\ v \in Int /\ w \in Int /\ v + m = d1 + m + B * (d2 + B * (d3 + B * y))
      BY <1>1
    <2>9. /\ u = v + w /\ Value(d) = d0 + B * u /\ Value(n) = x + B * (v + m)
          /\ P * c = B * w - 5 * c1
      BY <2>3, <2>4, <2>7, <2>8
    <2> HIDE DEF u, v, w, n
    <2>10. B * u = B * v + B * w /\ B * (v + m) = B * v + B * m
      BY <1>1, <2>8, <2>9
    <2>11. B * v \in Int /\ B * w \in Int /\ B * m \in Int
      BY <1>1, <2>8
    <2> QED
      BY <2>2, <2>9, <2>10, <2>11
  <1> QED
    BY <1>3, <1>9, <1>10, <1>11, <1>13

------------------------------------------------------------------------------
\* Products.

\* The product of two numbers in five limbs, limb by limb.
LEMMA PolynomialProduct ==
    ASSUME NEW b \in Int,
           NEW r0 \in Int, NEW r1 \in Int, NEW r2 \in Int, NEW r3 \in Int, NEW r4 \in Int,
           NEW h0 \in Int, NEW h1 \in Int, NEW h2 \in Int, NEW h3 \in Int, NEW h4 \in Int
    PROVE  (h0 + b * (h1 + b * (h2 + b * (h3 + b * h4))))
             * (r0 + b * (r1 + b * (r2 + b * (r3 + b * r4))))
           = (h0 * r0 + 5 * (h1 * r4 + h2 * r3 + h3 * r2 + h4 * r1))
             + b * ((h0 * r1 + h1 * r0 + 5 * (h2 * r4 + h3 * r3 + h4 * r2))
             + b * ((h0 * r2 + h1 * r1 + h2 * r0 + 5 * (h3 * r4 + h4 * r3))
             + b * ((h0 * r3 + h1 * r2 + h2 * r1 + h3 * r0 + 5 * (h4 * r4))
             + b * (h0 * r4 + h1 * r3 + h2 * r2 + h3 * r1 + h4 * r0))))
             + (b * (b * (b * (b * b))) - 5)
               * ((h1 * r4 + h2 * r3 + h3 * r2 + h4 * r1)
                  + b * ((h2 * r4 + h3 * r3 + h4 * r2)
                  + b * ((h3 * r4 + h4 * r3) + b * (h4 * r4))))
  OBVIOUS

\* No product is cut off by a 64-bit word, and limbs that stand for h * r come out.
LEMMA ProductNumber ==
    ASSUME FiveLimbs, NEW h \in [0 .. 4 -> Nat], NEW r \in [0 .. 4 -> Nat],
           \A i \in 0 .. 4 : h[i] <= 2 * B + 49, \A i \in 0 .. 4 : r[i] < B
    PROVE  /\ Product(h, r) \in [0 .. 4 -> Nat]
           /\ \A i \in 0 .. 4 : Product(h, r)[i] + Word <= Word * B
           /\ Product(h, r)[4] <= 10 * (B * B) + 235 * B
           /\ \E k \in Nat : Value(h) * Value(r) = Value(Product(h, r)) + P * k
  <1>1. /\ Index = 0 .. 4 /\ Top = 4 /\ Limbs = 5
        /\ B \in Nat /\ Word \in Nat \ {0} /\ Word = 64 * B
    BY FiveIndex DEF FiveLimbs
  <1>b. B >= 2048
    BY DEF FiveLimbs
  <1>2. PICK h0, h1, h2, h3, h4 \in Nat :
           h[0] = h0 /\ h[1] = h1 /\ h[2] = h2 /\ h[3] = h3 /\ h[4] = h4
    BY FiveNumbers
  <1>3. PICK r0, r1, r2, r3, r4 \in Nat :
           r[0] = r0 /\ r[1] = r1 /\ r[2] = r2 /\ r[3] = r3 /\ r[4] = r4
    BY FiveNumbers
  <1>4. PICK m \in Nat : m = (2 * B + 49) * (B - 1)
    <2>1. 2 * B + 49 \in Nat /\ B - 1 \in Nat
      BY <1>1
    <2>2. \A x, y \in Nat : x * y \in Nat
      OBVIOUS
    <2> QED
      BY <2>1, <2>2
  <1>5. m <= 2 * (B * B) + 47 * B /\ B * B >= 2048 * B /\ B * B \in Nat
    <2>1. (2 * B + 49) * (B - 1) = 2 * (B * B) + 47 * B - 49
      BY <1>1
    <2>2. B * B = 2048 * B + (B - 2048) * B /\ (B - 2048) * B >= 0 /\ B * B \in Nat
      BY <1>1, <1>b
    <2> QED
      BY <1>1, <1>b, <1>4, <2>1, <2>2
  <1>6. \A x, y \in Nat : x <= 2 * B + 49 /\ y < B => x * y \in 0 .. m
    <2> SUFFICES ASSUME NEW x \in Nat, NEW y \in Nat, x <= 2 * B + 49, y < B
                 PROVE  x * y \in 0 .. m
      OBVIOUS
    <2>1. x \in 0 .. 2 * B + 49 /\ y \in 0 .. B - 1 /\ 2 * B + 49 \in Nat /\ B - 1 \in Nat
      BY <1>1
    <2> QED
      BY <1>4, <2>1, ProductBound
  <1>7. /\ h0 <= 2 * B + 49 /\ h1 <= 2 * B + 49 /\ h2 <= 2 * B + 49 /\ h3 <= 2 * B + 49 /\ h4 <= 2 * B + 49
        /\ r0 < B /\ r1 < B /\ r2 < B /\ r3 < B /\ r4 < B
    BY <1>2, <1>3
  <1>8. PICK p00, p01, p02, p03, p04, p10, p11, p12, p13, p14, p20, p21, p22, p23, p24,
             p30, p31, p32, p33, p34, p40, p41, p42, p43, p44 \in 0 .. m :
           /\ p00 = h0 * r0 /\ p01 = h0 * r1 /\ p02 = h0 * r2 /\ p03 = h0 * r3 /\ p04 = h0 * r4
           /\ p10 = h1 * r0 /\ p11 = h1 * r1 /\ p12 = h1 * r2 /\ p13 = h1 * r3 /\ p14 = h1 * r4
           /\ p20 = h2 * r0 /\ p21 = h2 * r1 /\ p22 = h2 * r2 /\ p23 = h2 * r3 /\ p24 = h2 * r4
           /\ p30 = h3 * r0 /\ p31 = h3 * r1 /\ p32 = h3 * r2 /\ p33 = h3 * r3 /\ p34 = h3 * r4
           /\ p40 = h4 * r0 /\ p41 = h4 * r1 /\ p42 = h4 * r2 /\ p43 = h4 * r3 /\ p44 = h4 * r4
    BY <1>6, <1>7
  <1> DEFINE z0 == p00 + 5 * (p14 + p23 + p32 + p41)
             z1 == p01 + p10 + 5 * (p24 + p33 + p42)
             z2 == p02 + p11 + p20 + 5 * (p34 + p43)
             z3 == p03 + p12 + p21 + p30 + 5 * p44
             z4 == p04 + p13 + p22 + p31 + p40
             k == (p14 + p23 + p32 + p41)
                  + B * ((p24 + p33 + p42) + B * ((p34 + p43) + B * p44))
             q == Product(h, r)
             term(i, j) == IF j <= i THEN h[j] * r[i - j] ELSE h[j] * U32(5 * r[5 + i - j])
  <1>9. \A i \in 0 .. 4 : U32(5 * r[i]) = 5 * r[i]
    <2> TAKE i \in 0 .. 4
    <2>1. PICK x \in Nat : x = r[i]
      OBVIOUS
    <2>2. x < B
      BY <2>1
    <2>3. 5 * x \in 0 .. Word - 1
      BY <1>1, <2>2
    <2>4. U32(5 * x) = 5 * x
      BY <1>1, <2>3, Fits DEF U32
    <2> QED
      BY <2>1, <2>4
  <1>10. \A i \in 0 .. 4 : q[i] = U64(Total([j \in 0 .. 4 |-> term(i, j)]))
    BY <1>1 DEF Product
  <1>11. \A i \in 0 .. 4 :
            /\ \A j \in 0 .. 4 : term(i, j) \in Int
            /\ Total([j \in 0 .. 4 |-> term(i, j)]) = term(i, 0) + term(i, 1) + term(i, 2) + term(i, 3) + term(i, 4)
    <2> TAKE i \in 0 .. 4
    <2>1. ASSUME NEW j \in 0 .. 4 PROVE term(i, j) \in Int
      <3>1. CASE j <= i
        <4>1. i - j \in 0 .. 4
          BY <3>1
        <4>2. h[j] \in Nat /\ r[i - j] \in Nat
          BY <4>1
        <4> QED
          BY <3>1, <4>2
      <3>2. CASE ~(j <= i)
        <4>1. 5 + i - j \in 0 .. 4
          BY <3>2
        <4>2. h[j] \in Nat /\ r[5 + i - j] \in Nat /\ U32(5 * r[5 + i - j]) = 5 * r[5 + i - j]
          BY <1>9, <4>1
        <4> QED
          BY <3>2, <4>2
      <3> QED
        BY <3>1, <3>2
    <2> DEFINE t == [j \in 0 .. 4 |-> term(i, j)]
    <2>2. t \in [0 .. 4 -> Int]
      <3> HIDE DEF term
      <3> QED
        BY <2>1
    <2>3. Total(t) = t[0] + t[1] + t[2] + t[3] + t[4]
      <3> HIDE DEF t
      <3> QED
        BY <2>2, TotalOfFive
    <2> HIDE DEF term
    <2> QED
      BY <2>1, <2>3
  <1>12. /\ U32(5 * r[1]) = 5 * r1 /\ U32(5 * r[2]) = 5 * r2
         /\ U32(5 * r[3]) = 5 * r3 /\ U32(5 * r[4]) = 5 * r4
    BY <1>3, <1>9
  <1>13. /\ term(0, 0) = p00 /\ term(0, 1) = 5 * p14 /\ term(0, 2) = 5 * p23
         /\ term(0, 3) = 5 * p32 /\ term(0, 4) = 5 * p41
    <2>1. /\ term(0, 0) = h[0] * r[0] /\ term(0, 1) = h[1] * U32(5 * r[4])
          /\ term(0, 2) = h[2] * U32(5 * r[3]) /\ term(0, 3) = h[3] * U32(5 * r[2])
          /\ term(0, 4) = h[4] * U32(5 * r[1])
      OBVIOUS
    <2> HIDE DEF term
    <2> QED
      BY <1>2, <1>3, <1>8, <1>12, <2>1
  <1>14. /\ term(1, 0) = p01 /\ term(1, 1) = p10 /\ term(1, 2) = 5 * p24
         /\ term(1, 3) = 5 * p33 /\ term(1, 4) = 5 * p42
    <2>1. /\ term(1, 0) = h[0] * r[1] /\ term(1, 1) = h[1] * r[0]
          /\ term(1, 2) = h[2] * U32(5 * r[4]) /\ term(1, 3) = h[3] * U32(5 * r[3])
          /\ term(1, 4) = h[4] * U32(5 * r[2])
      OBVIOUS
    <2> HIDE DEF term
    <2> QED
      BY <1>2, <1>3, <1>8, <1>12, <2>1
  <1>15. /\ term(2, 0) = p02 /\ term(2, 1) = p11 /\ term(2, 2) = p20
         /\ term(2, 3) = 5 * p34 /\ term(2, 4) = 5 * p43
    <2>1. /\ term(2, 0) = h[0] * r[2] /\ term(2, 1) = h[1] * r[1] /\ term(2, 2) = h[2] * r[0]
          /\ term(2, 3) = h[3] * U32(5 * r[4]) /\ term(2, 4) = h[4] * U32(5 * r[3])
      OBVIOUS
    <2> HIDE DEF term
    <2> QED
      BY <1>2, <1>3, <1>8, <1>12, <2>1
  <1>16. /\ term(3, 0) = p03 /\ term(3, 1) = p12 /\ term(3, 2) = p21
         /\ term(3, 3) = p30 /\ term(3, 4) = 5 * p44
    <2>1. /\ term(3, 0) = h[0] * r[3] /\ term(3, 1) = h[1] * r[2] /\ term(3, 2) = h[2] * r[1]
          /\ term(3, 3) = h[3] * r[0] /\ term(3, 4) = h[4] * U32(5 * r[4])
      OBVIOUS
    <2> HIDE DEF term
    <2> QED
      BY <1>2, <1>3, <1>8, <1>12, <2>1
  <1>17. /\ term(4, 0) = p04 /\ term(4, 1) = p13 /\ term(4, 2) = p22
         /\ term(4, 3) = p31 /\ term(4, 4) = p40
    <2>1. /\ term(4, 0) = h[0] * r[4] /\ term(4, 1) = h[1] * r[3] /\ term(4, 2) = h[2] * r[2]
          /\ term(4, 3) = h[3] * r[1] /\ term(4, 4) = h[4] * r[0]
      OBVIOUS
    <2> HIDE DEF term
    <2> QED
      BY <1>2, <1>3, <1>8, <2>1
  <1>18. /\ z0 \in 0 .. 21 * m /\ z1 \in 0 .. 21 * m /\ z2 \in 0 .. 21 * m /\ z3 \in 0 .. 21 * m
         /\ z4 \in 0 .. 5 * m /\ 5 * m <= 21 * m
    OBVIOUS
  <1>19. 21 * m + Word <= Word * B /\ Word * B < Word * Word /\ Word * Word \in Nat \ {0}
    <2>1. Word * B = 64 * (B * B) /\ Word * Word = 4096 * (B * B)
      BY <1>1
    <2>2. 21 * m <= 42 * (B * B) + 987 * B
      BY <1>1, <1>5
    <2> QED
      BY <1>1, <1>b, <1>5, <2>1, <2>2
  <1>20. \A x \in 0 .. 21 * m : U64(x) = x
    <2> TAKE x \in 0 .. 21 * m
    <2> DEFINE ww == Word * Word
    <2>1. x \in 0 .. ww - 1 /\ ww \in Nat \ {0}
      BY <1>1, <1>19
    <2> HIDE DEF ww
    <2>2. x % ww = x
      BY <2>1, Fits
    <2> QED
      BY <2>2 DEF U64, ww
  <1>21. q[0] = z0 /\ q[1] = z1 /\ q[2] = z2 /\ q[3] = z3 /\ q[4] = z4
    <2>1. /\ term(0, 0) + term(0, 1) + term(0, 2) + term(0, 3) + term(0, 4) = z0
          /\ term(1, 0) + term(1, 1) + term(1, 2) + term(1, 3) + term(1, 4) = z1
          /\ term(2, 0) + term(2, 1) + term(2, 2) + term(2, 3) + term(2, 4) = z2
          /\ term(3, 0) + term(3, 1) + term(3, 2) + term(3, 3) + term(3, 4) = z3
          /\ term(4, 0) + term(4, 1) + term(4, 2) + term(4, 3) + term(4, 4) = z4
      <3> HIDE DEF term
      <3> QED
        BY <1>13, <1>14, <1>15, <1>16, <1>17
    <2> HIDE DEF term, z0, z1, z2, z3, z4, q
    <2>2. q[0] = U64(z0) /\ q[1] = U64(z1) /\ q[2] = U64(z2) /\ q[3] = U64(z3) /\ q[4] = U64(z4)
      BY <1>10, <1>11, <2>1
    <2>3. z4 \in 0 .. 21 * m
      BY <1>18
    <2> QED
      BY <1>18, <1>20, <2>2, <2>3
  <1>22. q = [i \in 0 .. 4 |-> q[i]]
    BY <1>1 DEF Product
  <1>23. q \in [0 .. 4 -> Nat] /\ \A i \in 0 .. 4 : q[i] + Word <= Word * B
    <2> HIDE DEF q, z0, z1, z2, z3, z4
    <2>1. \A x \in 0 .. 21 * m : x \in Nat /\ x + Word <= Word * B
      BY <1>1, <1>19
    <2>2. \A i \in 0 .. 4 : q[i] \in 0 .. 21 * m
      <3>1. \A i \in 0 .. 4 : i = 0 \/ i = 1 \/ i = 2 \/ i = 3 \/ i = 4
        OBVIOUS
      <3>2. z4 \in 0 .. 21 * m
        BY <1>18
      <3> QED
        BY <1>18, <1>21, <3>1, <3>2
    <2>3. \A i \in 0 .. 4 : q[i] \in Nat /\ q[i] + Word <= Word * B
      BY <2>1, <2>2
    <2> QED
      BY <1>22, <2>3
  <1>24. q[4] <= 10 * (B * B) + 235 * B
    <2> HIDE DEF q, z4
    <2> QED
      BY <1>1, <1>5, <1>18, <1>21
  <1>25. Value(h) * Value(r) = Value(q) + P * k /\ k \in Nat
    <2>1. /\ Value(h) = h0 + B * (h1 + B * (h2 + B * (h3 + B * h4)))
          /\ Value(r) = r0 + B * (r1 + B * (r2 + B * (r3 + B * r4)))
      <3>1. h \in [0 .. 4 -> Int] /\ r \in [0 .. 4 -> Int]
        OBVIOUS
      <3> QED
        BY <1>2, <1>3, <3>1, ValueOfFive
    <2>2. Value(q) = z0 + B * (z1 + B * (z2 + B * (z3 + B * z4)))
      <3>1. q \in [0 .. 4 -> Int]
        BY <1>23
      <3> HIDE DEF q, z0, z1, z2, z3, z4
      <3> QED
        BY <1>21, <3>1, ValueOfFive
    <2>3. P = B * (B * (B * (B * B))) - 5
      BY Modulus
    <2>4. Value(h) * Value(r) = (z0 + B * (z1 + B * (z2 + B * (z3 + B * z4)))) + P * k
      <3> HIDE DEF q
      <3>1. B \in Int
        BY <1>1
      <3>2. (h0 + B * (h1 + B * (h2 + B * (h3 + B * h4))))
              * (r0 + B * (r1 + B * (r2 + B * (r3 + B * r4))))
            = (z0 + B * (z1 + B * (z2 + B * (z3 + B * z4))))
              + (B * (B * (B * (B * B))) - 5) * k
        BY ONLY <1>8, <3>1, PolynomialProduct,
                h0 \in Int, h1 \in Int, h2 \in Int, h3 \in Int, h4 \in Int,
                r0 \in Int, r1 \in Int, r2 \in Int, r3 \in Int, r4 \in Int
      <3> HIDE DEF k, z0, z1, z2, z3, z4
      <3> QED
        BY <2>1, <2>3, <3>2
    <2>5. k \in Nat
      <3>1. \A x, y \in Nat : x * y \in Nat /\ x + y \in Nat
        OBVIOUS
      <3>2. B \in Nat /\ p44 \in Nat
        BY <1>1
      <3>3. p34 + p43 \in Nat /\ p24 + p33 + p42 \in Nat /\ p14 + p23 + p32 + p41 \in Nat
        OBVIOUS
      <3> QED
        BY <3>1, <3>2, <3>3
    <2> HIDE DEF q, k
    <2> QED
      BY <2>2, <2>4, <2>5
  <1> QED
    BY <1>23, <1>24, <1>25

\* Adding a block overflows no limb.
LEMMA SumNumber ==
    ASSUME FiveLimbs, NEW h \in [0 .. 4 -> Nat], AreLimbs(h, Larger),
           NEW block \in Nat, block < Weight[5],
           NEW sum, sum = [i \in 0 .. 4 |-> U32(h[i] + LimbsOf(block)[i])]
    PROVE  /\ sum \in [0 .. 4 -> Nat]
           /\ \A i \in 0 .. 4 : sum[i] <= 2 * B + 49
           /\ Value(sum) = Value(h) + block
  <1> DEFINE l == LimbsOf(block)
  <1>1. Index = 0 .. 4 /\ B \in Nat \ {0} /\ Word \in Nat \ {0} /\ Word = 64 * B /\ Limbs = 5
    BY FiveIndex DEF FiveLimbs
  <1>2. B >= 2048
    BY DEF FiveLimbs
  <1>3. l \in [0 .. 4 -> 0 .. B - 1] /\ Value(l) = block
    BY LimbsOfNumber
  <1>4. \A i \in 0 .. 4 : h[i] <= B + 50
    <2>1. \A i \in 0 .. 4 : h[i] < IF i = 1 THEN B + 51 ELSE B
      BY <1>1 DEF AreLimbs, Larger
    <2> QED
      BY <1>1, <2>1
  <1>5. \A i \in 0 .. 4 : sum[i] = h[i] + l[i] /\ sum[i] \in Nat /\ sum[i] <= 2 * B + 49
    <2> TAKE i \in 0 .. 4
    <2>1. PICK x \in Nat : x = h[i]
      OBVIOUS
    <2>2. PICK y \in 0 .. B - 1 : y = l[i]
      BY <1>3
    <2>3. sum[i] = U32(x + y)
      BY <2>1, <2>2
    <2>4. x + y \in Nat /\ x + y <= 2 * B + 49 /\ x + y \in 0 .. Word - 1
      BY <1>1, <1>2, <1>4, <2>1, <2>2
    <2>5. U32(x + y) = x + y
      BY <1>1, <2>4, Fits DEF U32
    <2> QED
      BY <2>1, <2>2, <2>3, <2>4, <2>5
  <1>6. sum \in [0 .. 4 -> Nat]
    BY <1>5
  <1>7. Value(sum) = Value(h) + Value(l)
    <2> HIDE DEF l
    <2>1. PICK x0, x1, x2, x3, x4 \in Int : x0 = h[0] /\ x1 = h[1] /\ x2 = h[2] /\ x3 = h[3] /\ x4 = h[4]
      <3>1. h[0] \in Int /\ h[1] \in Int /\ h[2] \in Int /\ h[3] \in Int /\ h[4] \in Int
        OBVIOUS
      <3> QED
        BY ONLY <3>1
    <2>2. PICK y0, y1, y2, y3, y4 \in Int : y0 = l[0] /\ y1 = l[1] /\ y2 = l[2] /\ y3 = l[3] /\ y4 = l[4]
      <3>1. l[0] \in Int /\ l[1] \in Int /\ l[2] \in Int /\ l[3] \in Int /\ l[4] \in Int
        BY <1>1, <1>3
      <3> QED
        BY ONLY <3>1
    <2>3. h \in [0 .. 4 -> Int] /\ l \in [0 .. 4 -> Int] /\ sum \in [0 .. 4 -> Int]
      BY <1>1, <1>3, <1>6
    <2>4. /\ Value(h) = x0 + B * (x1 + B * (x2 + B * (x3 + B * x4)))
          /\ Value(l) = y0 + B * (y1 + B * (y2 + B * (y3 + B * y4)))
      BY <2>1, <2>2, <2>3, ValueOfFive
    <2>5. Value(sum) = (x0 + y0) + B * ((x1 + y1) + B * ((x2 + y2) + B * ((x3 + y3) + B * (x4 + y4))))
      <3>1. sum[0] = x0 + y0 /\ sum[1] = x1 + y1 /\ sum[2] = x2 + y2 /\ sum[3] = x3 + y3 /\ sum[4] = x4 + y4
        BY <1>5, <2>1, <2>2
      <3> QED
        BY <2>3, <3>1, ValueOfFive
    <2>6. (x0 + y0) + B * ((x1 + y1) + B * ((x2 + y2) + B * ((x3 + y3) + B * (x4 + y4))))
            = (x0 + B * (x1 + B * (x2 + B * (x3 + B * x4))))
              + (y0 + B * (y1 + B * (y2 + B * (y3 + B * y4))))
      <3>1. B \in Int
        BY <1>1
      <3> QED
        BY ONLY <3>1, x0 \in Int, x1 \in Int, x2 \in Int, x3 \in Int, x4 \in Int,
                y0 \in Int, y1 \in Int, y2 \in Int, y3 \in Int, y4 \in Int
    <2> QED
      BY <2>4, <2>5, <2>6
  <1> QED
    BY <1>3, <1>5, <1>6, <1>7

\* What may be on its way round after a product: less than 51 limbs' worth.
LEMMA SmallCarry ==
    ASSUME FiveLimbs, NEW e \in Nat, e < 10 * (B * B) + 299 * B
    PROVE  e \div B \in Nat /\ 5 * (e \div B) <= 51 * B
  <1>1. B \in Nat \ {0} /\ B >= 2048
    BY FiveIndex DEF FiveLimbs
  <1>2. 10 * B + 299 \in Nat /\ B * (10 * B + 299) = 10 * (B * B) + 299 * B
    BY <1>1
  <1>3. e \div B \in Nat /\ e \div B < 10 * B + 299
    BY <1>1, <1>2, QuotientBound
  <1> QED
    BY <1>1, <1>3

\* One turn of the loop, for every accumulator the turn before may leave, every factor and
\* every block.
LEMMA TurnIsExact ==
    ASSUME FiveLimbs, NEW h \in [Index -> Nat], AreLimbs(h, Larger),
           NEW r \in [Index -> Nat], AreLimbs(r, B), NEW block \in Nat, block < Weight[Limbs]
    PROVE  Absorbed(h, r, block) \in [Index -> Nat] /\ TurnExact(h, r, block)
  <1> DEFINE sum == [i \in 0 .. 4 |-> U32(h[i] + LimbsOf(block)[i])]
             d == Product(sum, r)
             e == Carried(d, 0)
             n == WrappedAround(e)
             c == e[4] \div B
  <1>1. Index = 0 .. 4 /\ Top = 4 /\ Limbs = 5 /\ B \in Nat /\ Word = 64 * B /\ Word \in Nat \ {0}
    BY FiveIndex DEF FiveLimbs
  <1>2. h \in [0 .. 4 -> Nat] /\ r \in [0 .. 4 -> Nat] /\ block < Weight[5]
    BY <1>1
  <1>3. sum \in [0 .. 4 -> Nat] /\ \A i \in 0 .. 4 : sum[i] <= 2 * B + 49
    BY <1>2, SumNumber
  <1>4. Value(sum) = Value(h) + block
    BY <1>2, SumNumber
  <1>5. \A i \in 0 .. 4 : r[i] < B
    BY <1>1 DEF AreLimbs
  <1>6. Absorbed(h, r, block) = n
    BY <1>1 DEF Absorbed
  <1> HIDE DEF sum
  <1>7. /\ d \in [0 .. 4 -> Nat]
        /\ \A i \in 0 .. 4 : d[i] + Word <= Word * B
        /\ d[4] <= 10 * (B * B) + 235 * B
        /\ \E k \in Nat : Value(sum) * Value(r) = Value(d) + P * k
    BY <1>2, <1>3, <1>5, ProductNumber
  <1> HIDE DEF d
  <1>8. /\ e \in [0 .. 4 -> Nat]
        /\ \A i \in 0 .. 3 : e[i] < B
        /\ e[4] < d[4] + Word
        /\ Value(e) = Value(d)
    BY <1>7, CarriedNumber
  <1> HIDE DEF e
  <1>9. c \in Nat /\ 5 * c <= 51 * B
    <2>1. PICK x \in Nat : x = e[4]
      BY <1>8
    <2>2. PICK y \in Nat : y = d[4]
      BY <1>7
    <2>3. x < 10 * (B * B) + 299 * B
      <3>1. B * B \in Nat
        BY <1>1
      <3> QED
        BY <1>1, <1>7, <1>8, <2>1, <2>2, <3>1
    <2>4. x \div B \in Nat /\ 5 * (x \div B) <= 51 * B
      <3> HIDE DEF c
      <3> QED
        BY <2>3, SmallCarry
    <2> QED
      BY <2>1, <2>4
  <1>10. /\ n \in [0 .. 4 -> Nat]
         /\ \A i \in 0 .. 4 : i # 1 => n[i] < B
         /\ n[1] <= e[1] + 51
         /\ Value(e) = Value(n) + P * c
    BY <1>8, <1>9, WrappedNumber
  <1> HIDE DEF n, c
  <1>11. AreLimbs(n, Larger)
    <2>1. n[1] < B + 51
      <3>1. PICK x \in Nat : x = e[1]
        BY <1>8
      <3>2. PICK y \in Nat : y = n[1]
        BY <1>10
      <3>3. x < B /\ y <= x + 51
        BY <1>8, <1>10, <3>1, <3>2
      <3> QED
        BY <1>1, <3>2, <3>3
    <2> QED
      BY <1>1, <1>10, <2>1 DEF AreLimbs, Larger
  <1>12. Value(n) % P = (((Value(h) + block) % P) * Value(r)) % P
    <2>1. PICK k \in Nat : Value(sum) * Value(r) = Value(d) + P * k
      BY <1>7
    <2>2. Value(n) \in Int /\ Value(sum) \in Int /\ Value(r) \in Int
      BY <1>2, <1>3, <1>10, ValueOfFiveNat
    <2>3. P \in Nat \ {0}
      BY Modulus
    <2>4. Value(sum) * Value(r) = Value(n) + P * (c + k)
      <3>1. P * (c + k) = P * c + P * k
        BY <1>9, <2>3
      <3>2. P * c \in Int /\ P * k \in Int
        BY <1>9, <2>3
      <3> QED
        BY <1>8, <1>10, <2>1, <2>2, <3>1, <3>2
    <2>5. (Value(sum) * Value(r)) % P = Value(n) % P
      <3>1. c + k \in Int
        BY <1>9
      <3>2. (Value(n) + P * (c + k)) % P = Value(n) % P
        BY <2>2, <2>3, <3>1, SameModulo
      <3> QED
        BY <2>4, <3>2
    <2>6. ((Value(sum) % P) * Value(r)) % P = (Value(sum) * Value(r)) % P
      BY <2>2, <2>3, ProductModulo
    <2> QED
      BY <1>4, <2>5, <2>6
  <1> QED
    BY <1>1, <1>6, <1>10, <1>11, <1>12 DEF TurnExact

------------------------------------------------------------------------------
\* The reduction after the last block.

\* Equal multiples of a divisor are multiples by the same number.
LEMMA Cancelled ==
    ASSUME NEW b \in Nat \ {0}, NEW u \in Int, NEW v \in Int, b * u = b * v
    PROVE  u = v
  OBVIOUS

\* Numbers whose limbs are digits, and what the top limb is worth.
LEMMA ValueBounds ==
    ASSUME FiveLimbs, NEW h \in [0 .. 4 -> Nat], \A i \in 0 .. 3 : h[i] < B
    PROVE  /\ Value(h) >= Weight[4] * h[4]
           /\ Value(h) < Weight[4] * (h[4] + 1)
           /\ h[4] < B => Value(h) < Weight[5]
  <1> DEFINE b2 == B * B
             b3 == B * b2
             b4 == B * b3
  <1>1. B \in Nat \ {0}
    BY FiveIndex
  <1>2. /\ Weight[0] = 1 /\ Weight[0 + 1] = B * Weight[0] /\ Weight[1 + 1] = B * Weight[1]
        /\ Weight[2 + 1] = B * Weight[2] /\ Weight[3 + 1] = B * Weight[3]
        /\ Weight[4 + 1] = B * Weight[4]
    BY Weights
  <1>3. Weight[4] = b4 /\ Weight[5] = B * b4
    BY <1>1, <1>2
  <1>4. PICK h0, h1, h2, h3, h4 \in Nat :
           h[0] = h0 /\ h[1] = h1 /\ h[2] = h2 /\ h[3] = h3 /\ h[4] = h4
    BY FiveNumbers
  <1>5. h0 <= B - 1 /\ h1 <= B - 1 /\ h2 <= B - 1 /\ h3 <= B - 1
    BY <1>1, <1>4
  <1>6. Value(h) = h0 + B * (h1 + B * (h2 + B * (h3 + B * h4)))
    <2>1. h \in [0 .. 4 -> Int]
      OBVIOUS
    <2> QED
      BY <1>4, <2>1, ValueOfFive
  <1> DEFINE u3 == h3 + B * h4
             u2 == h2 + B * u3
             u1 == h1 + B * u2
             u0 == h0 + B * u1
  <1>7. \A x, y, z \in Nat : x <= B - 1 => /\ x + B * y \in Nat
                                           /\ y >= z => x + B * y >= B * z
                                           /\ y <= z - 1 => x + B * y <= B * z - 1
    <2> SUFFICES ASSUME NEW x \in Nat, NEW y \in Nat, NEW z \in Nat, x <= B - 1
                 PROVE  /\ x + B * y \in Nat
                        /\ y >= z => x + B * y >= B * z
                        /\ y <= z - 1 => x + B * y <= B * z - 1
      OBVIOUS
    <2>1. B * y \in Nat /\ B * z \in Nat
      BY <1>1
    <2>2. ASSUME y >= z PROVE B * y >= B * z
      <3>1. y - z \in Nat /\ B * (y - z) >= 0
        BY <1>1, <2>2
      <3>2. B * (y - z) = B * y - B * z
        BY <1>1
      <3> QED
        BY <2>1, <3>1, <3>2
    <2>3. ASSUME y <= z - 1 PROVE B * y <= B * z - B
      <3>1. z - 1 - y \in Nat /\ B * (z - 1 - y) >= 0
        BY <1>1, <2>3
      <3>2. B * (z - 1 - y) = B * z - B - B * y
        BY <1>1
      <3> QED
        BY <2>1, <3>1, <3>2, <1>1
    <2> QED
      BY <1>1, <2>1, <2>2, <2>3
  <1>8. b2 \in Nat /\ b3 \in Nat /\ b4 \in Nat
    BY <1>1
  <1>9. /\ u3 \in Nat /\ u3 >= B * h4 /\ u3 <= B * (h4 + 1) - 1
    <2>1. h4 >= h4 /\ h4 <= (h4 + 1) - 1 /\ h4 + 1 \in Nat
      OBVIOUS
    <2> QED
      BY <1>5, <1>7, <2>1
  <1>10. /\ u2 \in Nat /\ u2 >= B * (B * h4) /\ u2 <= B * (B * (h4 + 1)) - 1
    <2> HIDE DEF u3
    <2>1. B * h4 \in Nat /\ B * (h4 + 1) \in Nat
      BY <1>1
    <2> QED
      BY <1>5, <1>7, <1>9, <2>1
  <1>11. /\ u1 \in Nat /\ u1 >= B * (B * (B * h4)) /\ u1 <= B * (B * (B * (h4 + 1))) - 1
    <2> HIDE DEF u2
    <2>1. B * (B * h4) \in Nat /\ B * (B * (h4 + 1)) \in Nat
      BY <1>1
    <2> QED
      BY <1>5, <1>7, <1>10, <2>1
  <1>12. /\ u0 \in Nat /\ u0 >= B * (B * (B * (B * h4))) /\ u0 <= B * (B * (B * (B * (h4 + 1)))) - 1
    <2> HIDE DEF u1
    <2>1. B * (B * (B * h4)) \in Nat /\ B * (B * (B * (h4 + 1))) \in Nat
      BY <1>1
    <2> QED
      BY <1>5, <1>7, <1>11, <2>1
  <1>13. /\ B * (B * (B * (B * h4))) = b4 * h4
         /\ B * (B * (B * (B * (h4 + 1)))) = b4 * (h4 + 1)
    BY <1>1
  <1>14. h4 < B => b4 * (h4 + 1) <= B * b4
    <2> SUFFICES ASSUME h4 < B PROVE b4 * (h4 + 1) <= B * b4
      OBVIOUS
    <2> HIDE DEF b4
    <2>1. B - (h4 + 1) \in Nat /\ b4 * (B - (h4 + 1)) >= 0
      BY <1>1, <1>8
    <2>2. b4 * (B - (h4 + 1)) = B * b4 - b4 * (h4 + 1)
      BY <1>1, <1>8
    <2>3. B * b4 \in Int /\ b4 * (h4 + 1) \in Int
      BY <1>1, <1>8
    <2> QED
      BY <2>1, <2>2, <2>3
  <1>15. Value(h) = u0
    BY <1>6
  <1>16. b4 * h4 \in Int /\ b4 * (h4 + 1) \in Int /\ B * b4 \in Int
    <2> HIDE DEF b4
    <2> QED
      BY <1>1, <1>8
  <1>17. /\ u0 >= b4 * h4 /\ u0 < b4 * (h4 + 1)
         /\ h4 < B => u0 < B * b4
    <2> HIDE DEF u0, b4
    <2>1. u0 >= b4 * h4 /\ u0 <= b4 * (h4 + 1) - 1
      BY <1>12, <1>13
    <2> QED
      BY <1>12, <1>14, <1>16, <2>1
  <1> HIDE DEF u0, b4
  <1> QED
    BY <1>3, <1>4, <1>15, <1>17

\* Bringing the limbs of an accumulator into their range: the lowest one is not touched, so
\* the rest of the number does not change, and comes around at most once.
LEMMA NarrowedNumber ==
    ASSUME FiveLimbs, NEW h \in [0 .. 4 -> Nat], AreLimbs(h, Larger),
           NEW n, n = WrappedAround(Carried(h, 1))
    PROVE  /\ n \in [0 .. 4 -> Nat]
           /\ \A i \in 0 .. 4 : n[i] < B
           /\ \E k \in Nat : Value(h) = Value(n) + P * k
  <1> DEFINE e == Carried(h, 1)
             c == e[4] \div B
             b2 == B * B
             b3 == B * b2
             b4 == B * b3
  <1>1. Index = 0 .. 4 /\ Top = 4 /\ Limbs = 5 /\ B \in Nat \ {0} /\ Word = 64 * B /\ Word \in Nat \ {0}
    BY FiveIndex DEF FiveLimbs
  <1>2. B >= 2048
    BY DEF FiveLimbs
  <1>3. PICK h0, h1, h2, h3, h4 \in Nat :
           h[0] = h0 /\ h[1] = h1 /\ h[2] = h2 /\ h[3] = h3 /\ h[4] = h4
    BY FiveNumbers
  <1>4. h0 <= B - 1 /\ h1 <= B + 50 /\ h2 <= B - 1 /\ h3 <= B - 1 /\ h4 <= B - 1
    <2>1. h[0] < B /\ h[1] < B + 51 /\ h[2] < B /\ h[3] < B /\ h[4] < B
      BY <1>1 DEF AreLimbs, Larger
    <2> QED
      BY <1>1, <1>3, <2>1
  <1>5. \A i \in 0 .. 4 : h[i] + Word <= Word * B
    <2>1. Word * B >= 64 * (2048 * B)
      <3>1. Word * B = 64 * (B * B) /\ B * B = 2048 * B + (B - 2048) * B /\ (B - 2048) * B >= 0
        BY <1>1, <1>2
      <3> QED
        BY <1>1, <3>1
    <2>2. \A i \in 0 .. 4 : h[i] <= B + 50
      BY <1>1 DEF AreLimbs, Larger
    <2>3. Word * B \in Nat
      BY <1>1
    <2> QED
      BY <1>1, <1>2, <2>1, <2>2, <2>3
  <1>6. /\ e \in [0 .. 4 -> Nat]
        /\ \A i \in 1 .. 3 : e[i] < B
        /\ e[0] = h[0]
        /\ Value(e) = Value(h)
    BY <1>5, CarriedNumber
  <1> HIDE DEF e
  <1>7. PICK e0, e1, e2, e3, e4 \in Nat :
           e[0] = e0 /\ e[1] = e1 /\ e[2] = e2 /\ e[3] = e3 /\ e[4] = e4
    BY <1>6, FiveNumbers
  <1> DEFINE u == h1 + B * (h2 + B * (h3 + B * h4))
             v == e1 + B * (e2 + B * (e3 + B * e4))
  <1>8. u = v /\ u \in Int
    <2>1. h \in [0 .. 4 -> Int] /\ e \in [0 .. 4 -> Int]
      BY <1>6
    <2>2. Value(h) = h0 + B * u /\ Value(e) = e0 + B * v
      BY <1>3, <1>7, <2>1, ValueOfFive
    <2>3. u \in Int /\ v \in Int
      BY <1>1
    <2>4. h0 = e0
      BY <1>3, <1>6, <1>7
    <2> HIDE DEF u, v
    <2>5. B * u \in Int /\ B * v \in Int
      BY <1>1, <2>3
    <2>6. B * u = B * v
      BY <1>6, <2>2, <2>4, <2>5
    <2> QED
      BY <1>1, <2>3, <2>6, Cancelled
  <1>9. b4 \in Nat /\ b4 > 100
    <2>1. \A x, y \in Nat : x > 100 /\ y > 100 => x * y \in Nat /\ x * y > 100
      <3> SUFFICES ASSUME NEW x \in Nat, NEW y \in Nat, x > 100, y > 100
                   PROVE  x * y \in Nat /\ x * y > 100
        OBVIOUS
      <3>1. x * y = y + (x - 1) * y /\ (x - 1) * y >= 0
        OBVIOUS
      <3> QED
        BY <3>1
    <2>2. B \in Nat /\ B > 100
      BY <1>1, <1>2
    <2>3. b2 \in Nat /\ b2 > 100
      BY <2>1, <2>2
    <2>4. b3 \in Nat /\ b3 > 100
      <3> HIDE DEF b2
      <3> QED
        BY <2>1, <2>2, <2>3
    <2> HIDE DEF b3
    <2> QED
      BY <2>1, <2>2, <2>4
  <1>10. u <= b4 + 50
    <2>1. u = h1 + B * h2 + b2 * h3 + b3 * h4
      BY <1>1
    <2>2. B * h2 <= B * (B - 1) /\ b2 * h3 <= b2 * (B - 1) /\ b3 * h4 <= b3 * (B - 1)
      <3>1. B \in Nat /\ b2 \in Nat /\ b3 \in Nat /\ B - 1 \in Nat
        BY <1>1
      <3>2. h2 \in 0 .. B - 1 /\ h3 \in 0 .. B - 1 /\ h4 \in 0 .. B - 1
        BY <1>1, <1>4
      <3> HIDE DEF b2, b3
      <3>3. \A x \in Nat, y \in 0 .. B - 1 : x * y <= x * (B - 1)
        <4> TAKE x \in Nat, y \in 0 .. B - 1
        <4>1. x \in 0 .. x
          OBVIOUS
        <4> QED
          BY <3>1, <4>1, ProductBound
      <3> QED
        BY <3>1, <3>2, <3>3
    <2>3. B * (B - 1) = b2 - B /\ b2 * (B - 1) = b3 - b2 /\ b3 * (B - 1) = b4 - b3
      BY <1>1
    <2>4. /\ b2 \in Int /\ b3 \in Int /\ B * h2 \in Int /\ b2 * h3 \in Int /\ b3 * h4 \in Int
      BY <1>1
    <2> HIDE DEF u, b2, b3, b4
    <2> QED
      BY <1>1, <1>4, <1>8, <1>9, <2>1, <2>2, <2>3, <2>4
  <1>11. c \in Nat /\ e1 + b4 * c <= v
    <2>1. e4 \div B \in Nat /\ e4 % B \in 0 .. B - 1 /\ e4 = B * (e4 \div B) + (e4 % B)
      BY <1>1, DivisionOfNat
    <2>2. PICK x \in Nat : x = c
      BY <1>7, <2>1
    <2>3. PICK y \in Nat : e4 = B * x + y
      BY <1>1, <1>7, <2>1, <2>2
    <2>4. v = e1 + B * e2 + b2 * e3 + b3 * y + b4 * x
      BY <1>1, <2>3
    <2>5. B * e2 >= 0 /\ b2 * e3 >= 0 /\ b3 * y >= 0 /\ B * e2 \in Int /\ b2 * e3 \in Int /\ b3 * y \in Int
      <3>1. B \in Nat /\ b2 \in Nat /\ b3 \in Nat
        BY <1>1
      <3> HIDE DEF b2, b3
      <3> QED
        BY <3>1
    <2> HIDE DEF v, b2, b3, b4, c
    <2>6. b4 * x \in Int
      BY <1>9
    <2> QED
      BY <2>2, <2>4, <2>5, <2>6
  <1>12. c = 0 \/ (c = 1 /\ e1 <= 50)
    <2> HIDE DEF u, v, b4, c
    <2>1. e1 + b4 * c <= b4 + 50
      <3>1. b4 * c \in Int
        BY <1>9, <1>11
      <3> QED
        BY <1>8, <1>9, <1>10, <1>11, <3>1
    <2>2. ASSUME c >= 2 PROVE FALSE
      <3>1. PICK k \in Nat : c = 2 + k
        <4>1. c - 2 \in Nat /\ c = 2 + (c - 2)
          BY <1>11, <2>2
        <4> QED
          BY <4>1
      <3>2. b4 * c = b4 + b4 + b4 * k /\ b4 * k \in Nat
        BY <1>9, <3>1
      <3> QED
        BY <1>9, <2>1, <3>2
    <2>3. c = 1 => e1 <= 50
      BY <1>9, <2>1
    <2> QED
      BY <1>11, <2>2, <2>3
  <1>13. 5 * c <= 51 * B
    <2> HIDE DEF c
    <2> QED
      BY <1>1, <1>2, <1>12
  <1>14. \A i \in 0 .. 3 : e[i] < B
    <2>1. e[0] < B /\ e[1] < B /\ e[2] < B /\ e[3] < B
      BY <1>1, <1>3, <1>4, <1>6
    <2>2. \A i \in 0 .. 3 : i = 0 \/ i = 1 \/ i = 2 \/ i = 3
      OBVIOUS
    <2> QED
      BY <2>1, <2>2
  <1>15. /\ n \in [0 .. 4 -> Nat]
         /\ \A i \in 0 .. 4 : i # 1 => n[i] < B
         /\ n[1] <= e[1] + 51
         /\ c = 0 => n[1] = e[1]
         /\ Value(e) = Value(n) + P * c
    <2>1. n = WrappedAround(e)
      BY DEF e
    <2> QED
      BY <1>6, <1>13, <1>14, <2>1, WrappedNumber
  <1> HIDE DEF c
  <1>16. n[1] < B
    <2>1. PICK x \in Nat : x = n[1]
      BY <1>15
    <2>2. e1 < B
      BY <1>7, <1>14
    <2>3. CASE c = 0
      BY <1>7, <1>15, <2>2, <2>3
    <2>4. CASE c = 1 /\ e1 <= 50
      BY <1>1, <1>2, <1>7, <1>15, <2>1, <2>4
    <2> QED
      BY <1>12, <2>3, <2>4
  <1> QED
    BY <1>6, <1>11, <1>15, <1>16

\* Which of the two the sign of the top limb chooses: the number if it is below p, and
\* otherwise what is left of it without p.
LEMMA ChosenNumber ==
    ASSUME FiveLimbs, NEW n \in [0 .. 4 -> Nat], \A i \in 0 .. 4 : n[i] < B,
           NEW g, g = MinusP(n),
           NEW m, m = IF g[Top] >= Word \div 2 THEN n ELSE g
    PROVE  /\ m \in [0 .. 4 -> Nat]
           /\ \A i \in 0 .. 4 : m[i] < B
           /\ Value(m) = Value(n) % P
  <1> DEFINE f == [i \in 0 .. 4 |-> IF i = 0 THEN n[0] + 5 ELSE n[i]]
             e == Carried(f, 0)
             w == Weight[4]
  <1>1. Index = 0 .. 4 /\ Top = 4 /\ Limbs = 5 /\ B \in Nat \ {0} /\ Word = 64 * B /\ Word \in Nat \ {0}
    BY FiveIndex DEF FiveLimbs
  <1>2. B >= 2048
    BY DEF FiveLimbs
  <1>3. g = [e EXCEPT ![4] = U32(@ - B)]
    BY <1>1 DEF MinusP
  <1>4. f \in [0 .. 4 -> Nat] /\ \A i \in 0 .. 4 : f[i] <= B + 4
    <2>1. \A i \in 0 .. 4 : f[i] \in Nat /\ f[i] <= B + 4
      BY <1>1
    <2> QED
      BY <2>1
  <1>5. Value(f) = Value(n) + 5
    <2>1. PICK x0, x1, x2, x3, x4 \in Int : x0 = n[0] /\ x1 = n[1] /\ x2 = n[2] /\ x3 = n[3] /\ x4 = n[4]
      <3>1. n[0] \in Int /\ n[1] \in Int /\ n[2] \in Int /\ n[3] \in Int /\ n[4] \in Int
        OBVIOUS
      <3> QED
        BY ONLY <3>1
    <2>2. f[0] = x0 + 5 /\ f[1] = x1 /\ f[2] = x2 /\ f[3] = x3 /\ f[4] = x4
      BY <2>1
    <2>3. f \in [0 .. 4 -> Int] /\ n \in [0 .. 4 -> Int]
      BY <1>4
    <2> HIDE DEF f
    <2> DEFINE rest == B * (x1 + B * (x2 + B * (x3 + B * x4)))
    <2>4. Value(f) = x0 + 5 + rest /\ Value(n) = x0 + rest /\ rest \in Int
      BY <1>1, <2>1, <2>2, <2>3, ValueOfFive
    <2> HIDE DEF rest
    <2> QED
      BY <2>4
  <1> HIDE DEF f
  <1>6. \A i \in 0 .. 4 : f[i] + Word <= Word * B
    <2>1. Word * B >= 64 * (2048 * B)
      <3>1. Word * B = 64 * (B * B) /\ B * B = 2048 * B + (B - 2048) * B /\ (B - 2048) * B >= 0
        BY <1>1, <1>2
      <3> QED
        BY <1>1, <3>1
    <2>2. Word * B \in Nat
      BY <1>1
    <2> QED
      BY <1>1, <1>2, <1>4, <2>1, <2>2
  <1>7. /\ e \in [0 .. 4 -> Nat]
        /\ \A i \in 0 .. 3 : e[i] < B
        /\ Value(e) = Value(n) + 5
    BY <1>4, <1>5, <1>6, CarriedNumber
  <1> HIDE DEF e
  <1>8. w \in Nat /\ w > 5 /\ Weight[5] = B * w
    <2>1. /\ Weight[0] = 1 /\ Weight[0 + 1] = B * Weight[0] /\ Weight[1 + 1] = B * Weight[1]
          /\ Weight[2 + 1] = B * Weight[2] /\ Weight[3 + 1] = B * Weight[3]
          /\ Weight[4 + 1] = B * Weight[4]
      BY Weights
    <2>2. w = B * (B * (B * B)) /\ Weight[5] = B * w
      BY <1>1, <2>1
    <2>3. \A x \in Nat : x > 5 => B * x \in Nat /\ B * x > 5
      <3> SUFFICES ASSUME NEW x \in Nat, x > 5 PROVE B * x \in Nat /\ B * x > 5
        OBVIOUS
      <3>1. PICK k \in Nat : B = 1 + k
        <4>1. B - 1 \in Nat /\ B = 1 + (B - 1)
          BY <1>1
        <4> QED
          BY <4>1
      <3>2. B * x = x + k * x /\ k * x \in Nat
        BY <3>1
      <3> QED
        BY <3>2
    <2>4. B > 5 /\ B \in Nat
      BY <1>1, <1>2
    <2>5. B * (B * (B * B)) \in Nat /\ B * (B * (B * B)) > 5
      BY <2>3, <2>4
    <2> QED
      BY <2>2, <2>5
  <1>9. Value(n) \in Nat /\ Value(n) < Weight[5]
    BY ValueOfFiveNat, ValueBounds
  <1>10. P \in Nat \ {0} /\ P = Weight[5] - 5 /\ Weight[5] > 10
    <2>1. B * B > 10
      <3>1. B * B = 2048 * B + (B - 2048) * B /\ (B - 2048) * B >= 0
        BY <1>1, <1>2
      <3> QED
        BY <1>1, <1>2, <3>1
    <2>2. B * B \in Int
      BY <1>1
    <2> QED
      BY <2>1, <2>2, Modulus
  <1>11. PICK x \in Nat : x = e[4]
    BY <1>7
  <1>12. Value(e) >= w * x /\ Value(e) < w * (x + 1) /\ (x < B => Value(e) < Weight[5])
    BY <1>7, <1>11, ValueBounds
  <1>13. x <= B
    <2> SUFFICES ASSUME x > B PROVE FALSE
      BY <1>1
    <2>1. PICK k \in Nat : x = B + 1 + k
      <3>1. x - B - 1 \in Nat /\ x = B + 1 + (x - B - 1)
        BY <1>1
      <3> QED
        BY <3>1
    <2> HIDE DEF w
    <2>2. w * x = B * w + w + w * k /\ w * k \in Nat
      BY <1>1, <1>8, <2>1
    <2>3. B * w \in Int
      BY <1>1, <1>8
    <2> QED
      BY <1>7, <1>8, <1>9, <1>12, <2>2, <2>3
  <1>14. Word \div 2 = 32 * B
    <2>1. (64 * B) \div 2 = 32 * B
      BY <1>1
    <2> QED
      BY <1>1, <2>1
  <1>15. g[4] = U32(x - B) /\ \A i \in 0 .. 3 : g[i] = e[i]
    BY <1>3, <1>7, <1>11
  <1>16. CASE x < B
    <2>1. g[4] = x - B + Word
      <3> DEFINE y == x - B
                 z == x - B + Word
                 q == 0 - 1
      <3>1. y = Word * q + z /\ q \in Int /\ z \in 0 .. Word - 1
        BY <1>1, <1>16
      <3>2. y % Word = z
        <4>1. Word \in Nat \ {0}
          BY <1>1
        <4> HIDE DEF y, z, q
        <4> QED
          BY <3>1, <4>1, Quotient
      <3> QED
        BY <1>15, <3>2 DEF U32
    <2>2. m = n
      BY <1>1, <1>14, <1>16, <2>1
    <2>3. Value(n) < P
      <3>1. PICK y \in Nat : y = Value(n)
        BY <1>9
      <3>2. PICK z \in Nat : z = Weight[5]
        BY Modulus
      <3>3. y + 5 < z
        BY <1>7, <1>12, <1>16, <3>1, <3>2
      <3> QED
        BY <1>10, <3>1, <3>2, <3>3
    <2>4. Value(n) \in 0 .. P - 1
      BY <1>9, <1>10, <2>3
    <2>5. Value(n) % P = Value(n)
      BY <1>10, <2>4, Fits
    <2> QED
      BY <2>2, <2>5
  <1>17. CASE x = B
    <2>1. g[4] = 0
      <3>1. x - B \in 0 .. Word - 1 /\ x - B = 0
        BY <1>1, <1>17
      <3> QED
        BY <1>1, <1>15, <3>1, Fits DEF U32
    <2>2. m = g
      BY <1>1, <1>14, <2>1
    <2>3. g \in [0 .. 4 -> Nat] /\ \A i \in 0 .. 4 : g[i] < B
      <3>1. g = [i \in 0 .. 4 |-> g[i]]
        BY <1>3, <1>7
      <3>2. \A i \in 0 .. 4 : g[i] \in Nat /\ g[i] < B
        <4>1. \A i \in 0 .. 4 : i \in 0 .. 3 \/ i = 4
          OBVIOUS
        <4>2. \A i \in 0 .. 3 : e[i] \in Nat /\ e[i] < B
          BY <1>7
        <4>3. 0 \in Nat /\ 0 < B
          BY <1>1
        <4> QED
          BY <1>15, <2>1, <4>1, <4>2, <4>3
      <3> QED
        BY <3>1, <3>2
    <2>4. Value(g) = Value(e) - Weight[5]
      <3>1. PICK x0, x1, x2, x3 \in Int : x0 = e[0] /\ x1 = e[1] /\ x2 = e[2] /\ x3 = e[3]
        <4>1. e[0] \in Int /\ e[1] \in Int /\ e[2] \in Int /\ e[3] \in Int
          BY <1>7
        <4> QED
          BY ONLY <4>1
      <3>2. g[0] = x0 /\ g[1] = x1 /\ g[2] = x2 /\ g[3] = x3
        BY <1>15, <3>1
      <3>3. g \in [0 .. 4 -> Int] /\ e \in [0 .. 4 -> Int]
        BY <1>7, <2>3
      <3>4. /\ Value(g) = x0 + B * (x1 + B * (x2 + B * (x3 + B * 0)))
            /\ Value(e) = x0 + B * (x1 + B * (x2 + B * (x3 + B * B)))
        BY <1>11, <1>17, <2>1, <3>1, <3>2, <3>3, ValueOfFive
      <3>5. Weight[5] = B * (B * (B * (B * B))) /\ B \in Int
        BY <1>1, Modulus
      <3>6. x0 + B * (x1 + B * (x2 + B * (x3 + B * 0)))
              = (x0 + B * (x1 + B * (x2 + B * (x3 + B * B)))) - B * (B * (B * (B * B)))
        BY ONLY <3>5, x0 \in Int, x1 \in Int, x2 \in Int, x3 \in Int
      <3> QED
        BY <3>4, <3>5, <3>6
    <2>5. Value(g) \in Nat
      BY <2>3, ValueOfFiveNat
    <2>6. Value(n) % P = Value(g)
      <3>1. PICK y \in Nat : y = Value(n)
        BY <1>9
      <3>2. PICK z \in Nat : z = Weight[5]
        BY Modulus
      <3>3. PICK u \in Nat : u = Value(g)
        BY <2>5
      <3>4. PICK p \in Nat \ {0} : p = P
        BY <1>10
      <3>5. y + 5 = u + z /\ p = z - 5 /\ z > 10 /\ y < z
        BY <1>7, <1>9, <1>10, <2>4, <3>1, <3>2, <3>3, <3>4
      <3>6. y = p * 1 + u /\ u \in 0 .. p - 1 /\ 1 \in Int
        BY <3>5
      <3>7. y % p = u
        BY <3>6, Quotient
      <3> QED
        BY <3>1, <3>3, <3>4, <3>7
    <2> QED
      BY <2>2, <2>3, <2>6
  <1> QED
    BY <1>1, <1>13, <1>16, <1>17

\* The reduction, for every accumulator the last turn may leave.
LEMMA ReductionIsExact ==
    ASSUME FiveLimbs, NEW h \in [Index -> Nat], AreLimbs(h, Larger)
    PROVE  Reduced(h) \in [Index -> Nat] /\ ReductionExact(h)
  <1> DEFINE n == WrappedAround(Carried(h, 1))
             g == MinusP(n)
             m == IF g[Top] >= Word \div 2 THEN n ELSE g
  <1>1. Index = 0 .. 4
    BY FiveIndex
  <1>2. Reduced(h) = m
    BY DEF Reduced
  <1>3. h \in [0 .. 4 -> Nat]
    BY <1>1
  <1>4. /\ n \in [0 .. 4 -> Nat]
        /\ \A i \in 0 .. 4 : n[i] < B
        /\ \E k \in Nat : Value(h) = Value(n) + P * k
    BY <1>3, NarrowedNumber
  <1> HIDE DEF n
  <1>5. /\ m \in [0 .. 4 -> Nat]
        /\ \A i \in 0 .. 4 : m[i] < B
        /\ Value(m) = Value(n) % P
    BY <1>4, ChosenNumber
  <1> HIDE DEF m
  <1>6. Value(m) = Value(h) % P
    <2>1. PICK k \in Nat : Value(h) = Value(n) + P * k
      BY <1>4
    <2>2. Value(n) \in Int /\ P \in Nat \ {0} /\ k \in Int
      BY <1>4, ValueOfFiveNat, Modulus
    <2>3. (Value(n) + P * k) % P = Value(n) % P
      BY <2>2, SameModulo
    <2> QED
      BY <1>5, <2>1, <2>3
  <1>7. AreLimbs(m, B)
    BY <1>1, <1>5 DEF AreLimbs
  <1> QED
    BY <1>1, <1>2, <1>5, <1>6, <1>7 DEF ReductionExact

------------------------------------------------------------------------------
\* Whole messages.

\* A set of natural numbers has a least one, which is what stands for induction here.
LEMMA LeastNumber ==
    ASSUME NEW T, T \subseteq Nat, T # {}
    PROVE  \E x \in T : \A y \in T : x <= y
  <1> DEFINE Less == {pair \in Nat \X Nat : pair[1] < pair[2]}
  <1>1. IsWellFoundedOn(Less, Nat)
    BY NatLessThanWellFounded DEF OpToRel
  <1>2. PICK x \in T : \A y \in T : ~ (<<y, x>> \in Less)
    <2> HIDE DEF Less
    <2> QED
      BY <1>1, WFMin
  <1>3. ASSUME NEW y \in T PROVE x <= y
    <2>1. <<y, x>> \in Nat \X Nat /\ <<y, x>>[1] = y /\ <<y, x>>[2] = x
      OBVIOUS
    <2> QED
      BY <1>2, <2>1
  <1> QED
    BY <1>2, <1>3

\* A fold over the places of a sequence, with all its values in a set.
IsFold(f, size, S, first, step) ==
    /\ f \in [0 .. size -> S]
    /\ f[0] = first
    /\ \A n \in 1 .. size : f[n] = step[n][f[n - 1]]

\* The fold exists when each step stays in the set: there is no least length without one.
LEMMA FoldExists ==
    ASSUME NEW size \in Nat, NEW S, NEW first \in S, NEW step \in [1 .. size -> [S -> S]]
    PROVE  \E f : IsFold(f, size, S, first, step)
  <1> DEFINE Folds(f, k) == \A n \in 0 .. k : f[n] = IF n = 0 THEN first ELSE step[n][f[n - 1]]
             T == {k \in 0 .. size : ~ \E f \in [0 .. k -> S] : Folds(f, k)}
  <1>1. T = {}
    <2> SUFFICES ASSUME T # {} PROVE FALSE
      OBVIOUS
    <2>1. PICK k \in T : \A j \in T : k <= j
      <3>1. T \subseteq Nat
        OBVIOUS
      <3> HIDE DEF T
      <3> QED
        BY <3>1, LeastNumber
    <2>2. k # 0
      <3> SUFFICES ASSUME k = 0 PROVE FALSE
        OBVIOUS
      <3> DEFINE f == [n \in 0 .. 0 |-> first]
      <3>1. f \in [0 .. 0 -> S] /\ Folds(f, 0)
        OBVIOUS
      <3> QED
        BY <2>1, <3>1
    <2>3. k \in 1 .. size /\ k - 1 \in 0 .. size /\ k - 1 \notin T
      <3>1. k \in 0 .. size
        OBVIOUS
      <3>2. k \in 1 .. size /\ k - 1 \in 0 .. size /\ ~(k <= k - 1)
        BY <2>2, <3>1
      <3> HIDE DEF T
      <3> QED
        BY <2>1, <3>2
    <2>4. PICK f \in [0 .. k - 1 -> S] : Folds(f, k - 1)
      BY <2>3
    <2> DEFINE g == [n \in 0 .. k |-> IF n = k THEN step[k][f[k - 1]] ELSE f[n]]
    <2>5. step[k][f[k - 1]] \in S
      <3>1. f[k - 1] \in S
        BY <2>3
      <3> QED
        BY <2>3, <3>1
    <2>6. g \in [0 .. k -> S]
      <3>1. \A n \in 0 .. k : n # k => n \in 0 .. k - 1
        BY <2>3
      <3>2. \A n \in 0 .. k : g[n] \in S
        BY <2>5, <3>1
      <3> QED
        BY <3>2
    <2>7. Folds(g, k)
      <3> TAKE n \in 0 .. k
      <3>1. CASE n = k
        <4>1. g[n] = step[k][f[k - 1]] /\ g[k - 1] = f[k - 1]
          BY <2>3, <3>1
        <4> QED
          BY <2>3, <3>1, <4>1
      <3>2. CASE n # k
        <4>1. n \in 0 .. k - 1 /\ (n # 0 => n - 1 \in 0 .. k - 1 /\ n - 1 # k)
          BY <2>3, <3>2
        <4>2. g[n] = f[n] /\ (n # 0 => g[n - 1] = f[n - 1])
          BY <2>3, <3>2, <4>1
        <4>3. f[n] = IF n = 0 THEN first ELSE step[n][f[n - 1]]
          BY <2>4, <4>1
        <4> HIDE DEF g
        <4>4. CASE n = 0
          BY <4>2, <4>3, <4>4
        <4>5. CASE n # 0
          BY <4>2, <4>3, <4>5
        <4> QED
          BY <4>4, <4>5
      <3> QED
        BY <3>1, <3>2
    <2> QED
      <3> HIDE DEF g, Folds
      <3> QED
        BY <2>1, <2>6, <2>7
  <1>2. PICK f \in [0 .. size -> S] : Folds(f, size)
    <2>1. size \in 0 .. size /\ size \notin T
      BY <1>1
    <2> QED
      BY <2>1
  <1>3. f[0] = first /\ \A n \in 1 .. size : f[n] = step[n][f[n - 1]]
    <2>1. 0 \in 0 .. size /\ \A n \in 1 .. size : n \in 0 .. size /\ n # 0
      OBVIOUS
    <2> QED
      BY <1>2, <2>1
  <1> QED
    BY <1>2, <1>3 DEF IsFold

\* One turn of the definition, of a number that may be reduced first.
LEMMA TurnModulo ==
    ASSUME NEW p \in Nat \ {0}, NEW v \in Int, NEW b \in Int, NEW r \in Int
    PROVE  (((v + b) % p) * r) % p = (((v % p) + b) * r) % p
  <1>1. v \div p \in Int /\ v % p \in Int /\ v = p * (v \div p) + (v % p)
    BY Division
  <1>2. PICK q \in Int, x \in Int : q = v \div p /\ x = v % p
    BY <1>1
  <1>3. v = p * q + x
    BY <1>1, <1>2
  <1>4. (((v + b) % p) * r) % p = ((v + b) * r) % p
    <2>1. v + b \in Int
      OBVIOUS
    <2> QED
      BY <2>1, ProductModulo
  <1>5. (v + b) * r = (x + b) * r + p * (q * r)
    BY <1>3
  <1>6. ((x + b) * r + p * (q * r)) % p = ((x + b) * r) % p
    <2> DEFINE y == (x + b) * r
               k == q * r
    <2>1. y \in Int /\ k \in Int
      OBVIOUS
    <2> HIDE DEF y, k
    <2>2. (y + p * k) % p = y % p
      BY <2>1, SameModulo
    <2> QED
      BY <2>2 DEF y, k
  <1> QED
    BY <1>2, <1>4, <1>5, <1>6

\* The tag the limbs give (encryption.cpp:213-320) is that of RFC 8439, for every key, message
\* and number of blocks: after every block the accumulator is the polynomial so far, modulo p.
THEOREM Poly1305IsExact ==
    ASSUME FiveLimbs, NEW r \in [Index -> Nat], AreLimbs(r, B), NEW s \in Nat,
           NEW message \in Seq(Nat), \A n \in 1 .. Len(message) : message[n] < Weight[Limbs]
    PROVE  poly1305(r, s, message) = (Polynomial(r, message) + s) % BlockValues
  <1> DEFINE size == Len(message)
             Zero == [i \in Index |-> 0]
             R == Value(r)
             S == {h \in [Index -> Nat] : AreLimbs(h, Larger)}
             HE(g) == [n \in 0 .. size |-> IF n = 0 THEN Zero ELSE Absorbed(g[n - 1], r, message[n])]
             SE(g) == [n \in 0 .. size |-> IF n = 0 THEN 0 ELSE ((g[n - 1] + message[n]) * R) % P]
             h == CHOOSE g : g = HE(g)
             sum == CHOOSE g : g = SE(g)
  <1>1. Index = 0 .. 4 /\ Limbs = 5 /\ B \in Nat \ {0} /\ size \in Nat /\ P \in Nat \ {0}
    <2>1. size \in Nat
      OBVIOUS
    <2>2. Index = 0 .. 4 /\ Limbs = 5 /\ B \in Nat \ {0}
      BY FiveIndex DEF FiveLimbs
    <2>3. P \in Nat \ {0}
      BY Modulus
    <2> QED
      BY <2>1, <2>2, <2>3
  <1>2. R \in Nat
    <2>1. r \in [0 .. 4 -> Nat]
      BY <1>1
    <2> QED
      BY <2>1, ValueOfFiveNat
  <1>3. \A n \in 1 .. size : message[n] \in Nat /\ message[n] < Weight[Limbs]
    OBVIOUS
  <1>4. Zero \in S /\ Value(Zero) = 0
    <2>1. Zero \in [0 .. 4 -> Int] /\ Zero \in [Index -> Nat]
      BY <1>1
    <2>2. AreLimbs(Zero, Larger)
      BY <1>1 DEF AreLimbs, Larger
    <2>3. Value(Zero) = 0 + B * (0 + B * (0 + B * (0 + B * 0)))
      <3>1. Zero[0] = 0 /\ Zero[1] = 0 /\ Zero[2] = 0 /\ Zero[3] = 0 /\ Zero[4] = 0
        BY <1>1
      <3> HIDE DEF Zero
      <3> QED
        BY <2>1, <3>1, ValueOfFive
    <2> QED
      BY <1>1, <2>1, <2>2, <2>3
  <1>5. \A n \in 1 .. size, x \in S :
           Absorbed(x, r, message[n]) \in S /\ TurnExact(x, r, message[n])
    <2> TAKE n \in 1 .. size, x \in S
    <2>1. x \in [Index -> Nat] /\ AreLimbs(x, Larger)
      OBVIOUS
    <2>2. Absorbed(x, r, message[n]) \in [Index -> Nat] /\ TurnExact(x, r, message[n])
      BY <1>3, <2>1, TurnIsExact
    <2> QED
      BY <2>2 DEF TurnExact
  <1> HIDE DEF Zero, S
  <1>6. h = HE(h)
    <2> DEFINE step == [n \in 1 .. size |-> [x \in S |-> Absorbed(x, r, message[n])]]
    <2>1. step \in [1 .. size -> [S -> S]]
      BY <1>5
    <2>2. PICK f : IsFold(f, size, S, Zero, step)
      <3> HIDE DEF step, size
      <3>1. size \in Nat /\ Zero \in S
        BY <1>1, <1>4
      <3> QED
        BY ONLY <2>1, <3>1, FoldExists
    <2>3. \A n \in 0 .. size : n # 0 => step[n][f[n - 1]] = Absorbed(f[n - 1], r, message[n])
      <3> SUFFICES ASSUME NEW n \in 0 .. size, n # 0
                   PROVE  step[n][f[n - 1]] = Absorbed(f[n - 1], r, message[n])
        OBVIOUS
      <3>1. n \in 1 .. size /\ n - 1 \in 0 .. size
        <4> HIDE DEF size
        <4> QED
          BY <1>1
      <3>2. f[n - 1] \in S
        <4> HIDE DEF step, size
        <4> QED
          BY <2>2, <3>1 DEF IsFold
      <3> QED
        BY <3>1, <3>2
    <2>4. f = HE(f)
      <3> HIDE DEF step, size
      <3>1. \A n \in 0 .. size : f[n] = IF n = 0 THEN Zero ELSE Absorbed(f[n - 1], r, message[n])
        <4>1. \A n \in 0 .. size : n # 0 => n \in 1 .. size
          BY <1>1
        <4> QED
          BY <2>2, <2>3, <4>1 DEF IsFold
      <3>2. f = [n \in 0 .. size |-> f[n]]
        BY <2>2 DEF IsFold
      <3> QED
        BY <3>1, <3>2
    <2> HIDE DEF HE
    <2> QED
      BY <2>4
  <1>7. sum = SE(sum)
    <2> DEFINE step == [n \in 1 .. size |-> [x \in Nat |-> ((x + message[n]) * R) % P]]
    <2>1. step \in [1 .. size -> [Nat -> Nat]]
      <3>1. \A n \in 1 .. size, x \in Nat : ((x + message[n]) * R) % P \in Nat
        <4> TAKE n \in 1 .. size, x \in Nat
        <4>1. message[n] \in Nat
          BY <1>3
        <4>2. (x + message[n]) * R \in Nat
          <5>1. \A a, b \in Nat : a + b \in Nat /\ a * b \in Nat
            OBVIOUS
          <5> HIDE DEF R
          <5> QED
            BY <1>2, <4>1, <5>1
        <4>3. ((x + message[n]) * R) % P \in 0 .. P - 1
          BY <1>1, <4>2, DivisionOfNat
        <4> QED
          BY <1>1, <4>3
      <3> HIDE DEF R
      <3> QED
        BY <3>1
    <2>2. PICK f : IsFold(f, size, Nat, 0, step)
      <3> HIDE DEF step, size
      <3>1. size \in Nat /\ 0 \in Nat
        BY <1>1, <1>4
      <3> QED
        BY ONLY <2>1, <3>1, FoldExists
    <2>3. \A n \in 0 .. size : n # 0 => step[n][f[n - 1]] = ((f[n - 1] + message[n]) * R) % P
      <3> SUFFICES ASSUME NEW n \in 0 .. size, n # 0
                   PROVE  step[n][f[n - 1]] = ((f[n - 1] + message[n]) * R) % P
        OBVIOUS
      <3>1. n \in 1 .. size /\ n - 1 \in 0 .. size
        <4> HIDE DEF size
        <4> QED
          BY <1>1
      <3>2. f[n - 1] \in Nat
        <4> HIDE DEF step, size
        <4> QED
          BY <2>2, <3>1 DEF IsFold
      <3> HIDE DEF R
      <3> QED
        BY <3>1, <3>2
    <2>4. f = SE(f)
      <3> HIDE DEF step, R, size
      <3>1. \A n \in 0 .. size : f[n] = IF n = 0 THEN 0 ELSE ((f[n - 1] + message[n]) * R) % P
        <4>1. \A n \in 0 .. size : n # 0 => n \in 1 .. size
          BY <1>1
        <4> QED
          BY <2>2, <2>3, <4>1 DEF IsFold
      <3>2. f = [n \in 0 .. size |-> f[n]]
        BY <2>2 DEF IsFold
      <3> QED
        BY <3>1, <3>2
    <2> HIDE DEF SE
    <2> QED
      BY <2>4
  <1>8. poly1305(r, s, message) = Tag(h[size], s) /\ Polynomial(r, message) = sum[size]
    BY DEF poly1305, Polynomial, Zero
  <1> HIDE DEF h, sum
  <1>9. h[0] = Zero /\ \A n \in 1 .. size : h[n] = Absorbed(h[n - 1], r, message[n])
    <2>1. \A n \in 0 .. size : h[n] = IF n = 0 THEN Zero ELSE Absorbed(h[n - 1], r, message[n])
      BY <1>6
    <2> QED
      BY <1>1, <2>1
  <1>10. sum[0] = 0 /\ \A n \in 1 .. size : sum[n] = ((sum[n - 1] + message[n]) * R) % P
    <2> HIDE DEF R
    <2>1. \A n \in 0 .. size : sum[n] = IF n = 0 THEN 0 ELSE ((sum[n - 1] + message[n]) * R) % P
      BY <1>7
    <2>2. 0 \in 0 .. size /\ \A n \in 1 .. size : n \in 0 .. size /\ n # 0
      BY <1>1
    <2> HIDE DEF size
    <2> QED
      BY <2>1, <2>2
  <1> DEFINE Agree(n) == h[n] \in S /\ Value(h[n]) % P = sum[n]
             T == {n \in 0 .. size : ~ Agree(n)}
  <1> HIDE DEF R
  <1>11. T = {}
    <2> SUFFICES ASSUME T # {} PROVE FALSE
      OBVIOUS
    <2>1. PICK n \in T : \A m \in T : n <= m
      <3>1. T \subseteq Nat
        OBVIOUS
      <3> HIDE DEF T
      <3> QED
        BY <3>1, LeastNumber
    <2>2. n # 0
      <3>1. 0 % P = 0
        <4>1. 0 \in 0 .. P - 1
          BY <1>1
        <4> QED
          BY <1>1, <4>1, Fits
      <3>2. Agree(0)
        BY <1>4, <1>9, <1>10, <3>1
      <3> HIDE DEF Agree
      <3> QED
        BY <2>1, <3>2
    <2>3. n \in 1 .. size /\ Agree(n - 1)
      <3> HIDE DEF Agree
      <3>1. n \in 1 .. size /\ n - 1 \in 0 .. size /\ n - 1 \notin T
        BY <2>1, <2>2
      <3> QED
        BY <3>1
    <2>4. h[n] \in S /\ TurnExact(h[n - 1], r, message[n])
      BY <1>5, <1>9, <2>3
    <2>5. Value(h[n]) % P = (((Value(h[n - 1]) + message[n]) % P) * R) % P
      BY <1>9, <2>3, <2>4 DEF TurnExact, R
    <2>6. Value(h[n - 1]) \in Int /\ message[n] \in Int /\ R \in Int
      <3>1. h[n - 1] \in [0 .. 4 -> Nat]
        BY <1>1, <2>3 DEF S
      <3>2. Value(h[n - 1]) \in Nat
        BY <3>1, ValueOfFiveNat
      <3>3. message[n] \in Nat
        BY <1>3, <2>3
      <3> QED
        BY <1>2, <3>2, <3>3
    <2>7. (((Value(h[n - 1]) + message[n]) % P) * R) % P
            = (((Value(h[n - 1]) % P) + message[n]) * R) % P
      BY <1>1, <2>6, TurnModulo
    <2>8. Agree(n)
      BY <1>10, <2>3, <2>4, <2>5, <2>7
    <2> HIDE DEF Agree
    <2> QED
      BY <2>1, <2>8
  <1>12. Agree(size)
    <2>1. size \in 0 .. size
      BY <1>1
    <2> HIDE DEF Agree
    <2> QED
      BY <1>11, <2>1
  <1>13. Value(Reduced(h[size])) = Value(h[size]) % P
    <2>1. h[size] \in [Index -> Nat] /\ AreLimbs(h[size], Larger)
      BY <1>12 DEF S
    <2>2. ReductionExact(h[size])
      BY <2>1, ReductionIsExact
    <2> QED
      BY <2>2 DEF ReductionExact
  <1> QED
    BY <1>8, <1>12, <1>13 DEF Tag

\* The blocks, pads and limbs that the properties look at are such as the code has them.
LEMMA CheckedValues ==
    ASSUME FiveLimbs
    PROVE  /\ BlockValues \in Nat \ {0}
           /\ 2 * BlockValues <= Weight[Limbs]
           /\ SomeBlocks \subseteq 0 .. Weight[Limbs] - 1
           /\ Pads \subseteq Nat
  <1>1. PICK w \in Nat : w = Weight[Limbs] /\ w > 4
    <2>1. Limbs = 5 /\ Weight[5] \in Nat
      BY Weights DEF FiveLimbs
    <2>2. P \in Nat \ {0} /\ Weight[5] = P + 5
      BY <2>1, Modulus DEF P
    <2> QED
      BY <2>1, <2>2
  <1>2. PICK v \in Nat : v = BlockValues /\ 4 * v <= w /\ v > 0
    <2>1. w \div 4 \in Nat /\ 4 * (w \div 4) <= w /\ w \div 4 > 0
      BY <1>1
    <2> QED
      BY <1>1, <2>1 DEF BlockValues
  <1>3. v \div 2 \in Nat /\ v \div 2 <= v
    OBVIOUS
  <1>4. SomeBlocks = {2 + 0, 2 + 1, (v \div 2) + 0, (v \div 2) + 1, v + 0, v + 1, (v - 1) + v}
    BY <1>2 DEF SomeBlocks, Block
  <1>5. \A block \in SomeBlocks : block \in 0 .. w - 1
    BY <1>1, <1>2, <1>3, <1>4
  <1> QED
    BY <1>1, <1>2, <1>5 DEF Pads

\* What the properties of Poly1305 say of some values.
LEMMA ChecksHold ==
    ASSUME FiveLimbs
    PROVE  AbsorbedExact /\ ReducedExact /\ TagExact
  <1>1. Accumulators \subseteq {h \in [Index -> Nat] : AreLimbs(h, Larger)}
        /\ Factors \subseteq {r \in [Index -> Nat] : AreLimbs(r, B)}
    BY Poly1305Assumption DEF Accumulators, Factors
  <1>2. AbsorbedExact
    <2> SUFFICES ASSUME NEW h \in Accumulators, NEW r \in Factors, NEW block \in SomeBlocks
                 PROVE  TurnExact(h, r, block)
      BY DEF AbsorbedExact
    <2>1. block \in Nat /\ block < Weight[Limbs]
      <3>1. \A w \in Int : \A x \in 0 .. w - 1 : x \in Nat /\ x < w
        OBVIOUS
      <3>2. Weight[Limbs] \in Int
        BY Weights DEF FiveLimbs
      <3> QED
        BY <3>1, <3>2, CheckedValues
    <2> QED
      BY <1>1, <2>1, TurnIsExact
  <1>3. ReducedExact
    BY <1>1, ReductionIsExact DEF ReducedExact
  <1>4. TagExact
    <2> SUFFICES ASSUME NEW r \in Factors, NEW s \in Pads, NEW message \in Messages
                 PROVE  poly1305(r, s, message) = (Polynomial(r, message) + s) % BlockValues
      BY DEF TagExact
    <2> DEFINE last == 2 * BlockValues - 1
    <2>1. /\ message \in Seq(Nat)
          /\ \A n \in 1 .. Len(message) : message[n] \in 0 .. last
      <3>1. message \in Seq(0 .. last)
        BY MessagesAssumption
      <3>2. 0 .. last \subseteq Nat
        BY CheckedValues
      <3> HIDE DEF last
      <3>3. \A n \in 1 .. Len(message) : message[n] \in 0 .. last
        BY <3>1, ElementOfSeq
      <3>4. Len(message) \in Nat /\ message = [n \in 1 .. Len(message) |-> message[n]]
        BY <3>1
      <3>5. message \in Seq(Nat)
        BY <3>2, <3>3, <3>4
      <3> QED
        BY <3>3, <3>5
    <2>2. \A n \in 1 .. Len(message) : message[n] < Weight[Limbs]
      <3>1. PICK v \in Nat, w \in Nat : v = BlockValues /\ w = Weight[Limbs] /\ 2 * v <= w
        BY CheckedValues, Weights DEF FiveLimbs
      <3>2. \A x \in 0 .. 2 * v - 1 : x < w
        BY <3>1
      <3> QED
        BY <2>1, <3>1, <3>2
    <2>3. s \in Nat
      BY CheckedValues
    <2> QED
      BY <1>1, <2>1, <2>2, <2>3, Poly1305IsExact
  <1> QED
    BY <1>2, <1>3, <1>4

------------------------------------------------------------------------------
\* Bytes.

\* The bytes of the code.
EightBits == ByteBits = 8

\* Bytes of 8 bits are numbers up to 255.
LEMMA ByteRange ==
    ASSUME EightBits
    PROVE  Byte = 0 .. 255
  BY DEF EightBits, Byte

\* What the assumptions on the constants say of bytes of 8 bits: a base64 digit has 6 of them.
LEMMA EightBitBytes ==
    ASSUME EightBits
    PROVE  /\ Byte = 0 .. 255 /\ DigitBits = 6
           /\ Alphabet \in [0 .. 63 -> Byte]
           /\ \A i, j \in 0 .. 63 : Alphabet[i] = Alphabet[j] => i = j
           /\ \A i \in 0 .. 63 : Alphabet[i] # Pad /\ Alphabet[i] # Quote
           /\ Pad \in Byte /\ Pad # Quote
  <1>1. ByteBits = 8
    BY DEF EightBits
  <1>2. Byte = 0 .. 255 /\ DigitBits = 6
    BY <1>1 DEF Byte, DigitBits
  <1>3. Alphabet \in [0 .. 2 ^ ((8 * 3) \div 4) - 1 -> Byte]
    BY <1>1, CiphertextAssumption
  <1>4. (8 * 3) \div 4 = 6
    OBVIOUS
  <1>5. Alphabet \in [0 .. 63 -> Byte]
    BY <1>3, <1>4
  <1>6. DOMAIN Alphabet = 0 .. 63
    BY <1>5
  <1>7. \A i, j \in 0 .. 63 : Alphabet[i] = Alphabet[j] => i = j
    BY <1>6, CiphertextAssumption
  <1>8. \A i \in 0 .. 63 : Alphabet[i] # Pad /\ Alphabet[i] # Quote
    <2>1. {Pad, Quote} \cap Range(Alphabet) = {}
      BY CiphertextAssumption
    <2>2. \A i \in 0 .. 63 : Alphabet[i] \in Range(Alphabet)
      BY <1>6 DEF Range
    <2> QED
      BY <2>1, <2>2
  <1>9. Pad \in Byte /\ Pad # Quote
    BY CiphertextAssumption
  <1> QED
    BY <1>2, <1>5, <1>7, <1>8, <1>9

\* A sequence by its places.
LEMMA SequenceOf ==
    ASSUME NEW S, NEW n \in Nat, NEW f, f = [i \in 1 .. n |-> f[i]], \A i \in 1 .. n : f[i] \in S
    PROVE  f \in Seq(S) /\ Len(f) = n
  <1>1. f \in [1 .. n -> S]
    OBVIOUS
  <1> QED
    BY <1>1

------------------------------------------------------------------------------
\* Base64.

\* Three places of a number in base y, from the number.
LEMMA ThreePlaces ==
    ASSUME NEW y \in Nat \ {0}, NEW a \in 0 .. y - 1, NEW b \in 0 .. y - 1, NEW c \in 0 .. y - 1,
           NEW v, v = a * (y * y) + b * y + c
    PROVE  /\ v \in Nat
           /\ v < y * (y * y)
           /\ (v \div (y * y)) % y = a
           /\ (v \div y) % y = b
           /\ v % y = c
  <1> DEFINE ab == a * y + b
             yy == y * y
             bc == b * y + c
  <1>1. ab \in Nat /\ v = y * ab + c
    OBVIOUS
  <1>2. v \in Nat /\ v \div y = ab /\ v % y = c
    <2>1. y * ab \in Nat
      BY <1>1
    <2> HIDE DEF ab
    <2> QED
      BY <1>1, <2>1, Quotient
  <1>3. ab \div y = a /\ ab % y = b
    <2>1. ab = y * a + b
      OBVIOUS
    <2> HIDE DEF ab
    <2> QED
      BY <2>1, Quotient
  <1>4. v \div yy = a
    <2>1. v \div (y * y) = (v \div y) \div y
      BY <1>2, QuotientTwice
    <2> HIDE DEF ab
    <2> QED
      BY <1>2, <1>3, <2>1
  <1>5. a % y = a
    BY Fits
  <1>6. v < y * (y * y)
    <2>1. a * yy <= (y - 1) * yy /\ b * y <= (y - 1) * y
      <3>1. yy \in Nat /\ yy \in 0 .. yy /\ y \in 0 .. y /\ y - 1 \in Nat
        OBVIOUS
      <3> HIDE DEF yy
      <3> QED
        BY <3>1, ProductBound
    <2>2. y * (y * y) = (y - 1) * yy + (y - 1) * y + y /\ yy \in Nat
      OBVIOUS
    <2>3. a * yy \in Int /\ b * y \in Int /\ (y - 1) * yy \in Int /\ (y - 1) * y \in Int
      BY <2>2
    <2>4. v = a * yy + b * y + c
      OBVIOUS
    <2> HIDE DEF yy
    <2> QED
      BY <2>1, <2>2, <2>3, <2>4
  <1> QED
    BY <1>2, <1>3, <1>4, <1>5, <1>6

\* base64_value finds every digit of the alphabet again.
LEMMA ValueOfDigit ==
    ASSUME EightBits, NEW i \in 0 .. 63
    PROVE  base64_value(Alphabet[i]) = i
  <1> DEFINE digits == {digit \in DOMAIN Alphabet : Alphabet[digit] = Alphabet[i]}
  <1>1. DOMAIN Alphabet = 0 .. 63
    BY EightBitBytes
  <1>2. digits = {i}
    <2>1. \A j \in 0 .. 63 : Alphabet[j] = Alphabet[i] => j = i
      BY Zenon, EightBitBytes
    <2> QED
      BY <1>1, <2>1
  <1> HIDE DEF digits
  <1>3. base64_value(Alphabet[i]) = IF digits = {} THEN -1 ELSE CHOOSE digit \in digits : TRUE
    BY DEF base64_value, digits
  <1>4. (CHOOSE digit \in digits : TRUE) = i
    BY <1>2
  <1> QED
    BY <1>2, <1>3, <1>4

\* The same for all digits at once.
LEMMA ValuesOfDigits ==
    ASSUME EightBits
    PROVE  \A i \in 0 .. 63 : base64_value(Alphabet[i]) = i
  BY Zenon, ValueOfDigit

\* The padding is no digit.
LEMMA ValueOfPad ==
    ASSUME EightBits
    PROVE  base64_value(Pad) = -1
  <1> DEFINE digits == {digit \in DOMAIN Alphabet : Alphabet[digit] = Pad}
  <1>1. DOMAIN Alphabet = 0 .. 63
    BY EightBitBytes
  <1>2. digits = {}
    <2>1. \A j \in 0 .. 63 : Alphabet[j] # Pad
      BY Zenon, EightBitBytes
    <2> QED
      BY <1>1, <2>1
  <1> HIDE DEF digits
  <1>3. base64_value(Pad) = IF digits = {} THEN -1 ELSE CHOOSE digit \in digits : TRUE
    BY DEF base64_value, digits
  <1> QED
    BY <1>2, <1>3

\* The three bytes of a group with what is missing as zeros, and its number.
GroupNumber(a, b, c) == a * 65536 + b * 256 + c

IsFilled(group, m, a, b, c) ==
    /\ group[1] = a
    /\ m > 1 => group[2] = b
    /\ m > 2 => group[3] = c
    /\ m < 2 => b = 0
    /\ m < 3 => c = 0
    /\ EncodedGroup(group) =
          [i \in 1 .. 4 |-> IF i <= m + 1
                            THEN Alphabet[Part(GroupNumber(a, b, c), i, 4, 6)] ELSE Pad]

\* A group of one to three bytes is filled up with zeros, and encoded from the number they make.
LEMMA GroupFilled ==
    ASSUME EightBits, NEW m \in 1 .. 3, NEW group \in Seq(Byte), Len(group) = m
    PROVE  \E a, b, c \in 0 .. 255 : IsFilled(group, m, a, b, c)
  <1> DEFINE full == group \o Zeros(3 - Len(group))
  <1>1. Byte = 0 .. 255 /\ DigitBits = 6
    BY EightBitBytes
  <1>2. Zeros(3 - m) \in Seq(Byte) /\ Len(Zeros(3 - m)) = 3 - m
        /\ \A i \in 1 .. 3 - m : Zeros(3 - m)[i] = 0
    <2> DEFINE n == 3 - m
               zeros == Zeros(n)
    <2>1. n \in Nat
      OBVIOUS
    <2>2. zeros = [i \in 1 .. n |-> zeros[i]] /\ \A i \in 1 .. n : zeros[i] = 0
      <3> HIDE DEF n
      <3> QED
        BY DEF Zeros
    <2>3. \A i \in 1 .. n : zeros[i] \in Byte
      BY <1>1, <2>2
    <2> HIDE DEF n, zeros
    <2>4. zeros \in Seq(Byte) /\ Len(zeros) = n
      BY <2>1, <2>2, <2>3, SequenceOf
    <2> QED
      BY <2>2, <2>4 DEF n, zeros
  <1>3. /\ full \in Seq(Byte)
        /\ Len(full) = 3
        /\ \A i \in 1 .. 3 : full[i] = IF i <= m THEN group[i] ELSE Zeros(3 - m)[i - m]
    <2>1. m + (3 - m) = 3
      OBVIOUS
    <2>2. /\ full \in Seq(Byte)
          /\ Len(full) = m + Len(Zeros(3 - m))
          /\ \A i \in 1 .. m + Len(Zeros(3 - m)) :
                full[i] = IF i <= m THEN group[i] ELSE Zeros(3 - m)[i - m]
      BY <1>2, ConcatProperties
    <2> QED
      BY <1>2, <2>1, <2>2
  <1>4. \A i \in 1 .. 3 : (i <= m => full[i] = group[i]) /\ (i > m => full[i] = 0)
    <2> TAKE i \in 1 .. 3
    <2>1. CASE i <= m
      BY <1>3, <2>1
    <2>2. CASE i > m
      <3>1. i - m \in 1 .. 3 - m
        BY <2>2
      <3> QED
        BY <1>2, <1>3, <2>2, <3>1
    <2> QED
      BY <2>1, <2>2
  <1>5. PICK a, b, c \in 0 .. 255 : a = full[1] /\ b = full[2] /\ c = full[3]
    <2>1. full[1] \in Byte /\ full[2] \in Byte /\ full[3] \in Byte
      <3> HIDE DEF full
      <3>1. \A i \in 1 .. 3 : full[i] \in Byte
        BY <1>3, ElementOfSeq
      <3>2. 1 \in 1 .. 3 /\ 2 \in 1 .. 3 /\ 3 \in 1 .. 3
        OBVIOUS
      <3> QED
        BY <3>1, <3>2
    <2> HIDE DEF full
    <2> QED
      BY <1>1, <2>1
  <1>6. full[1] * 2 ^ (2 * ByteBits) + full[2] * 2 ^ ByteBits + full[3] = GroupNumber(a, b, c)
    <2>1. ByteBits = 8
      BY DEF EightBits
    <2>2. 2 ^ (2 * ByteBits) = 65536 /\ 2 ^ ByteBits = 256
      BY <2>1
    <2> HIDE DEF full
    <2> QED
      BY <1>5, <2>2 DEF GroupNumber
  <1>7. EncodedGroup(group) =
            [i \in 1 .. 4 |-> IF i <= m + 1
                              THEN Alphabet[Part(GroupNumber(a, b, c), i, 4, 6)] ELSE Pad]
    <2>1. EncodedGroup(group) =
            [i \in 1 .. 4 |-> IF i <= m + 1
                              THEN Alphabet[Part(full[1] * 2 ^ (2 * ByteBits) + full[2] * 2 ^ ByteBits + full[3], i, 4, DigitBits)]
                              ELSE Pad]
      BY DEF EncodedGroup
    <2> HIDE DEF full
    <2> QED
      BY <1>1, <1>6, <2>1
  <1>8. group[1] = a /\ (m > 1 => group[2] = b) /\ (m > 2 => group[3] = c)
    <2> HIDE DEF full
    <2>1. 1 \in 1 .. 3 /\ 2 \in 1 .. 3 /\ 3 \in 1 .. 3 /\ 1 <= m /\ (m > 1 => 2 <= m) /\ (m > 2 => 3 <= m)
      OBVIOUS
    <2> QED
      BY <1>4, <1>5, <2>1
  <1>9. (m < 2 => b = 0) /\ (m < 3 => c = 0)
    <2> HIDE DEF full
    <2>1. 2 \in 1 .. 3 /\ 3 \in 1 .. 3
      OBVIOUS
    <2> QED
      BY <1>4, <1>5, <2>1
  <1> HIDE DEF full
  <1>10. IsFilled(group, m, a, b, c)
    BY <1>7, <1>8, <1>9 DEF IsFilled
  <1> QED
    BY <1>10

\* The digits of a number of 24 bits in base 64.
LEMMA FourDigits ==
    ASSUME NEW v \in Nat, v < 16777216
    PROVE  /\ (v \div 262144) % 64 \in 0 .. 63
           /\ (v \div 4096) % 64 \in 0 .. 63
           /\ (v \div 64) % 64 \in 0 .. 63
           /\ v % 64 \in 0 .. 63
           /\ v = ((v \div 262144) % 64) * 262144 + ((v \div 4096) % 64) * 4096
                    + ((v \div 64) % 64) * 64 + (v % 64)
  <1>1. PICK a \in Nat, b \in Nat, c \in Nat : a = v \div 64 /\ b = a \div 64 /\ c = b \div 64
    BY SMT
  <1>2. b = v \div 4096 /\ c = v \div 262144
    BY SMT, <1>1
  <1>3. v = 64 * a + (v % 64) /\ a = 64 * b + (a % 64) /\ b = 64 * c + (b % 64)
    BY SMT, <1>1
  <1>4. c < 64
    BY SMT, <1>2
  <1>5. c % 64 = c
    BY SMT, <1>4
  <1>6. v % 64 \in 0 .. 63 /\ a % 64 \in 0 .. 63 /\ b % 64 \in 0 .. 63 /\ c % 64 \in 0 .. 63
    BY SMT
  <1>7. v = (c % 64) * 262144 + (b % 64) * 4096 + (a % 64) * 64 + (v % 64)
    BY SMT, <1>3, <1>5
  <1> QED
    BY SMT, <1>1, <1>2, <1>6, <1>7

DigitsNumber(p, q, r, s) == p * 262144 + q * 4096 + r * 64 + s

\* The four digits of a group's number, and the number back from them: those that padding
\* replaces are zeros.
IsNumberOf(v, a, b, c) ==
    /\ v = GroupNumber(a, b, c)
    /\ \A i \in 1 .. 4 : Part(v, i, 4, 6) \in 0 .. 63
    /\ v = DigitsNumber(Part(v, 1, 4, 6), Part(v, 2, 4, 6), Part(v, 3, 4, 6), Part(v, 4, 4, 6))
    /\ c = 0 => Part(v, 4, 4, 6) = 0
    /\ b = 0 /\ c = 0 => Part(v, 3, 4, 6) = 0
    /\ Part(v, 1, 3, 8) = a /\ Part(v, 2, 3, 8) = b /\ Part(v, 3, 3, 8) = c

\* The number of three bytes has them as its parts of 8 bits, and the digits a decoder adds up
\* as its parts of 6 bits; those of bytes that are zero are zero.
LEMMA GroupDigits ==
    ASSUME NEW a \in 0 .. 255, NEW b \in 0 .. 255, NEW c \in 0 .. 255
    PROVE  \E v \in Nat : IsNumberOf(v, a, b, c)
  <1>0. PICK v \in Nat : v = GroupNumber(a, b, c)
    BY SMT DEF GroupNumber
  <1>1. /\ Part(v, 1, 4, 6) = (v \div 262144) % 64
        /\ Part(v, 2, 4, 6) = (v \div 4096) % 64
        /\ Part(v, 3, 4, 6) = (v \div 64) % 64
        /\ Part(v, 4, 4, 6) = (v \div 1) % 64
        /\ Part(v, 1, 3, 8) = (v \div 65536) % 256
        /\ Part(v, 2, 3, 8) = (v \div 256) % 256
        /\ Part(v, 3, 3, 8) = (v \div 1) % 256
    BY SMT DEF Part
  <1>2. v = a * (256 * 256) + b * 256 + c
    BY SMT, <1>0 DEF GroupNumber
  <1>3. /\ v \in Nat /\ v < 256 * (256 * 256)
        /\ (v \div (256 * 256)) % 256 = a /\ (v \div 256) % 256 = b /\ v % 256 = c
    <2>1. 256 \in Nat \ {0} /\ 256 - 1 = 255
      BY SMT
    <2> QED
      BY SMT, <1>2, <2>1, ThreePlaces
  <1>4. v \div 1 = v
    BY SMT, <1>3
  <1>5. /\ (v \div 262144) % 64 \in 0 .. 63
        /\ (v \div 4096) % 64 \in 0 .. 63
        /\ (v \div 64) % 64 \in 0 .. 63
        /\ v % 64 \in 0 .. 63
        /\ v = ((v \div 262144) % 64) * 262144 + ((v \div 4096) % 64) * 4096
                 + ((v \div 64) % 64) * 64 + (v % 64)
    <2>1. v < 16777216
      BY SMT, <1>3
    <2> QED
      BY SMT, <2>1, FourDigits
  <1>6. ASSUME c = 0 PROVE v % 64 = 0 /\ v \div 64 = 1024 * a + 4 * b
    <2>1. v = 64 * (1024 * a + 4 * b) + 0 /\ 1024 * a + 4 * b \in Int /\ 0 \in 0 .. 64 - 1 /\ 64 \in Nat \ {0}
      BY SMT, <1>2, <1>6
    <2> QED
      BY SMT, <2>1, Quotient
  <1>7. ASSUME c = 0, b = 0 PROVE (v \div 64) % 64 = 0
    <2>1. v \div 64 = 64 * (16 * a) + 0 /\ 16 * a \in Int /\ 0 \in 0 .. 64 - 1 /\ 64 \in Nat \ {0}
      BY SMT, <1>6, <1>7
    <2> QED
      BY SMT, <2>1, Quotient
  <1>9. \A i \in 1 .. 4 : Part(v, i, 4, 6) \in 0 .. 63
    <2>1. \A i \in 1 .. 4 : i = 1 \/ i = 2 \/ i = 3 \/ i = 4
      BY SMT
    <2>2. Part(v, 1, 4, 6) \in 0 .. 63 /\ Part(v, 2, 4, 6) \in 0 .. 63
          /\ Part(v, 3, 4, 6) \in 0 .. 63 /\ Part(v, 4, 4, 6) \in 0 .. 63
      BY SMT, <1>1, <1>4, <1>5
    <2> QED
      BY SMT, <2>1, <2>2
  <1> QED
    <2>1. v = DigitsNumber(Part(v, 1, 4, 6), Part(v, 2, 4, 6), Part(v, 3, 4, 6), Part(v, 4, 4, 6))
      BY SMT, <1>1, <1>4, <1>5 DEF DigitsNumber
    <2>2. Part(v, 1, 3, 8) = a /\ Part(v, 2, 3, 8) = b /\ Part(v, 3, 3, 8) = c
      BY SMT, <1>1, <1>3, <1>4
    <2>3. c = 0 => Part(v, 4, 4, 6) = 0
      BY SMT, <1>1, <1>4, <1>6
    <2>4. b = 0 /\ c = 0 => Part(v, 3, 4, 6) = 0
      BY SMT, <1>1, <1>7
    <2>5. IsNumberOf(v, a, b, c)
      BY SMT, <1>0, <1>9, <2>1, <2>2, <2>3, <2>4 DEF IsNumberOf
    <2> QED
      BY SMT, <2>5

\* A group comes back from its four characters, which hold no quote.
LEMMA GroupRoundTrip ==
    ASSUME EightBits, NEW m \in 1 .. 3, NEW group \in Seq(Byte), Len(group) = m
    PROVE  /\ EncodedGroup(group) \in [1 .. 4 -> Byte \ {Quote}]
           /\ \A last \in BOOLEAN : m = 3 \/ last => IsGroup(EncodedGroup(group), last)
           /\ DecodedGroup(EncodedGroup(group)) = group
  <1>digits. \A x \in 0 .. 63 : base64_value(Alphabet[x]) = x
    BY Zenon, ValuesOfDigits
  <1>0. PICK a \in 0 .. 255, b \in 0 .. 255, c \in 0 .. 255 : IsFilled(group, m, a, b, c)
    BY ZenonT(60), GroupFilled
  <1>1. /\ group[1] = a
        /\ m > 1 => group[2] = b
        /\ m > 2 => group[3] = c
        /\ m < 2 => b = 0
        /\ m < 3 => c = 0
        /\ EncodedGroup(group) =
              [i \in 1 .. 4 |-> IF i <= m + 1
                                THEN Alphabet[Part(GroupNumber(a, b, c), i, 4, 6)] ELSE Pad]
    BY <1>0 DEF IsFilled
  <1>2. PICK v \in Nat : IsNumberOf(v, a, b, c)
    BY Zenon, GroupDigits
  <1> DEFINE D(i) == Part(v, i, 4, 6)
             e == EncodedGroup(group)
  <1>3. /\ \A i \in 1 .. 4 : D(i) \in 0 .. 63
        /\ v = DigitsNumber(D(1), D(2), D(3), D(4))
        /\ m < 3 => D(4) = 0
        /\ m < 2 => D(3) = 0
        /\ Part(v, 1, 3, 8) = a /\ Part(v, 2, 3, 8) = b /\ Part(v, 3, 3, 8) = c
    <2>1. m < 2 => m < 3
      OBVIOUS
    <2> QED
      BY <1>1, <1>2, <2>1 DEF IsNumberOf
  <1>4. e = [i \in 1 .. 4 |-> IF i <= m + 1 THEN Alphabet[D(i)] ELSE Pad]
    BY <1>1, <1>2 DEF IsNumberOf
  <1> HIDE DEF D, e
  <1>5. ASSUME NEW i \in 1 .. 4
        PROVE  /\ e[i] \in Byte \ {Quote}
               /\ i <= m + 1 => e[i] # Pad /\ base64_value(e[i]) = D(i) /\ base64_value(e[i]) # -1
               /\ i > m + 1 => e[i] = Pad
    <2>1. CASE i <= m + 1
      <3>1. e[i] = Alphabet[D(i)]
        BY <1>4, <2>1
      <3>2. PICK x \in 0 .. 63 : x = D(i)
        BY <1>3
      <3>3. base64_value(e[i]) = D(i)
        <4>1. base64_value(Alphabet[x]) = x
          BY ZenonT(60), <1>digits
        <4> QED
          BY <3>1, <3>2, <4>1
      <3>4. e[i] \in Byte /\ e[i] # Quote /\ e[i] # Pad
        <4>1. Alphabet[x] \in Byte /\ Alphabet[x] # Quote /\ Alphabet[x] # Pad
          BY Zenon, EightBitBytes
        <4> QED
          BY <3>1, <3>2, <4>1
      <3>5. D(i) # -1
        <4>1. x # -1
          OBVIOUS
        <4> QED
          BY ONLY <3>2, <4>1
      <3> QED
        BY <2>1, <3>3, <3>4, <3>5
    <2>2. CASE i > m + 1
      <3>1. e[i] = Pad
        BY <1>4, <2>2
      <3>2. Pad \in Byte /\ Pad # Quote
        BY Zenon, EightBitBytes
      <3> QED
        BY <2>2, <3>1, <3>2
    <2> QED
      BY <2>1, <2>2
  <1>6. e \in [1 .. 4 -> Byte \ {Quote}]
    <2>1. e = [i \in 1 .. 4 |-> e[i]]
      BY <1>4
    <2> QED
      BY <1>5, <2>1
  <1>7. ASSUME NEW last \in BOOLEAN, m = 3 \/ last
        PROVE  IsGroup(e, last)
    <2>1. ASSUME NEW i \in 1 .. 4
          PROVE  base64_value(e[i]) # -1 \/ (last /\ i > 2 /\ e[i] = Pad)
      <3>1. CASE i <= m + 1
        BY <1>5, <3>1
      <3>2. CASE i > m + 1
        <4>1. i > 2 /\ m # 3
          BY <3>2
        <4> QED
          BY <1>5, <1>7, <3>2, <4>1
      <3> QED
        BY <3>1, <3>2
    <2>2. e[3] = Pad => e[4] = Pad
      <3>1. 3 \in 1 .. 4 /\ 4 \in 1 .. 4
        OBVIOUS
      <3>2. ~ (3 <= m + 1) => 4 > m + 1
        OBVIOUS
      <3> QED
        BY <1>5, <3>1, <3>2
    <2> QED
      BY <2>1, <2>2 DEF IsGroup
  <1>8. DecodedNumber(e) = v
    <2> DEFINE digits == [i \in 1 .. 4 |-> IF e[i] = Pad THEN 0 ELSE base64_value(e[i])]
    <2>1. \A i \in 1 .. 4 : digits[i] = D(i)
      <3> SUFFICES ASSUME NEW i \in 1 .. 4 PROVE digits[i] = D(i)
        OBVIOUS
      <3>1. CASE i <= m + 1
        BY <1>5, <3>1
      <3>2. CASE i > m + 1
        <4>1. (i = 4 /\ m < 3) \/ (i = 3 /\ m < 2)
          BY <3>2
        <4>2. D(i) = 0
          BY <1>3, <4>1
        <4> QED
          BY <1>5, <3>2, <4>2
      <3> QED
        BY <3>1, <3>2
    <2>2. DecodedNumber(e) = digits[1] * 2 ^ (3 * DigitBits) + digits[2] * 2 ^ (2 * DigitBits)
                                + digits[3] * 2 ^ DigitBits + digits[4]
      BY DEF DecodedNumber
    <2>3. digits[1] = D(1) /\ digits[2] = D(2) /\ digits[3] = D(3) /\ digits[4] = D(4)
      <3> HIDE DEF digits
      <3> QED
        BY <2>1
    <2> HIDE DEF digits
    <2>4. DigitBits = 6
      BY Zenon, EightBitBytes
    <2>5. 2 ^ (3 * DigitBits) = 262144 /\ 2 ^ (2 * DigitBits) = 4096 /\ 2 ^ DigitBits = 64
      BY SMT, <2>4
    <2> QED
      BY SMT, <1>3, <2>2, <2>3, <2>5 DEF DigitsNumber
  <1>9. Cardinality({j \in 2 .. 4 : e[j] # Pad}) = m
    <2>1. {j \in 2 .. 4 : e[j] # Pad} = 2 .. m + 1
      <3>1. \A j \in 2 .. 4 : j \in 1 .. 4 /\ (e[j] # Pad <=> j <= m + 1)
        BY <1>5
      <3> QED
        BY <3>1
    <2>2. Cardinality(2 .. m + 1) = m
      <3>1. 2 \in Int /\ m + 1 \in Int /\ ~ (2 > m + 1) /\ (m + 1) - 2 + 1 = m
        OBVIOUS
      <3>2. Cardinality(2 .. m + 1) = IF 2 > m + 1 THEN 0 ELSE (m + 1) - 2 + 1
        BY <3>1, FS_Interval
      <3> QED
        BY <3>1, <3>2
    <2> QED
      BY <2>1, <2>2
  <1>10. DecodedGroup(e) = group
    <2> DEFINE d == DecodedGroup(e)
    <2>1. ByteBits = 8
      BY DEF EightBits
    <2>2. d = [i \in 1 .. m |-> Part(v, i, 3, 8)]
      BY <1>8, <1>9, <2>1 DEF DecodedGroup
    <2>3. group \in [1 .. m -> Byte]
      OBVIOUS
    <2>4. \A i \in 1 .. m : Part(v, i, 3, 8) = group[i]
      <3>1. \A i \in 1 .. m : i = 1 \/ (i = 2 /\ m > 1) \/ (i = 3 /\ m > 2)
        OBVIOUS
      <3> QED
        BY <1>1, <1>3, <3>1
    <2> HIDE DEF d
    <2> QED
      BY <2>2, <2>3, <2>4 DEF d
  <1> QED
    BY <1>6, <1>7, <1>10 DEF e

\* A part of a sequence, by its places.
IsPart(t, s, first, last, S) ==
    /\ t \in Seq(S)
    /\ Len(t) = last - first + 1
    /\ \A i \in 1 .. last - first + 1 : t[i] = s[first + i - 1]

\* SubSeq takes such a part.
LEMMA PartOf ==
    ASSUME NEW S, NEW s \in Seq(S), NEW first \in Nat \ {0}, NEW last \in Nat,
           first <= last + 1, last <= Len(s)
    PROVE  IsPart(SubSeq(s, first, last), s, first, last, S)
  <1>1. \A i \in first .. last : s[i] \in S
    <2>1. \A i \in first .. last : i \in 1 .. Len(s)
      OBVIOUS
    <2> QED
      BY <2>1, ElementOfSeq
  <1>2. /\ SubSeq(s, first, last) \in Seq(S)
        /\ Len(SubSeq(s, first, last)) = IF first <= last THEN last - first + 1 ELSE 0
        /\ \A i \in 1 .. last - first + 1 : SubSeq(s, first, last)[i] = s[first + i - 1]
    <2>1. first \in Int /\ last \in Int
      OBVIOUS
    <2> QED
      BY <1>1, <2>1, SubSeqProperties
  <1>3. (IF first <= last THEN last - first + 1 ELSE 0) = last - first + 1
    OBVIOUS
  <1> QED
    BY <1>2, <1>3 DEF IsPart

\* Where the groups of three begin and end in so many bytes.
IsGrouping(n, size) == 3 * n <= size + 2 /\ size <= 3 * n

LastOf(g, size) == IF 3 * g < size THEN 3 * g ELSE size

\* The groups of three that base64_encode makes hold all bytes, and the last is not empty.
LEMMA Grouping ==
    ASSUME NEW size \in Nat
    PROVE  (size + 2) \div 3 \in Nat /\ IsGrouping((size + 2) \div 3, size)
  BY SMT DEF IsGrouping

\* The places of a group are places of the data; all groups but the last have three.
LEMMA GroupPlaces ==
    ASSUME NEW size \in Nat, NEW n \in Nat, IsGrouping(n, size), NEW g \in 1 .. n
    PROVE  /\ LastOf(g, size) \in Nat
           /\ LastOf(g, size) - (3 * g - 2) + 1 \in 1 .. 3
           /\ LastOf(g, size) <= size
           /\ g # n => LastOf(g, size) = 3 * g
           /\ g = n => LastOf(g, size) = size
           /\ 3 * g - 2 \in Nat \ {0}
           /\ 3 * g - 2 <= LastOf(g, size) + 1
  BY SMT DEF IsGrouping, LastOf

\* The group a place is in.
LEMMA GroupOfPlace ==
    ASSUME NEW size \in Nat, NEW n \in Nat, IsGrouping(n, size), NEW i \in 1 .. size
    PROVE  /\ 1 + ((i - 1) \div 3) \in 1 .. n
           /\ 1 + ((i - 1) % 3)
                \in 1 .. LastOf(1 + ((i - 1) \div 3), size) - (3 * (1 + ((i - 1) \div 3)) - 2) + 1
           /\ (3 * (1 + ((i - 1) \div 3)) - 2) + (1 + ((i - 1) % 3)) - 1 = i
  BY SMT DEF IsGrouping, LastOf

\* The characters of a group in the whole text.
LEMMA CharacterOfGroup ==
    ASSUME NEW n \in Nat, NEW g \in 1 .. n, NEW i \in 1 .. 4
    PROVE  /\ (4 * g - 3) + i - 1 \in 1 .. 4 * n
           /\ 1 + (((4 * g - 3) + i - 1 - 1) \div 4) = g
           /\ 1 + (((4 * g - 3) + i - 1 - 1) % 4) = i
  BY SMT

\* The group a character of the text is in, and its place there.
LEMMA GroupOfCharacter ==
    ASSUME NEW n \in Nat, NEW i \in 1 .. 4 * n
    PROVE  1 + ((i - 1) \div 4) \in 1 .. n /\ 1 + ((i - 1) % 4) \in 1 .. 4
  BY SMT

\* base64_decode is the inverse of base64_encode for data of any length, padded or not, and
\* the text between them holds no quote (encryption.cpp:352-412).
THEOREM Base64RoundTrip ==
    ASSUME EightBits, NEW data \in Seq(Byte)
    PROVE  /\ base64_encode(data) \in Seq(Byte \ {Quote})
           /\ base64_decode(base64_encode(data)) = Got(data)
  <1> DEFINE Size == Len(data)
             N == (Size + 2) \div 3
             Group(g) == SubSeq(data, 3 * g - 2, LastOf(g, Size))
             groups == [g \in 1 .. N |-> EncodedGroup(Group(g))]
             text == [i \in 1 .. 4 * N |-> groups[1 + ((i - 1) \div 4)][1 + ((i - 1) % 4)]]
  <1>1. PICK size \in Nat, n \in Nat : size = Size /\ n = N /\ IsGrouping(n, size)
    <2>1. Size \in Nat
      OBVIOUS
    <2> HIDE DEF Size
    <2> QED
      BY <2>1, Grouping
  <1>2. ASSUME NEW g \in 1 .. n
        PROVE  /\ IsPart(Group(g), data, 3 * g - 2, LastOf(g, size), Byte)
               /\ Len(Group(g)) \in 1 .. 3
               /\ g # n => Len(Group(g)) = 3
               /\ g = n => Len(Group(g)) = size - 3 * n + 3
    <2>1. PICK last \in Nat : last = LastOf(g, size) /\ last <= size /\ last - (3 * g - 2) + 1 \in 1 .. 3
                              /\ (g # n => last = 3 * g) /\ (g = n => last = size)
                              /\ 3 * g - 2 \in Nat \ {0} /\ 3 * g - 2 <= last + 1
      BY SMTT(30), <1>1, GroupPlaces
    <2>2. PICK first \in Nat \ {0} : first = 3 * g - 2
      BY <2>1
    <2>3. IsPart(SubSeq(data, first, last), data, first, last, Byte)
      <3>1. first <= last + 1 /\ last <= Len(data)
        BY <1>1, <2>1, <2>2
      <3> QED
        BY <3>1, PartOf
    <2>4. Group(g) = SubSeq(data, first, last)
      BY <1>1, <2>1, <2>2
    <2>5. Len(Group(g)) = last - first + 1
      BY <2>3, <2>4 DEF IsPart
    <2> HIDE DEF Group
    <2> QED
      BY <2>1, <2>2, <2>3, <2>4, <2>5
  <1>3. ASSUME NEW g \in 1 .. n
        PROVE  /\ groups[g] = EncodedGroup(Group(g))
               /\ groups[g] \in [1 .. 4 -> Byte \ {Quote}]
               /\ IsGroup(groups[g], g = n)
               /\ DecodedGroup(groups[g]) = Group(g)
    <2>1. PICK m \in 1 .. 3 : m = Len(Group(g)) /\ (g # n => m = 3)
      BY <1>2
    <2>2. Group(g) \in Seq(Byte)
      BY <1>2 DEF IsPart
    <2>3. groups[g] = EncodedGroup(Group(g))
      BY <1>1
    <2> HIDE DEF Group, groups
    <2>4. /\ EncodedGroup(Group(g)) \in [1 .. 4 -> Byte \ {Quote}]
          /\ \A last \in BOOLEAN : m = 3 \/ last => IsGroup(EncodedGroup(Group(g)), last)
          /\ DecodedGroup(EncodedGroup(Group(g))) = Group(g)
      BY <2>1, <2>2, GroupRoundTrip
    <2>5. (g = n) \in BOOLEAN /\ (m = 3 \/ g = n)
      BY <2>1
    <2> QED
      BY <2>3, <2>4, <2>5
  <1>4. base64_encode(data) = text
    <2>1. \A g \in 1 .. N : LastOf(g, Size) = IF 3 * g < Len(data) THEN 3 * g ELSE Len(data)
      BY DEF LastOf
    <2>2. groups = [g \in 1 .. (Len(data) + 2) \div 3 |->
                      EncodedGroup(SubSeq(data, 3 * g - 2, IF 3 * g < Len(data) THEN 3 * g ELSE Len(data)))]
      BY DEF LastOf
    <2>3. Len(groups) = N
      BY <1>1
    <2> HIDE DEF groups, N
    <2> QED
      BY <2>2, <2>3 DEF base64_encode
  <1> HIDE DEF groups, Group
  <1>5. /\ text \in Seq(Byte \ {Quote}) /\ Len(text) = 4 * n
        /\ \A i \in 1 .. 4 * n : text[i] = groups[1 + ((i - 1) \div 4)][1 + ((i - 1) % 4)]
    <2>1. text = [i \in 1 .. 4 * n |-> text[i]]
          /\ \A i \in 1 .. 4 * n : text[i] = groups[1 + ((i - 1) \div 4)][1 + ((i - 1) % 4)]
      BY <1>1
    <2> HIDE DEF text
    <2>2. \A i \in 1 .. 4 * n : text[i] \in Byte \ {Quote}
      <3> SUFFICES ASSUME NEW i \in 1 .. 4 * n PROVE text[i] \in Byte \ {Quote}
        OBVIOUS
      <3>1. PICK g \in 1 .. n, j \in 1 .. 4 : g = 1 + ((i - 1) \div 4) /\ j = 1 + ((i - 1) % 4)
        BY GroupOfCharacter
      <3>2. text[i] = groups[g][j]
        BY <2>1, <3>1
      <3> QED
        BY <1>3, <3>2
    <2>3. 4 * n \in Nat
      OBVIOUS
    <2> QED
      BY <2>1, <2>2, <2>3, SequenceOf
  <1> HIDE DEF text
  <1>6. ASSUME NEW g \in 1 .. n
        PROVE  SubSeq(text, 4 * g - 3, 4 * g) = groups[g]
    <2>1. PICK first \in Nat \ {0}, last \in Nat :
                first = 4 * g - 3 /\ last = 4 * g /\ first <= last + 1 /\ last <= 4 * n
                /\ last - first + 1 = 4
      OBVIOUS
    <2>2. IsPart(SubSeq(text, first, last), text, first, last, Byte \ {Quote})
      BY <1>5, <2>1, PartOf
    <2>3. \A i \in 1 .. 4 : text[first + i - 1] = groups[g][i]
      <3> SUFFICES ASSUME NEW i \in 1 .. 4 PROVE text[first + i - 1] = groups[g][i]
        OBVIOUS
      <3>1. PICK k \in 1 .. 4 * n : k = (4 * g - 3) + i - 1
        BY CharacterOfGroup
      <3>2. 1 + ((k - 1) \div 4) = g /\ 1 + ((k - 1) % 4) = i
        BY <3>1, CharacterOfGroup
      <3> QED
        BY <1>5, <2>1, <3>1, <3>2
    <2> DEFINE t == SubSeq(text, first, last)
    <2> HIDE DEF t
    <2>4. t \in [1 .. 4 -> Byte \ {Quote}] /\ \A i \in 1 .. 4 : t[i] = groups[g][i]
      <3>1. t \in Seq(Byte \ {Quote}) /\ Len(t) = 4 /\ \A i \in 1 .. 4 : t[i] = text[first + i - 1]
        BY <2>1, <2>2 DEF IsPart, t
      <3>2. t \in [1 .. Len(t) -> Byte \ {Quote}]
        BY <3>1, LenProperties
      <3> QED
        BY <2>3, <3>1, <3>2
    <2>5. t = groups[g]
      BY <1>3, <2>4
    <2> QED
      BY <2>1, <2>5 DEF t
  <1> DEFINE pieces == [g \in 1 .. n |-> SubSeq(text, 4 * g - 3, 4 * g)]
             decoded == [g \in 1 .. n |-> DecodedGroup(pieces[g])]
             size2 == IF text = <<>> THEN 0 ELSE 3 * (n - 1) + Len(decoded[n])
             result == [i \in 1 .. size2 |-> decoded[1 + ((i - 1) \div 3)][1 + ((i - 1) % 3)]]
  <1>7. \A g \in 1 .. n : pieces[g] = groups[g] /\ decoded[g] = Group(g)
    BY <1>3, <1>6
  <1>8. base64_decode(text) = Got(result)
    <2>1. Len(text) \div 4 = n /\ Len(text) % 4 = 0
      <3>1. (4 * n) \div 4 = n /\ (4 * n) % 4 = 0
        OBVIOUS
      <3> QED
        BY <1>5, <3>1
    <2>2. DOMAIN pieces = 1 .. n /\ Len(pieces) = n
      OBVIOUS
    <2>3. \A g \in DOMAIN pieces : IsGroup(pieces[g], g = Len(pieces))
      BY <1>3, <1>7, <2>2
    <2> DEFINE ps == [g \in 1 .. Len(text) \div 4 |-> SubSeq(text, 4 * g - 3, 4 * g)]
               ds == [g \in DOMAIN ps |-> DecodedGroup(ps[g])]
               s == IF text = <<>> THEN 0 ELSE 3 * (Len(ps) - 1) + Len(ds[Len(ps)])
    <2>4. ps = pieces
      BY <2>1
    <2>5. ds = decoded
      <3> HIDE DEF ps, pieces
      <3> QED
        BY <2>2, <2>4
    <2>6. s = size2
      <3> HIDE DEF ps, pieces, ds, decoded
      <3> QED
        BY <2>2, <2>4, <2>5
    <2>7. base64_decode(text) =
            IF Len(text) % 4 = 0 /\ \A g \in DOMAIN ps : IsGroup(ps[g], g = Len(ps))
            THEN Got([i \in 1 .. s |-> ds[1 + ((i - 1) \div 3)][1 + ((i - 1) % 3)]])
            ELSE Failed
      BY DEF base64_decode
    <2> HIDE DEF ps, pieces, ds, decoded, s, size2
    <2> QED
      BY <2>1, <2>3, <2>4, <2>5, <2>6, <2>7
  <1> HIDE DEF pieces, decoded
  <1>9. size2 = size
    <2>1. CASE n = 0
      <3>1. size = 0
        BY <1>1, <2>1 DEF IsGrouping
      <3>2. text = <<>>
        BY <1>5, <2>1
      <3> QED
        BY <3>1, <3>2
    <2>2. CASE n # 0
      <3>1. n \in 1 .. n
        BY <2>2
      <3>2. Len(decoded[n]) = size - 3 * n + 3
        BY <1>2, <1>7, <3>1
      <3>3. text # <<>>
        <4>1. 4 * n # 0
          BY <2>2
        <4> QED
          BY <1>5, <4>1
      <3>4. 3 * (n - 1) + (size - 3 * n + 3) = size
        OBVIOUS
      <3> QED
        BY <3>2, <3>3, <3>4
    <2> QED
      BY <2>1, <2>2
  <1>10. result = data
    <2>1. \A i \in 1 .. size : decoded[1 + ((i - 1) \div 3)][1 + ((i - 1) % 3)] = data[i]
      <3> SUFFICES ASSUME NEW i \in 1 .. size
                   PROVE  decoded[1 + ((i - 1) \div 3)][1 + ((i - 1) % 3)] = data[i]
        OBVIOUS
      <3>1. PICK g \in 1 .. n : g = 1 + ((i - 1) \div 3)
        BY <1>1, GroupOfPlace
      <3>2. PICK j \in Nat : j = 1 + ((i - 1) % 3)
        OBVIOUS
      <3>3. j \in 1 .. LastOf(g, size) - (3 * g - 2) + 1 /\ (3 * g - 2) + j - 1 = i
        BY <1>1, <3>1, <3>2, GroupOfPlace
      <3>4. Group(g)[j] = data[(3 * g - 2) + j - 1]
        BY <1>2, <3>3 DEF IsPart
      <3> QED
        BY <1>7, <3>1, <3>2, <3>3, <3>4
    <2>2. data \in [1 .. size -> Byte]
      BY <1>1
    <2> HIDE DEF size2
    <2>3. result = [i \in 1 .. size |-> decoded[1 + ((i - 1) \div 3)][1 + ((i - 1) % 3)]]
      BY <1>9
    <2> HIDE DEF result
    <2> QED
      BY <2>1, <2>2, <2>3
  <1> HIDE DEF result
  <1> QED
    BY <1>4, <1>5, <1>8, <1>10

------------------------------------------------------------------------------
\* The operator ^ on bytes.

\* A recursive sum of eight terms: the one recursive function it is the last value of exists.
LEMMA SumOfEight ==
    ASSUME NEW t \in [1 .. 8 -> Nat]
    PROVE  LET sum == CHOOSE g : g = [n \in 0 .. 8 |-> IF n = 0 THEN 0 ELSE g[n - 1] + t[n]]
           IN  sum[8] = t[1] + t[2] + t[3] + t[4] + t[5] + t[6] + t[7] + t[8]
  <1> DEFINE E(g) == [n \in 0 .. 8 |-> IF n = 0 THEN 0 ELSE g[n - 1] + t[n]]
             step == [n \in 1 .. 8 |-> [x \in Nat |-> x + t[n]]]
             sum == CHOOSE g : g = E(g)
  <1>1. PICK f : IsFold(f, 8, Nat, 0, step)
    <2>1. step \in [1 .. 8 -> [Nat -> Nat]] /\ 8 \in Nat /\ 0 \in Nat
      OBVIOUS
    <2> HIDE DEF step
    <2> QED
      BY <2>1, FoldExists
  <1>2. f = E(f)
    <2>1. \A n \in 1 .. 8 : n - 1 \in 0 .. 8 /\ step[n][f[n - 1]] = f[n - 1] + t[n]
      <3>1. \A n \in 1 .. 8 : n - 1 \in 0 .. 8
        OBVIOUS
      <3>2. \A n \in 1 .. 8 : f[n - 1] \in Nat
        BY <1>1, <3>1 DEF IsFold
      <3> QED
        BY <3>1, <3>2
    <2> HIDE DEF step
    <2>2. \A n \in 0 .. 8 : f[n] = IF n = 0 THEN 0 ELSE f[n - 1] + t[n]
      <3>1. \A n \in 0 .. 8 : n = 0 \/ n \in 1 .. 8
        OBVIOUS
      <3> QED
        BY <1>1, <2>1, <3>1 DEF IsFold
    <2>3. f = [n \in 0 .. 8 |-> f[n]]
      BY <1>1 DEF IsFold
    <2> QED
      BY <2>2, <2>3
  <1>3. sum = E(sum)
    <2> HIDE DEF E
    <2> QED
      BY <1>2
  <1> HIDE DEF sum
  <1>4. \A n \in 0 .. 8 : sum[n] = IF n = 0 THEN 0 ELSE sum[n - 1] + t[n]
    BY <1>3
  <1>5. /\ sum[0] = 0 /\ sum[1] = sum[0] + t[1] /\ sum[2] = sum[1] + t[2] /\ sum[3] = sum[2] + t[3]
        /\ sum[4] = sum[3] + t[4] /\ sum[5] = sum[4] + t[5] /\ sum[6] = sum[5] + t[6]
        /\ sum[7] = sum[6] + t[7] /\ sum[8] = sum[7] + t[8]
    BY <1>4
  <1>6. /\ t[1] \in Nat /\ t[2] \in Nat /\ t[3] \in Nat /\ t[4] \in Nat
        /\ t[5] \in Nat /\ t[6] \in Nat /\ t[7] \in Nat /\ t[8] \in Nat
    OBVIOUS
  <1>7. sum[8] = t[1] + t[2] + t[3] + t[4] + t[5] + t[6] + t[7] + t[8]
    BY <1>5, <1>6
  <1> QED
    BY <1>7 DEF sum

\* A byte and its bits.
Bit(x, place) == (x \div place) % 2

Places == {1, 2, 4, 8, 16, 32, 64, 128}

FromBits(c1, c2, c3, c4, c5, c6, c7, c8) ==
    c1 + 2 * c2 + 4 * c3 + 8 * c4 + 16 * c5 + 32 * c6 + 64 * c7 + 128 * c8

\* A bit is 0 or 1.
LEMMA BitRange ==
    ASSUME NEW a \in Nat, NEW place \in Places
    PROVE  Bit(a, place) \in 0 .. 1
  <1>1. place \in Nat \ {0}
    BY DEF Places
  <1>2. a \div place \in Int
    BY <1>1
  <1> QED
    BY <1>2 DEF Bit

\* A byte is the sum of its bits.
LEMMA BitsOfByte ==
    ASSUME NEW a \in 0 .. 255
    PROVE  a = FromBits(Bit(a, 1), Bit(a, 2), Bit(a, 4), Bit(a, 8),
                        Bit(a, 16), Bit(a, 32), Bit(a, 64), Bit(a, 128))
  BY SMT DEF FromBits, Bit

HasBits(c, c1, c2, c3, c4, c5, c6, c7, c8) ==
    /\ c = FromBits(c1, c2, c3, c4, c5, c6, c7, c8)
    /\ Bit(c, 1) = c1 /\ Bit(c, 2) = c2 /\ Bit(c, 4) = c3 /\ Bit(c, 8) = c4
    /\ Bit(c, 16) = c5 /\ Bit(c, 32) = c6 /\ Bit(c, 64) = c7 /\ Bit(c, 128) = c8

\* Bits make a byte, and are the bits of it.
LEMMA BitsOfSum ==
    ASSUME NEW c1 \in 0 .. 1, NEW c2 \in 0 .. 1, NEW c3 \in 0 .. 1, NEW c4 \in 0 .. 1,
           NEW c5 \in 0 .. 1, NEW c6 \in 0 .. 1, NEW c7 \in 0 .. 1, NEW c8 \in 0 .. 1
    PROVE  \E c \in 0 .. 255 : HasBits(c, c1, c2, c3, c4, c5, c6, c7, c8)
  <1>1. PICK c \in 0 .. 255 : c = FromBits(c1, c2, c3, c4, c5, c6, c7, c8)
    BY SMT DEF FromBits
  <1>2. c = c1 + 2 * c2 + 4 * c3 + 8 * c4 + 16 * c5 + 32 * c6 + 64 * c7 + 128 * c8
    BY SMT, <1>1 DEF FromBits
  <1>3. Bit(c, 1) = c1 /\ Bit(c, 2) = c2
    BY SMT, <1>2 DEF Bit
  <1>4. Bit(c, 4) = c3 /\ Bit(c, 8) = c4
    BY SMT, <1>2 DEF Bit
  <1>5. Bit(c, 16) = c5 /\ Bit(c, 32) = c6
    BY SMT, <1>2 DEF Bit
  <1>6. Bit(c, 64) = c7 /\ Bit(c, 128) = c8
    BY SMT, <1>2 DEF Bit
  <1>7. HasBits(c, c1, c2, c3, c4, c5, c6, c7, c8)
    BY <1>1, <1>3, <1>4, <1>5, <1>6 DEF HasBits
  <1> QED
    BY <1>7

\* The lowest bit of a sum.
LEMMA ParityOfSum ==
    ASSUME NEW x \in Nat, NEW y \in Nat
    PROVE  (x + y) % 2 = ((x % 2) + (y % 2)) % 2
  OBVIOUS

\* Bits are added without carry.
IsXor(c, a, b) == \A place \in Places : Bit(c, place) = (Bit(a, place) + Bit(b, place)) % 2

\* Xor, which is computed bit by bit, has the bits added without carry.
LEMMA XorOfBits ==
    ASSUME EightBits, NEW a \in 0 .. 255, NEW b \in 0 .. 255
    PROVE  \E c \in 0 .. 255 : Xor[a][b] = c /\ IsXor(c, a, b)
  <1> DEFINE U(place) == (Bit(a, place) + Bit(b, place)) % 2
             T(n) == 2 ^ (n - 1) * ((a \div 2 ^ (n - 1) + b \div 2 ^ (n - 1)) % 2)
             t == [n \in 1 .. 8 |-> T(n)]
  <1>1. \A place \in Places : U(place) \in 0 .. 1 /\ (a \div place + b \div place) % 2 = U(place)
    <2> TAKE place \in Places
    <2>1. place \in Nat \ {0}
      BY DEF Places
    <2>2. a \div place \in Nat /\ b \div place \in Nat
      <3>1. a \in Nat /\ b \in Nat
        OBVIOUS
      <3> QED
        BY <2>1, <3>1, DivisionOfNat
    <2>3. (a \div place + b \div place) % 2 = U(place)
      BY <2>2, ParityOfSum DEF Bit
    <2>4. \A x, y \in Nat : (x + y) % 2 \in 0 .. 1
      OBVIOUS
    <2> HIDE DEF U
    <2> QED
      BY <2>2, <2>3, <2>4
  <1> HIDE DEF U
  <1>2. PICK c1 \in 0 .. 1, c2 \in 0 .. 1, c3 \in 0 .. 1, c4 \in 0 .. 1,
             c5 \in 0 .. 1, c6 \in 0 .. 1, c7 \in 0 .. 1, c8 \in 0 .. 1 :
                /\ c1 = U(1) /\ c2 = U(2) /\ c3 = U(4) /\ c4 = U(8)
                /\ c5 = U(16) /\ c6 = U(32) /\ c7 = U(64) /\ c8 = U(128)
    BY <1>1 DEF Places
  <1>3. PICK c \in 0 .. 255 : HasBits(c, c1, c2, c3, c4, c5, c6, c7, c8)
    BY ZenonT(60), BitsOfSum
  <1>4. IsXor(c, a, b)
    BY <1>2, <1>3 DEF HasBits, IsXor, U, Places
  <1>5. /\ T(1) = c1 /\ T(2) = 2 * c2 /\ T(3) = 4 * c3 /\ T(4) = 8 * c4
        /\ T(5) = 16 * c5 /\ T(6) = 32 * c6 /\ T(7) = 64 * c7 /\ T(8) = 128 * c8
    <2>1. /\ (a \div 1 + b \div 1) % 2 = c1 /\ (a \div 2 + b \div 2) % 2 = c2
          /\ (a \div 4 + b \div 4) % 2 = c3 /\ (a \div 8 + b \div 8) % 2 = c4
          /\ (a \div 16 + b \div 16) % 2 = c5 /\ (a \div 32 + b \div 32) % 2 = c6
          /\ (a \div 64 + b \div 64) % 2 = c7 /\ (a \div 128 + b \div 128) % 2 = c8
      BY <1>1, <1>2 DEF Places
    <2>2. T(1) = 1 * ((a \div 1 + b \div 1) % 2) /\ T(2) = 2 * ((a \div 2 + b \div 2) % 2)
      OBVIOUS
    <2>3. T(3) = 4 * ((a \div 4 + b \div 4) % 2) /\ T(4) = 8 * ((a \div 8 + b \div 8) % 2)
      OBVIOUS
    <2>4. T(5) = 16 * ((a \div 16 + b \div 16) % 2) /\ T(6) = 32 * ((a \div 32 + b \div 32) % 2)
      OBVIOUS
    <2>5. T(7) = 64 * ((a \div 64 + b \div 64) % 2) /\ T(8) = 128 * ((a \div 128 + b \div 128) % 2)
      OBVIOUS
    <2> HIDE DEF T
    <2>6. T(1) = c1 /\ T(2) = 2 * c2 /\ T(3) = 4 * c3 /\ T(4) = 8 * c4
      BY <2>1, <2>2, <2>3
    <2>7. T(5) = 16 * c5 /\ T(6) = 32 * c6 /\ T(7) = 64 * c7 /\ T(8) = 128 * c8
      BY <2>1, <2>4, <2>5
    <2> QED
      BY <2>6, <2>7
  <1>6. t \in [1 .. 8 -> Nat]
    <2>1. /\ T(1) \in Nat /\ T(2) \in Nat /\ T(3) \in Nat /\ T(4) \in Nat
          /\ T(5) \in Nat /\ T(6) \in Nat /\ T(7) \in Nat /\ T(8) \in Nat
      <3> HIDE DEF T
      <3> QED
        BY <1>5
    <2>2. \A n \in 1 .. 8 : n = 1 \/ n = 2 \/ n = 3 \/ n = 4 \/ n = 5 \/ n = 6 \/ n = 7 \/ n = 8
      OBVIOUS
    <2> HIDE DEF T
    <2>3. \A n \in 1 .. 8 : T(n) \in Nat
      BY <2>1, <2>2
    <2> QED
      BY <2>3
  <1>7. Xor[a][b] = t[1] + t[2] + t[3] + t[4] + t[5] + t[6] + t[7] + t[8]
    <2>1. a \in Byte /\ b \in Byte /\ ByteBits = 8
      BY Zenon, ByteRange DEF EightBits
    <2> DEFINE low == CHOOSE g : g = [bits \in 0 .. 8 |-> IF bits = 0 THEN 0 ELSE g[bits - 1] + T(bits)]
               sum == CHOOSE g : g = [n \in 0 .. 8 |-> IF n = 0 THEN 0 ELSE g[n - 1] + t[n]]
    <2>2. Xor[a][b] = low[8]
      BY <2>1 DEF Xor
    <2>3. low = sum
      <3>1. ASSUME NEW g
            PROVE  [bits \in 0 .. 8 |-> IF bits = 0 THEN 0 ELSE g[bits - 1] + T(bits)]
                     = [n \in 0 .. 8 |-> IF n = 0 THEN 0 ELSE g[n - 1] + t[n]]
        <4>1. \A n \in 0 .. 8 : n # 0 => t[n] = T(n)
          <5> HIDE DEF T
          <5>1. \A n \in 0 .. 8 : n # 0 => n \in 1 .. 8
            OBVIOUS
          <5> QED
            BY <5>1
        <4> HIDE DEF T, t
        <4> QED
          BY <4>1
      <3> HIDE DEF T, t
      <3> QED
        BY <3>1
    <2>4. sum[8] = t[1] + t[2] + t[3] + t[4] + t[5] + t[6] + t[7] + t[8]
      <3> HIDE DEF T, t
      <3> QED
        BY <1>6, SumOfEight
    <2> HIDE DEF low, sum
    <2> QED
      BY <2>2, <2>3, <2>4
  <1>8. /\ t[1] = c1 /\ t[2] = 2 * c2 /\ t[3] = 4 * c3 /\ t[4] = 8 * c4
        /\ t[5] = 16 * c5 /\ t[6] = 32 * c6 /\ t[7] = 64 * c7 /\ t[8] = 128 * c8
    <2>1. /\ t[1] = T(1) /\ t[2] = T(2) /\ t[3] = T(3) /\ t[4] = T(4)
          /\ t[5] = T(5) /\ t[6] = T(6) /\ t[7] = T(7) /\ t[8] = T(8)
      <3> HIDE DEF T
      <3> QED
        OBVIOUS
    <2> HIDE DEF T, t
    <2> QED
      BY <1>5, <2>1
  <1> HIDE DEF T, t
  <1>9. c = c1 + 2 * c2 + 4 * c3 + 8 * c4 + 16 * c5 + 32 * c6 + 64 * c7 + 128 * c8
    BY <1>3 DEF HasBits, FromBits
  <1>10. Xor[a][b] = c
    BY <1>7, <1>8, <1>9
  <1> QED
    BY <1>4, <1>10

\* Applied twice it gives back what was there.
LEMMA XorTwice ==
    ASSUME EightBits, NEW a \in Byte, NEW b \in Byte
    PROVE  Xor[a][b] \in Byte /\ Xor[Xor[a][b]][b] = a
  <1>1. PICK x \in 0 .. 255, y \in 0 .. 255 : x = a /\ y = b
    BY ByteRange
  <1>2. PICK c \in 0 .. 255 : Xor[x][y] = c /\ IsXor(c, x, y)
    BY Zenon, XorOfBits
  <1>3. PICK d \in 0 .. 255 : Xor[c][y] = d /\ IsXor(d, c, y)
    BY Zenon, XorOfBits
  <1>4. \A u, v \in 0 .. 1 : (((u + v) % 2) + v) % 2 = u
    OBVIOUS
  <1>5. \A place \in Places : Bit(x, place) \in 0 .. 1 /\ Bit(y, place) \in 0 .. 1
    <2>1. x \in Nat /\ y \in Nat
      OBVIOUS
    <2> QED
      BY <2>1, BitRange
  <1>6. \A place \in Places : Bit(d, place) = Bit(x, place)
    BY <1>2, <1>3, <1>4, <1>5 DEF IsXor
  <1>7. /\ Bit(d, 1) = Bit(x, 1) /\ Bit(d, 2) = Bit(x, 2) /\ Bit(d, 4) = Bit(x, 4)
        /\ Bit(d, 8) = Bit(x, 8) /\ Bit(d, 16) = Bit(x, 16) /\ Bit(d, 32) = Bit(x, 32)
        /\ Bit(d, 64) = Bit(x, 64) /\ Bit(d, 128) = Bit(x, 128)
    BY <1>6 DEF Places
  <1>8. d = x
    <2>1. x = FromBits(Bit(x, 1), Bit(x, 2), Bit(x, 4), Bit(x, 8),
                       Bit(x, 16), Bit(x, 32), Bit(x, 64), Bit(x, 128))
      BY Zenon, BitsOfByte
    <2>2. d = FromBits(Bit(d, 1), Bit(d, 2), Bit(d, 4), Bit(d, 8),
                       Bit(d, 16), Bit(d, 32), Bit(d, 64), Bit(d, 128))
      BY Zenon, BitsOfByte
    <2> QED
      BY Zenon, <1>7, <2>1, <2>2
  <1> QED
    BY Zenon, <1>1, <1>2, <1>3, <1>8, ByteRange

------------------------------------------------------------------------------
\* Authenticated encryption.

\* What the two primitives give: a block of the key stream for each key, counter and
\* nonce, and a tag for each one-time key and string.
Primitives(keys) ==
    /\ \A k \in keys, counter \in Nat, nonce \in [1 .. NONCE_SIZE -> Byte] :
          Keystream[k, counter, nonce] \in [1 .. BLOCK_SIZE -> Byte]
    /\ \A one_time_key \in [1 .. BLOCK_SIZE -> Byte], string \in Seq(Byte) :
          Mac[one_time_key, string] \in [1 .. TAG_SIZE -> Byte]

\* The two parts of a sequence that was put together.
LEMMA ConcatParts ==
    ASSUME NEW S, NEW s \in Seq(S), NEW t \in Seq(S)
    PROVE  /\ s \o t \in Seq(S)
           /\ Len(s \o t) = Len(s) + Len(t)
           /\ SubSeq(s \o t, 1, Len(s)) = s
           /\ SubSeq(s \o t, Len(s) + 1, Len(s) + Len(t)) = t
  <1>1. /\ s \o t \in Seq(S)
        /\ Len(s \o t) = Len(s) + Len(t)
        /\ \A i \in 1 .. Len(s) + Len(t) : (s \o t)[i] = IF i <= Len(s) THEN s[i] ELSE t[i - Len(s)]
    BY ConcatProperties
  <1>2. PICK m \in Nat, n \in Nat : m = Len(s) /\ n = Len(t)
    OBVIOUS
  <1> DEFINE u == s \o t
             first == SubSeq(u, 1, m)
             second == SubSeq(u, m + 1, m + n)
  <1> HIDE DEF u
  <1>3. u \in Seq(S) /\ Len(u) = m + n
    BY <1>1, <1>2 DEF u
  <1>4. first = s
    <2>1. IsPart(first, u, 1, m, S)
      <3>1. 1 \in Nat \ {0} /\ 1 <= m + 1 /\ m <= m + n
        OBVIOUS
      <3> QED
        BY <1>3, <3>1, PartOf
    <2> HIDE DEF first
    <2>2. first \in Seq(S) /\ Len(first) = m /\ \A i \in 1 .. m : first[i] = u[i]
      <3>1. m - 1 + 1 = m /\ \A i \in 1 .. m : 1 + i - 1 = i
        OBVIOUS
      <3> QED
        BY <2>1, <3>1 DEF IsPart
    <2>3. \A i \in 1 .. m : u[i] = s[i]
      <3>1. \A i \in 1 .. m : i \in 1 .. m + n /\ i <= m
        OBVIOUS
      <3> QED
        BY <1>1, <1>2, <3>1 DEF u
    <2> QED
      BY <1>2, <2>2, <2>3, SeqEqual
  <1>5. second = t
    <2>1. IsPart(second, u, m + 1, m + n, S)
      <3>1. PICK a \in Nat \ {0}, b \in Nat : a = m + 1 /\ b = m + n /\ a <= b + 1
        OBVIOUS
      <3>2. b <= Len(u)
        BY <1>3, <3>1
      <3>3. IsPart(SubSeq(u, a, b), u, a, b, S)
        BY <1>3, <3>1, <3>2, PartOf
      <3> QED
        BY <3>1, <3>3
    <2> HIDE DEF second
    <2>2. second \in Seq(S) /\ Len(second) = n /\ \A i \in 1 .. n : second[i] = u[m + i]
      <3>1. (m + n) - (m + 1) + 1 = n /\ \A i \in 1 .. n : (m + 1) + i - 1 = m + i
        OBVIOUS
      <3> QED
        BY <2>1, <3>1 DEF IsPart
    <2>3. \A i \in 1 .. n : u[m + i] = t[i]
      <3>1. \A i \in 1 .. n : m + i \in 1 .. m + n /\ ~ (m + i <= m) /\ (m + i) - m = i
        OBVIOUS
      <3>2. \A i \in 1 .. m + n : u[i] = IF i <= m THEN s[i] ELSE t[i - m]
        BY <1>1, <1>2 DEF u
      <3> QED
        BY <3>1, <3>2
    <2> QED
      BY <1>2, <2>2, <2>3, SeqEqual
  <1> QED
    BY <1>1, <1>2, <1>4, <1>5 DEF u

\* chacha20_xor with the same key, counter and nonce deciphers what it enciphered, whatever
\* the key stream (encryption.cpp:196-211).
THEOREM CipherTwice ==
    ASSUME EightBits, NEW keys, Primitives(keys), NEW k \in keys, NEW counter \in Nat,
           NEW nonce \in [1 .. NONCE_SIZE -> Byte], NEW data \in Seq(Byte)
    PROVE  /\ chacha20_xor(k, counter, nonce, data) \in Seq(Byte)
           /\ chacha20_xor(k, counter, nonce, chacha20_xor(k, counter, nonce, data)) = data
  <1> DEFINE S(i) == Keystream[k, counter + ((i - 1) \div BLOCK_SIZE), nonce][1 + ((i - 1) % BLOCK_SIZE)]
             size == Len(data)
             once == [i \in 1 .. size |-> Xor[data[i]][S(i)]]
             twice == [i \in 1 .. size |-> Xor[once[i]][S(i)]]
  <1>1. size \in Nat /\ DOMAIN data = 1 .. size /\ data = [i \in 1 .. size |-> data[i]]
        /\ \A i \in 1 .. size : data[i] \in Byte
    OBVIOUS
  <1>2. \A i \in 1 .. size : S(i) \in Byte
    <2> SUFFICES ASSUME NEW i \in 1 .. size PROVE S(i) \in Byte
      OBVIOUS
    <2>1. BLOCK_SIZE \in Nat \ {0}
      BY CiphertextAssumption
    <2>2. i - 1 \in Nat
      BY <1>1
    <2>3. PICK q \in Nat, r \in 0 .. BLOCK_SIZE - 1 : q = (i - 1) \div BLOCK_SIZE /\ r = (i - 1) % BLOCK_SIZE
      BY <2>1, <2>2, DivisionOfNat
    <2>4. counter + q \in Nat /\ 1 + r \in 1 .. BLOCK_SIZE
      BY <2>1
    <2>5. Keystream[k, counter + q, nonce] \in [1 .. BLOCK_SIZE -> Byte]
      BY <2>4 DEF Primitives
    <2> QED
      BY <2>3, <2>4, <2>5
  <1>3. chacha20_xor(k, counter, nonce, data) = once
    BY <1>1 DEF chacha20_xor
  <1> HIDE DEF S, size
  <1>4. \A i \in 1 .. size : once[i] \in Byte /\ twice[i] = data[i]
    BY <1>1, <1>2, XorTwice
  <1>5. once \in Seq(Byte) /\ Len(once) = size
    <2>1. once = [i \in 1 .. size |-> once[i]]
      OBVIOUS
    <2> HIDE DEF once
    <2> QED
      BY <1>1, <1>4, <2>1, SequenceOf
  <1>6. chacha20_xor(k, counter, nonce, once) = twice
    <2>1. DOMAIN once = 1 .. size
      OBVIOUS
    <2> HIDE DEF once
    <2> QED
      BY <2>1 DEF chacha20_xor, S
  <1>7. twice = data
    <2> HIDE DEF once
    <2>1. twice = [i \in 1 .. size |-> twice[i]]
      OBVIOUS
    <2> HIDE DEF twice
    <2> QED
      BY <1>1, <1>4, <2>1
  <1> QED
    BY <1>3, <1>5, <1>6, <1>7

\* Zeros, and the digits of a length.
LEMMA ZerosAreBytes ==
    ASSUME EightBits, NEW n \in Nat
    PROVE  Zeros(n) \in Seq(Byte) /\ Len(Zeros(n)) = n /\ \A i \in 1 .. n : Zeros(n)[i] = 0
  <1> DEFINE zeros == Zeros(n)
  <1>1. zeros = [i \in 1 .. n |-> zeros[i]] /\ \A i \in 1 .. n : zeros[i] = 0
    BY DEF Zeros
  <1>2. \A i \in 1 .. n : zeros[i] \in Byte
    <2>1. 0 \in Byte
      BY ByteRange
    <2> QED
      BY <1>1, <2>1
  <1> HIDE DEF zeros
  <1>3. zeros \in Seq(Byte) /\ Len(zeros) = n
    BY <1>1, <1>2, SequenceOf
  <1> QED
    BY <1>1, <1>3 DEF zeros

\* The eight bytes of a length.
LengthBytes(v) ==
    LET shifted[i \in 0 .. 7] == IF i = 0 THEN v ELSE shifted[i - 1] \div 2 ^ ByteBits
    IN  [i \in 1 .. 8 |-> shifted[i - 1] % 2 ^ ByteBits]

\* A number with one, two or four of its bytes shifted out, and one of so many bits.
Shifted8(n) == n \div 256
Shifted16(n) == n \div 65536
Shifted32(n) == n \div 4294967296
Fits16(n) == n < 65536
Fits32(n) == n < 4294967296

\* The length of a string is a std::size_t.
Fits64(n) == Fits32(Shifted32(n))

\* r[i] is v without its lowest i bytes.
IsShifted(r, v) ==
    /\ r \in [0 .. 7 -> Nat]
    /\ r[0] = v
    /\ \A i \in 1 .. 7 : r[i] = Shifted8(r[i - 1])

\* The lengths at the end of what the tag is made of are bytes, those of the length shifted.
LEMMA LengthIsBytes ==
    ASSUME EightBits, NEW v \in Nat
    PROVE  /\ LengthBytes(v) \in Seq(Byte) /\ Len(LengthBytes(v)) = 8
           /\ \E r : IsShifted(r, v) /\ \A i \in 1 .. 8 : LengthBytes(v)[i] = r[i - 1] % 256
  <1> DEFINE E(g) == [i \in 0 .. 7 |-> IF i = 0 THEN v ELSE Shifted8(g[i - 1])]
             r == CHOOSE g : g = E(g)
             step == [n \in 1 .. 7 |-> [x \in Nat |-> Shifted8(x)]]
             L == LengthBytes(v)
  <1>1. \A x \in Nat : Shifted8(x) \in Nat
    BY SMT DEF Shifted8
  <1>2. PICK f : IsFold(f, 7, Nat, v, step)
    <2>1. step \in [1 .. 7 -> [Nat -> Nat]]
      BY <1>1
    <2>2. 7 \in Nat
      OBVIOUS
    <2> HIDE DEF step
    <2> QED
      BY <2>1, <2>2, FoldExists
  <1>3. f = E(f)
    <2>1. f = [i \in 0 .. 7 |-> f[i]]
      BY <1>2 DEF IsFold
    <2>2. \A i \in 0 .. 7 : f[i] = IF i = 0 THEN v ELSE Shifted8(f[i - 1])
      <3>1. ASSUME NEW i \in 0 .. 7, i # 0 PROVE f[i] = Shifted8(f[i - 1])
        <4>1. i \in 1 .. 7 /\ f[i - 1] \in Nat
          BY <1>2, <3>1 DEF IsFold
        <4>2. f[i] = step[i][f[i - 1]]
          BY <1>2, <4>1 DEF IsFold
        <4> QED
          BY <4>1, <4>2
      <3> QED
        BY <1>2, <3>1 DEF IsFold
    <2> QED
      BY <2>1, <2>2
  <1>4. r = E(r)
    <2> HIDE DEF E
    <2> QED
      BY <1>3
  <1>5. L = [i \in 1 .. 8 |-> r[i - 1] % 256]
    <2>1. ByteBits = 8
      BY DEF EightBits
    <2> QED
      BY <2>1 DEF LengthBytes, Shifted8
  <1> HIDE DEF r, L, step
  <1>6. r[0] = v /\ \A i \in 1 .. 7 : r[i] = Shifted8(r[i - 1])
    <2>1. \A i \in 0 .. 7 : r[i] = IF i = 0 THEN v ELSE Shifted8(r[i - 1])
      BY <1>4
    <2>2. \A i \in 1 .. 7 : i \in 0 .. 7 /\ i # 0
      OBVIOUS
    <2> HIDE DEF E
    <2> QED
      BY <2>1, <2>2
  <1>7. /\ r[1] = Shifted8(r[0]) /\ r[2] = Shifted8(r[1]) /\ r[3] = Shifted8(r[2])
        /\ r[4] = Shifted8(r[3]) /\ r[5] = Shifted8(r[4]) /\ r[6] = Shifted8(r[5])
        /\ r[7] = Shifted8(r[6])
    BY <1>6
  <1>8. /\ r[0] \in Nat /\ r[1] \in Nat /\ r[2] \in Nat /\ r[3] \in Nat
        /\ r[4] \in Nat /\ r[5] \in Nat /\ r[6] \in Nat /\ r[7] \in Nat
    BY <1>1, <1>6, <1>7
  <1>9. r \in [0 .. 7 -> Nat]
    <2>1. \A i \in 0 .. 7 : r[i] \in Nat
      BY <1>8
    <2>2. r = [i \in 0 .. 7 |-> r[i]]
      BY <1>4
    <2> HIDE DEF E
    <2> QED
      BY <2>1, <2>2
  <1>10. L \in Seq(Byte) /\ Len(L) = 8 /\ \A i \in 1 .. 8 : L[i] = r[i - 1] % 256
    <2>1. \A i \in 1 .. 8 : L[i] = r[i - 1] % 256 /\ i - 1 \in 0 .. 7
      BY <1>5
    <2>2. L = [i \in 1 .. 8 |-> L[i]]
      BY <1>5
    <2>3. \A x \in Nat : x % 256 \in 0 .. 255
      BY SMT
    <2>4. \A i \in 1 .. 8 : L[i] \in Byte
      <3>1. \A i \in 1 .. 8 : r[i - 1] \in Nat
        BY <1>9, <2>1
      <3>2. \A i \in 1 .. 8 : L[i] \in 0 .. 255
        <4> TAKE i \in 1 .. 8
        <4>1. r[i - 1] \in Nat /\ L[i] = r[i - 1] % 256
          BY <2>1, <3>1
        <4>2. r[i - 1] % 256 \in 0 .. 255
          BY <2>3, <4>1
        <4> QED
          BY <4>1, <4>2
      <3> QED
        BY <3>2, ByteRange
    <2> QED
      BY <2>1, <2>2, <2>4, SequenceOf
  <1>11. IsShifted(r, v)
    BY <1>6, <1>9 DEF IsShifted
  <1> QED
    BY <1>10, <1>11 DEF L

\* How many zeros there are.
Filling(string) == (PAD_SIZE - (Len(string) % PAD_SIZE)) % PAD_SIZE

\* A padded string is the string and so many zeros.
LEMMA PaddedIsString ==
    ASSUME EightBits, NEW string \in Seq(Byte)
    PROVE  /\ Filling(string) \in Nat
           /\ Padded(string) = string \o Zeros(Filling(string))
           /\ Padded(string) \in Seq(Byte)
           /\ Len(Padded(string)) = Len(string) + Filling(string)
  <1>1. Filling(string) \in Nat
    <2>1. PICK n \in Nat, p \in Nat \ {0} : n = Len(string) /\ p = PAD_SIZE
      BY CiphertextAssumption
    <2>2. n % p \in 0 .. p - 1
      BY DivisionOfNat
    <2>3. (p - (n % p)) \in Nat
      BY <2>2
    <2>4. (p - (n % p)) % p \in 0 .. p - 1
      BY <2>3, DivisionOfNat
    <2> QED
      BY <2>1, <2>4 DEF Filling
  <1>2. Padded(string) = string \o Zeros(Filling(string))
    BY DEF Padded, Filling
  <1>3. Zeros(Filling(string)) \in Seq(Byte) /\ Len(Zeros(Filling(string))) = Filling(string)
    BY <1>1, ZerosAreBytes
  <1> QED
    BY <1>1, <1>2, <1>3, ConcatProperties

\* What the tag is made of, in its four parts.
LEMMA MacDataIsString ==
    ASSUME EightBits, NEW aad \in Seq(Byte), NEW ciphertext \in Seq(Byte)
    PROVE  /\ aead_mac_data(aad, ciphertext) =
                ((Padded(aad) \o Padded(ciphertext)) \o LengthBytes(Len(aad)))
                    \o LengthBytes(Len(ciphertext))
           /\ aead_mac_data(aad, ciphertext) \in Seq(Byte)
  <1> DEFINE padded == Padded(aad) \o Padded(ciphertext)
             one == padded \o LengthBytes(Len(aad))
  <1>1. aead_mac_data(aad, ciphertext) = one \o LengthBytes(Len(ciphertext))
    BY DEF aead_mac_data, append64_le, LengthBytes
  <1>2. padded \in Seq(Byte)
    BY PaddedIsString, ConcatProperties
  <1> HIDE DEF padded
  <1>3. one \in Seq(Byte)
    BY <1>2, LengthIsBytes, ConcatProperties
  <1> HIDE DEF one
  <1>4. one \o LengthBytes(Len(ciphertext)) \in Seq(Byte)
    BY <1>3, LengthIsBytes, ConcatProperties
  <1> QED
    BY <1>1, <1>4 DEF one, padded

\* aead_open finds in what aead_seal made, by length alone, the text and the tag, computes
\* the same tag once more and deciphers the text (encryption.cpp:322-350).
LEMMA SealOpens ==
    ASSUME EightBits, NEW keys, Primitives(keys), NEW k \in keys,
           NEW nonce \in [1 .. NONCE_SIZE -> Byte], NEW aad \in Seq(Byte), NEW plaintext \in Seq(Byte)
    PROVE  /\ aead_seal(k, nonce, aad, plaintext) \in Seq(Byte)
           /\ Len(aead_seal(k, nonce, aad, plaintext)) >= TAG_SIZE
           /\ aead_open(k, nonce, aad, aead_seal(k, nonce, aad, plaintext)) = Got(plaintext)
  <1> DEFINE ciphertext == chacha20_xor(k, 1, nonce, plaintext)
             one_time_key == poly1305_key_gen(k, nonce)
             tag == Mac[one_time_key, aead_mac_data(aad, ciphertext)]
             sealed == ciphertext \o tag
             size == Len(sealed) - TAG_SIZE
  <1>1. ciphertext \in Seq(Byte) /\ chacha20_xor(k, 1, nonce, ciphertext) = plaintext
    <2>1. 1 \in Nat
      OBVIOUS
    <2> QED
      BY <2>1, CipherTwice
  <1>2. aead_seal(k, nonce, aad, plaintext) = sealed
    BY DEF aead_seal
  <1> HIDE DEF ciphertext
  <1>3. tag \in Seq(Byte) /\ Len(tag) = TAG_SIZE /\ TAG_SIZE \in Nat
    <2>1. one_time_key \in [1 .. BLOCK_SIZE -> Byte]
      <3>1. 0 \in Nat
        OBVIOUS
      <3> QED
        BY <3>1 DEF poly1305_key_gen, Primitives
    <2>2. aead_mac_data(aad, ciphertext) \in Seq(Byte)
      BY <1>1, MacDataIsString
    <2> HIDE DEF one_time_key
    <2>3. tag \in [1 .. TAG_SIZE -> Byte]
      BY <2>1, <2>2 DEF Primitives
    <2>4. TAG_SIZE \in Nat
      BY CiphertextAssumption
    <2> HIDE DEF tag
    <2> QED
      BY <2>3, <2>4
  <1> HIDE DEF tag, one_time_key
  <1>4. /\ sealed \in Seq(Byte)
        /\ Len(sealed) = Len(ciphertext) + TAG_SIZE
        /\ SubSeq(sealed, 1, Len(ciphertext)) = ciphertext
        /\ SubSeq(sealed, Len(ciphertext) + 1, Len(sealed)) = tag
    <2>1. /\ sealed \in Seq(Byte)
          /\ Len(sealed) = Len(ciphertext) + Len(tag)
          /\ SubSeq(sealed, 1, Len(ciphertext)) = ciphertext
          /\ SubSeq(sealed, Len(ciphertext) + 1, Len(ciphertext) + Len(tag)) = tag
      <3>1. ciphertext \in Seq(Byte) /\ tag \in Seq(Byte)
        BY <1>1, <1>3
      <3> QED
        BY <3>1, ConcatParts
    <2> HIDE DEF sealed
    <2> QED
      BY <1>3, <2>1
  <1> HIDE DEF sealed
  <1>5. size = Len(ciphertext) /\ size \in Nat
    <2>1. Len(ciphertext) \in Nat
      BY <1>1
    <2>2. PICK m \in Nat, n \in Nat : m = Len(ciphertext) /\ n = TAG_SIZE /\ Len(sealed) = m + n
      BY <1>3, <1>4, <2>1
    <2>3. (m + n) - n = m
      OBVIOUS
    <2> QED
      BY <2>1, <2>2, <2>3
  <1> DEFINE read == SubSeq(sealed, 1, size)
             opens == /\ size >= 0
                      /\ SubSeq(sealed, size + 1, Len(sealed))
                            = Mac[poly1305_key_gen(k, nonce), aead_mac_data(aad, read)]
  <1>6. aead_open(k, nonce, aad, sealed) =
            IF opens THEN Got(chacha20_xor(k, 1, nonce, read)) ELSE Failed
    BY DEF aead_open
  <1>7. read = ciphertext
    <2> HIDE DEF size
    <2> QED
      BY <1>4, <1>5
  <1>8. opens
    <2>1. SubSeq(sealed, size + 1, Len(sealed)) = tag /\ size >= 0
      <3> HIDE DEF size
      <3> QED
        BY <1>4, <1>5
    <2> HIDE DEF size, read
    <2> QED
      BY <1>7, <2>1 DEF tag, one_time_key
  <1>9. aead_open(k, nonce, aad, sealed) = Got(plaintext)
    <2> HIDE DEF opens, read
    <2> QED
      BY <1>1, <1>6, <1>7, <1>8
  <1>10. Len(sealed) >= TAG_SIZE
    <2>1. PICK m \in Nat, n \in Nat : m = Len(ciphertext) /\ n = TAG_SIZE
      BY <1>3, <1>5
    <2>2. Len(sealed) = m + n
      BY <1>4, <2>1
    <2>3. m + n >= n
      OBVIOUS
    <2> QED
      BY <2>1, <2>2, <2>3
  <1> QED
    BY <1>2, <1>4, <1>9, <1>10

\* Strings without a quote are strings.
LEMMA StringIsSequence ==
    ASSUME NEW s \in Seq(Byte \ {Quote})
    PROVE  s \in Seq(Byte)
  <1>1. s \in [1 .. Len(s) -> Byte] /\ Len(s) \in Nat
    OBVIOUS
  <1> QED
    BY <1>1

\* What was encrypted is decrypted: a stored value, of whatever text, opens with the key it
\* was made with as that text (encryption.cpp:429-457), and no quote in it ends an SQL string.
THEOREM EncryptedOpens ==
    ASSUME EightBits, NEW keys, Primitives(keys), NEW k \in keys,
           NEW nonce \in [1 .. NONCE_SIZE -> Byte], NEW text \in Seq(Byte)
    PROVE  /\ encrypt(k, nonce, text) \in Seq(Byte \ {Quote})
           /\ try_decrypt(k, encrypt(k, nonce, text)) = Got(text)
  <1> DEFINE sealed == aead_seal(k, nonce, PREFIX, text)
             payload == nonce \o sealed
             body == base64_encode(payload)
             stored == PREFIX \o body
  <1>1. PREFIX \in Seq(Byte \ {Quote}) /\ PREFIX \in Seq(Byte) /\ NONCE_SIZE \in Nat /\ TAG_SIZE \in Nat
    <2>1. PREFIX \in Seq(Byte \ {Quote})
      BY CiphertextAssumption
    <2>2. PREFIX \in Seq(Byte)
      BY <2>1, StringIsSequence
    <2> QED
      BY <2>1, <2>2, CiphertextAssumption
  <1>2. /\ sealed \in Seq(Byte) /\ Len(sealed) >= TAG_SIZE
        /\ aead_open(k, nonce, PREFIX, sealed) = Got(text)
    BY <1>1, SealOpens
  <1> HIDE DEF sealed
  <1>3. nonce \in Seq(Byte) /\ Len(nonce) = NONCE_SIZE
    BY <1>1
  <1>4. /\ payload \in Seq(Byte)
        /\ Len(payload) = Len(nonce) + Len(sealed)
        /\ SubSeq(payload, 1, Len(nonce)) = nonce
        /\ SubSeq(payload, Len(nonce) + 1, Len(nonce) + Len(sealed)) = sealed
    <2>1. nonce \in Seq(Byte) /\ sealed \in Seq(Byte)
      BY <1>2, <1>3
    <2> QED
      BY <2>1, ConcatParts
  <1> HIDE DEF payload
  <1>5. body \in Seq(Byte \ {Quote}) /\ base64_decode(body) = Got(payload)
    BY <1>4, Base64RoundTrip
  <1> HIDE DEF body
  <1>6. /\ stored \in Seq(Byte \ {Quote})
        /\ Len(stored) = Len(PREFIX) + Len(body)
        /\ SubSeq(stored, 1, Len(PREFIX)) = PREFIX
        /\ SubSeq(stored, Len(PREFIX) + 1, Len(PREFIX) + Len(body)) = body
    <2>1. PREFIX \in Seq(Byte \ {Quote}) /\ body \in Seq(Byte \ {Quote})
      BY <1>1, <1>5
    <2> QED
      BY <2>1, ConcatParts
  <1>7. encrypt(k, nonce, text) = stored
    BY DEF encrypt, sealed, payload, body
  <1> HIDE DEF stored
  <1>8. IsPrefix(PREFIX, stored)
    <2>1. PICK m \in Nat, n \in Nat : m = Len(PREFIX) /\ n = Len(body)
      BY <1>1, <1>5
    <2>2. Len(stored) = m + n /\ m <= m + n
      BY <1>6, <2>1
    <2>3. SubSeq(PREFIX, 1, Len(PREFIX)) = PREFIX
      BY <1>1
    <2>4. Len(PREFIX) <= Len(stored)
      BY <2>1, <2>2
    <2> QED
      BY <1>6, <2>3, <2>4 DEF IsPrefix
  <1>9. SubSeq(stored, Len(PREFIX) + 1, Len(stored)) = body
    BY <1>6
  <1>10. ~(Len(payload) < NONCE_SIZE + TAG_SIZE)
    <2>1. PICK m \in Nat, n \in Nat, l \in Nat :
              m = NONCE_SIZE /\ n = TAG_SIZE /\ l = Len(sealed)
      <3>1. Len(sealed) \in Nat
        BY <1>2
      <3>2. NONCE_SIZE \in Nat /\ TAG_SIZE \in Nat
        BY <1>1
      <3> HIDE DEF payload
      <3> QED
        BY <3>1, <3>2
    <2>2. Len(payload) = m + l /\ l >= n
      BY <1>2, <1>3, <1>4, <2>1
    <2>3. ~(m + l < m + n)
      BY <2>2
    <2> QED
      BY <2>1, <2>2, <2>3
  <1>11. /\ SubSeq(payload, 1, NONCE_SIZE) = nonce
         /\ SubSeq(payload, NONCE_SIZE + 1, Len(payload)) = sealed
    BY <1>3, <1>4
  <1>12. Got(payload).ok /\ Got(payload).string = payload
    BY DEF Got
  <1>13. try_decrypt(k, stored) = aead_open(k, nonce, PREFIX, sealed)
    BY <1>5, <1>8, <1>9, <1>10, <1>11, <1>12 DEF try_decrypt
  <1> QED
    BY <1>2, <1>6, <1>7, <1>13

------------------------------------------------------------------------------
\* What the tag is made of is made of one pair of strings only.

\* Two sequences whose ends are of one length are the same when both of their parts are.
LEMMA SameParts ==
    ASSUME NEW S, NEW s \in Seq(S), NEW t \in Seq(S), NEW u \in Seq(S), NEW v \in Seq(S)
    PROVE  s \o t = u \o v /\ Len(t) = Len(v) => s = u /\ t = v
  <1>1. /\ Len(s \o t) = Len(s) + Len(t)
        /\ SubSeq(s \o t, 1, Len(s)) = s
        /\ SubSeq(s \o t, Len(s) + 1, Len(s) + Len(t)) = t
    BY ConcatParts
  <1>2. /\ Len(u \o v) = Len(u) + Len(v)
        /\ SubSeq(u \o v, 1, Len(u)) = u
        /\ SubSeq(u \o v, Len(u) + 1, Len(u) + Len(v)) = v
    BY ConcatParts
  <1>3. PICK a \in Nat, b \in Nat, c \in Nat, d \in Nat :
            a = Len(s) /\ b = Len(t) /\ c = Len(u) /\ d = Len(v)
    OBVIOUS
  <1> DEFINE x == s \o t
             y == u \o v
  <1>4. /\ Len(x) = a + b /\ SubSeq(x, 1, a) = s /\ SubSeq(x, a + 1, a + b) = t
        /\ Len(y) = c + d /\ SubSeq(y, 1, c) = u /\ SubSeq(y, c + 1, c + d) = v
    <2> HIDE DEF x, y
    <2> QED
      BY <1>1, <1>2, <1>3 DEF x, y
  <1> HIDE DEF x, y
  <1>5. ASSUME x = y, b = d PROVE s = u /\ t = v
    <2>1. a + b = c + b => a = c
      OBVIOUS
    <2>2. a = c
      BY <1>4, <1>5, <2>1
    <2> QED
      BY <1>4, <1>5, <2>2
  <1> QED
    BY <1>3, <1>5 DEF x, y

\* x is s followed by t.
IsJoined(x, s, t, S) == s \in Seq(S) /\ t \in Seq(S) /\ x = s \o t

\* The two parts of a sequence are known from the length of its end.
LEMMA OnlyParts ==
    ASSUME NEW S, NEW x, NEW s, NEW t, NEW u, NEW v,
           IsJoined(x, s, t, S), IsJoined(x, u, v, S), Len(t) = Len(v)
    PROVE  s = u /\ t = v
  <1>1. s \in Seq(S) /\ t \in Seq(S) /\ u \in Seq(S) /\ v \in Seq(S)
    BY DEF IsJoined
  <1>2. s \o t = u \o v /\ Len(t) = Len(v)
    BY DEF IsJoined
  <1>3. s \o t = u \o v /\ Len(t) = Len(v) => s = u /\ t = v
    BY <1>1, SameParts
  <1> QED
    BY <1>2, <1>3

\* Two bytes shifted out one after the other.
LEMMA ShiftedTwice == \A n \in Nat : Shifted8(Shifted8(n)) = Shifted16(n)
  BY SMT DEF Shifted8, Shifted16

\* Four bytes are two and two.
LEMMA ShiftedFourTimes == \A n \in Nat : Shifted16(Shifted16(n)) = Shifted32(n)
  BY SMT DEF Shifted16, Shifted32

\* A number of 32 bits has 16 bits left without its lower half, one of 16 bits a byte.
LEMMA ShiftedBound ==
    /\ \A n \in Nat : Fits32(n) => Fits16(Shifted16(n))
    /\ \A n \in Nat : Fits16(n) => Shifted8(n) < 256
  BY SMT DEF Fits32, Fits16, Shifted16, Shifted8

\* A number of 64 bits has one byte left when seven are shifted out.
LEMMA LastByte ==
    ASSUME NEW f, NEW n \in Nat, IsShifted(f, n), Fits64(n)
    PROVE  f[7] \in 0 .. 255
  <1>1. /\ f[0] \in Nat /\ f[1] \in Nat /\ f[2] \in Nat /\ f[3] \in Nat
        /\ f[4] \in Nat /\ f[5] \in Nat /\ f[6] \in Nat /\ f[7] \in Nat
    BY DEF IsShifted
  <1>2. f[0] = n /\ \A i \in 1 .. 7 : f[i] = Shifted8(f[i - 1])
    BY DEF IsShifted
  <1>3. /\ f[1] = Shifted8(f[0]) /\ f[2] = Shifted8(f[1]) /\ f[3] = Shifted8(f[2])
        /\ f[4] = Shifted8(f[3]) /\ f[5] = Shifted8(f[4]) /\ f[6] = Shifted8(f[5])
        /\ f[7] = Shifted8(f[6])
    BY <1>2
  <1>4. f[2] = Shifted16(f[0]) /\ f[4] = Shifted16(f[2]) /\ f[6] = Shifted16(f[4])
    BY <1>1, <1>3, ShiftedTwice
  <1>5. f[4] = Shifted32(n)
    BY <1>2, <1>4, ShiftedFourTimes
  <1>6. Fits32(f[4])
    BY <1>5 DEF Fits64
  <1>7. Fits16(f[6])
    BY <1>1, <1>4, <1>6, ShiftedBound
  <1>8. f[7] < 256
    BY <1>1, <1>3, <1>7, ShiftedBound
  <1> QED
    BY <1>1, <1>8

\* The eight bytes of a length are those of no other length.
LEMMA LengthIsUnique ==
    ASSUME EightBits, NEW v \in Nat, NEW w \in Nat, Fits64(v), Fits64(w),
           LengthBytes(v) = LengthBytes(w)
    PROVE  v = w
  <1>1. PICK r : IsShifted(r, v) /\ \A i \in 1 .. 8 : LengthBytes(v)[i] = r[i - 1] % 256
    BY LengthIsBytes
  <1>2. PICK s : IsShifted(s, w) /\ \A i \in 1 .. 8 : LengthBytes(w)[i] = s[i - 1] % 256
    BY LengthIsBytes
  <1>3. \A i \in 0 .. 7 : r[i] % 256 = s[i] % 256
    <2>1. \A i \in 1 .. 8 : r[i - 1] % 256 = s[i - 1] % 256
      BY <1>1, <1>2
    <2>2. \A i \in 0 .. 7 : i + 1 \in 1 .. 8 /\ (i + 1) - 1 = i
      OBVIOUS
    <2> QED
      BY <2>1, <2>2
  <1>4. r[7] \in 0 .. 255 /\ s[7] \in 0 .. 255
    BY <1>1, <1>2, LastByte
  <1>5. ASSUME NEW a \in Nat, NEW b \in Nat, a % 256 = b % 256, a \div 256 = b \div 256
        PROVE  a = b
    BY SMT, <1>5
  <1>6. r \in [0 .. 7 -> Nat] /\ s \in [0 .. 7 -> Nat]
    BY <1>1, <1>2 DEF IsShifted
  <1>7. r[7] = s[7]
    <2>1. PICK a \in 0 .. 255, b \in 0 .. 255 : a = r[7] /\ b = s[7]
      BY Zenon, <1>4
    <2>2. a % 256 = b % 256
      BY <1>3, <2>1
    <2>3. a = b
      BY SMT, <2>2
    <2> QED
      BY <2>1, <2>3
  <1>8. ASSUME NEW i \in 1 .. 7, r[i] = s[i]
        PROVE  r[i - 1] = s[i - 1]
    <2>1. r[i - 1] \in Nat /\ s[i - 1] \in Nat /\ i - 1 \in 0 .. 7
      BY <1>6
    <2>2. r[i - 1] \div 256 = s[i - 1] \div 256
      BY <1>1, <1>2, <1>8 DEF IsShifted, Shifted8
    <2>3. r[i - 1] % 256 = s[i - 1] % 256
      BY <1>3, <2>1
    <2> QED
      BY <1>5, <2>1, <2>2, <2>3
  <1>9. r[0] = s[0]
    <2>1. r[6] = s[6]
      BY <1>7, <1>8
    <2>2. r[5] = s[5]
      BY <1>8, <2>1
    <2>3. r[4] = s[4]
      BY <1>8, <2>2
    <2>4. r[3] = s[3]
      BY <1>8, <2>3
    <2>5. r[2] = s[2]
      BY <1>8, <2>4
    <2>6. r[1] = s[1]
      BY <1>8, <2>5
    <2> QED
      BY <1>8, <2>6
  <1> QED
    BY <1>1, <1>2, <1>9 DEF IsShifted

\* A string whose length is known is not lost in the zeros after it.
LEMMA PaddedIsUnique ==
    ASSUME EightBits, NEW s \in Seq(Byte), NEW t \in Seq(Byte),
           Padded(s) = Padded(t), Len(s) = Len(t)
    PROVE  s = t
  <1>1. Filling(s) = Filling(t)
    BY DEF Filling
  <1>2. Padded(s) = s \o Zeros(Filling(s)) /\ Padded(t) = t \o Zeros(Filling(s)) /\ Filling(s) \in Nat
    BY <1>1, PaddedIsString
  <1> DEFINE zeros == Zeros(Filling(s))
  <1>3. zeros \in Seq(Byte)
    BY <1>2, ZerosAreBytes
  <1>4. IsJoined(Padded(s), s, zeros, Byte) /\ IsJoined(Padded(s), t, zeros, Byte)
    BY <1>2, <1>3 DEF IsJoined
  <1> HIDE DEF zeros
  <1> QED
    BY <1>4, OnlyParts

\* No two pairs of strings, whose lengths have 64 bits as a std::size_t has, give the tag
\* the same input (encryption.cpp:129-140).
THEOREM MacDataIsInjective ==
    ASSUME EightBits, NEW a \in Seq(Byte), NEW c \in Seq(Byte), NEW b \in Seq(Byte), NEW d \in Seq(Byte),
           Fits64(Len(a)), Fits64(Len(b)), Fits64(Len(c)), Fits64(Len(d)),
           aead_mac_data(a, c) = aead_mac_data(b, d)
    PROVE  a = b /\ c = d
  <1>1. /\ Len(a) \in Nat /\ Len(b) \in Nat /\ Len(c) \in Nat /\ Len(d) \in Nat
    OBVIOUS
  <1>2. /\ LengthBytes(Len(a)) \in Seq(Byte) /\ Len(LengthBytes(Len(a))) = 8
        /\ LengthBytes(Len(b)) \in Seq(Byte) /\ Len(LengthBytes(Len(b))) = 8
        /\ LengthBytes(Len(c)) \in Seq(Byte) /\ Len(LengthBytes(Len(c))) = 8
        /\ LengthBytes(Len(d)) \in Seq(Byte) /\ Len(LengthBytes(Len(d))) = 8
    BY <1>1, LengthIsBytes
  <1>3. /\ Padded(a) \in Seq(Byte) /\ Len(Padded(a)) = Len(a) + Filling(a)
        /\ Padded(b) \in Seq(Byte) /\ Len(Padded(b)) = Len(b) + Filling(b)
        /\ Padded(c) \in Seq(Byte) /\ Len(Padded(c)) = Len(c) + Filling(c)
        /\ Padded(d) \in Seq(Byte) /\ Len(Padded(d)) = Len(d) + Filling(d)
    BY PaddedIsString
  <1> DEFINE p == Padded(a) \o Padded(c)
             q == Padded(b) \o Padded(d)
             pp == p \o LengthBytes(Len(a))
             qq == q \o LengthBytes(Len(b))
             mac == aead_mac_data(a, c)
  <1>4. IsJoined(p, Padded(a), Padded(c), Byte) /\ IsJoined(q, Padded(b), Padded(d), Byte)
    BY <1>3 DEF IsJoined
  <1>5. p \in Seq(Byte) /\ q \in Seq(Byte)
    <2>1. \A s, t \in Seq(Byte) : s \o t \in Seq(Byte)
      BY ConcatProperties
    <2> QED
      BY <1>3, <2>1
  <1>6. mac = pp \o LengthBytes(Len(c)) /\ mac = qq \o LengthBytes(Len(d))
    BY MacDataIsString
  <1> HIDE DEF p, q, mac
  <1>7. IsJoined(pp, p, LengthBytes(Len(a)), Byte) /\ IsJoined(qq, q, LengthBytes(Len(b)), Byte)
    BY <1>2, <1>5 DEF IsJoined
  <1>8. pp \in Seq(Byte) /\ qq \in Seq(Byte)
    <2>1. \A s, t \in Seq(Byte) : s \o t \in Seq(Byte)
      BY ConcatProperties
    <2> QED
      BY <1>2, <1>5, <2>1
  <1> HIDE DEF pp, qq
  <1>9. /\ IsJoined(mac, pp, LengthBytes(Len(c)), Byte)
        /\ IsJoined(mac, qq, LengthBytes(Len(d)), Byte)
    BY <1>2, <1>6, <1>8 DEF IsJoined
  <1>10. pp = qq /\ LengthBytes(Len(c)) = LengthBytes(Len(d))
    BY <1>2, <1>9, OnlyParts
  <1>11. p = q /\ LengthBytes(Len(a)) = LengthBytes(Len(b))
    BY <1>2, <1>7, <1>10, OnlyParts
  <1>12. Len(a) = Len(b) /\ Len(c) = Len(d)
    BY <1>1, <1>10, <1>11, LengthIsUnique
  <1>13. Len(Padded(c)) = Len(Padded(d))
    BY <1>3, <1>12 DEF Filling
  <1>14. Padded(a) = Padded(b) /\ Padded(c) = Padded(d)
    BY <1>4, <1>11, <1>13, OnlyParts
  <1> QED
    BY <1>12, <1>14, PaddedIsUnique

\* MacDataUnambiguous for any set of strings: there are as many inputs as pairs.
LEMMA StringsDistinguished ==
    ASSUME EightBits, \A string \in SomeStrings : Fits64(Len(string))
    PROVE  Distinguished
  <1> DEFINE pairs == SomeStrings \X SomeStrings
             inputs == {aead_mac_data(aad, ciphertext) : aad \in SomeStrings, ciphertext \in SomeStrings}
             f == [pair \in pairs |-> aead_mac_data(pair[1], pair[2])]
  <1>1. IsFiniteSet(SomeStrings) /\ SomeStrings \subseteq Seq(Byte)
    BY CiphertextAssumption
  <1>2. IsFiniteSet(pairs) /\ Cardinality(pairs) = Cardinality(SomeStrings) * Cardinality(SomeStrings)
    BY <1>1, FS_Product
  <1>3. f \in Injection(pairs, inputs)
    <2>1. f \in [pairs -> inputs]
      OBVIOUS
    <2>2. ASSUME NEW p \in pairs, NEW q \in pairs, f[p] = f[q] PROVE p = q
      <3>1. p = <<p[1], p[2]>> /\ q = <<q[1], q[2]>>
        OBVIOUS
      <3>2. p[1] \in SomeStrings /\ p[2] \in SomeStrings /\ q[1] \in SomeStrings /\ q[2] \in SomeStrings
        OBVIOUS
      <3>3. aead_mac_data(p[1], p[2]) = aead_mac_data(q[1], q[2])
        BY <2>2
      <3>4. p[1] = q[1] /\ p[2] = q[2]
        BY <1>1, <3>2, <3>3, MacDataIsInjective
      <3> QED
        BY <3>1, <3>4
    <2> HIDE DEF f, pairs, inputs
    <2> QED
      BY <2>1, <2>2 DEF Injection, IsInjective
  <1>4. f \in Surjection(pairs, inputs)
    <2>1. f \in [pairs -> inputs]
      OBVIOUS
    <2>2. ASSUME NEW input \in inputs PROVE \E p \in pairs : f[p] = input
      <3>1. PICK aad \in SomeStrings, ciphertext \in SomeStrings : input = aead_mac_data(aad, ciphertext)
        OBVIOUS
      <3>2. <<aad, ciphertext>> \in pairs /\ f[<<aad, ciphertext>>] = input
        BY <3>1
      <3> QED
        BY <3>2
    <2> HIDE DEF f, pairs, inputs
    <2> QED
      BY <2>1, <2>2 DEF Surjection
  <1> HIDE DEF f, pairs, inputs
  <1>5. ExistsBijection(pairs, inputs)
    BY <1>3, <1>4 DEF ExistsBijection, Bijection
  <1>6. Cardinality(inputs) = Cardinality(pairs)
    BY <1>2, <1>5, FS_Bijection
  <1> QED
    BY <1>2, <1>6 DEF Distinguished, inputs

USE DEF Step

------------------------------------------------------------------------------
\* Values.

SavedTexts(id) == {row[id].text : row \in InitialRows} \cup {typed.text : typed \in Typed}

\* Sealing keeps the text, adds at most the layer of the key, and leaves a value the
\* key opens.
LEMMA SealedValue ==
    ASSUME NEW k \in Keys, NEW value \in Values
    PROVE  LET sealed == EncryptForStorage(k, value)
           IN  /\ sealed \in Values
               /\ sealed.text = value.text
               /\ Range(sealed.layers) \subseteq Range(value.layers) \cup {k}
               /\ TryDecrypt(k, sealed)
  <1>1. CASE TryDecrypt(k, value)
    BY <1>1 DEF EncryptForStorage
  <1>2. CASE ~TryDecrypt(k, value)
    <2> DEFINE layers == value.layers
               more == Append(layers, k)
    <2>1. layers \in Seq(Keys) /\ value.text \in PlainTexts
      BY DEF Values
    <2>2. /\ more \in Seq(Keys) /\ Len(more) = Len(layers) + 1 /\ Len(layers) \in Nat
          /\ more[Len(layers) + 1] = k
          /\ DOMAIN more = 1 .. Len(layers) + 1 /\ DOMAIN layers = 1 .. Len(layers)
          /\ \A i \in 1 .. Len(layers) : more[i] = layers[i]
      BY <2>1
    <2>3. EncryptForStorage(k, value) = [layers |-> more, text |-> value.text]
      BY <1>2 DEF EncryptForStorage, Encrypted
    <2> HIDE DEF more, layers
    <2>4. \A i \in DOMAIN more : more[i] = k \/ (i \in DOMAIN layers /\ more[i] = layers[i])
      BY <2>2
    <2>5. Range(more) \subseteq Range(layers) \cup {k}
      BY <2>4 DEF Range
    <2>6. TryDecrypt(k, [layers |-> more, text |-> value.text])
      BY <2>2 DEF TryDecrypt
    <2> QED
      BY <2>1, <2>2, <2>3, <2>5, <2>6 DEF Values, layers
  <1> QED
    BY <1>1, <1>2

------------------------------------------------------------------------------
\* Shapes, whatever the number of instances.

\* Every instance has its place, key and entries.
PerInstance ==
    /\ DOMAIN pc = Instances /\ DOMAIN key = Instances /\ DOMAIN account = Instances
    /\ \A i \in Instances : pc[i] = "running" => DOMAIN account[i] = Ids
    /\ DOMAIN db = Ids
    /\ losses \in Nat

\* A value an instance or the table holds: its text is one that was saved for that
\* row, its layers are of keys the file has held.
Known(id, value) ==
    /\ value.text \in SavedTexts(id)
    /\ Range(value.layers) \subseteq held

\* An instance seals only with a key the file has held, so the values stay known.
AllKnown ==
    /\ key_file \in held \cup {Absent, Invalid}
    /\ \A id \in Ids : Known(id, db[id])
    /\ \A i \in Instances :
          /\ pc[i] \in {"load", "running"} => key[i] \in held
          /\ pc[i] = "running" => \A id \in Ids : Known(id, account[i][id])

Shape == TypeOK /\ PerInstance /\ AllKnown

\* At first every row and the file have their shapes.
LEMMA InitShape == Init => Shape
  <1> SUFFICES ASSUME Init PROVE Shape
    OBVIOUS
  <1>1. db \in [Ids -> Values] /\ key_file \in Keys \cup {Absent, Invalid}
    BY KeyFileAssumption DEF Init
  <1>2. TypeOK /\ PerInstance
    BY <1>1 DEF Init, TypeOK, PerInstance
  <1>3. ASSUME NEW id \in Ids PROVE Known(id, db[id])
    <2>1. db[id].text \in SavedTexts(id)
      BY DEF Init, SavedTexts
    <2>2. db[id].layers \in Seq(Keys)
      BY <1>1 DEF Values
    <2>3. Range(db[id].layers) \subseteq Keys
      BY <2>2, RangeOfSeq
    <2>4. Range(<<>>) = {}
      BY DEF Range
    <2>5. db[id].layers = <<>> \/ Range(db[id].layers) \subseteq {key_file}
      BY KeyFileAssumption DEF Init
    <2> QED
      BY <2>1, <2>3, <2>4, <2>5 DEF Known, Init
  <1>4. AllKnown
    BY <1>1, <1>3 DEF AllKnown, Init
  <1> QED
    BY <1>2, <1>4 DEF Shape

\* Only instance i takes a step.
OnlyMoves(i) ==
    /\ DOMAIN pc' = Instances /\ DOMAIN key' = Instances /\ DOMAIN account' = Instances
    /\ \A j \in Instances : j # i =>
          pc'[j] = pc[j] /\ key'[j] = key[j] /\ account'[j] = account[j]

\* The place and the key of an instance that does not run fit together.
PlaceFits(i) ==
    /\ pc'[i] \in {"off", "exists", "read", "create", "write", "load", "refused"}
    /\ key'[i] \in Keys \cup {NoKey}
    /\ pc'[i] \in {"write", "load"} => key'[i] \in Keys
    /\ pc'[i] = "load" => key'[i] \in held'

\* A step that leaves the table alone and does not go to run.
LEMMA QuietStep ==
    ASSUME Shape, NEW i \in Instances, OnlyMoves(i), PlaceFits(i),
           key_file' \in held' \cup {Absent, Invalid},
           held' \subseteq Keys, held \subseteq held',
           UNCHANGED <<db, losses>>
    PROVE  Shape'
  <1> USE DEF OnlyMoves, PlaceFits
  <1>1. TypeOK'
    BY DEF Shape, TypeOK
  <1>2. PerInstance'
    BY DEF Shape, PerInstance
  <1>3. AllKnown'
    BY DEF Shape, AllKnown, Known
  <1> QED
    BY <1>1, <1>2, <1>3 DEF Shape

\* A value an instance may hold for a row.
Holds(id, value) == value \in Values /\ Known(id, value)

\* What is sealed with a held key is a value an instance may hold.
LEMMA SealedIsHeld ==
    ASSUME NEW k \in Keys, k \in held, NEW id, NEW value, Holds(id, value)
    PROVE  Holds(id, EncryptForStorage(k, value))
  BY SealedValue DEF Holds, Known

\* A step of an instance to or in its session.
LEMMA RunningStep ==
    ASSUME Shape, NEW i \in Instances, OnlyMoves(i),
           pc[i] \in {"load", "running"}, pc'[i] = "running",
           DOMAIN account'[i] = Ids, \A id \in Ids : Holds(id, account'[i][id]),
           UNCHANGED <<key_file, key, db, held, losses>>
    PROVE  Shape'
  <1> USE DEF OnlyMoves, Holds
  <1>1. TypeOK'
    BY DEF Shape, TypeOK, AllKnown
  <1>2. PerInstance'
    BY DEF Shape, PerInstance
  <1>3. AllKnown'
    BY DEF Shape, AllKnown, Known
  <1> QED
    BY <1>1, <1>2, <1>3 DEF Shape

\* The steps of an instance.
LEMMA ApplicationShape ==
    ASSUME Shape, NEW i \in Instances, ApplicationStep(i)
    PROVE  Shape'
  <1>0. /\ DOMAIN pc = Instances /\ DOMAIN key = Instances /\ DOMAIN account = Instances
        /\ DOMAIN db = Ids
        /\ key[i] \in Keys \cup {NoKey}
        /\ pc[i] \in {"write", "load", "running"} => key[i] \in Keys
        /\ pc[i] \in {"load", "running"} => key[i] \in held
        /\ key_file \in held \cup {Absent, Invalid} /\ held \subseteq Keys
    BY DEF Shape, TypeOK, PerInstance, AllKnown
  <1>1. CASE Start(i) \/ CheckExists(i) \/ WriteFails(i) \/ End(i)
    BY <1>0, <1>1, QuietStep DEF Start, CheckExists, WriteFails, End, OnlyMoves, PlaceFits
  <1>2. CASE ReadKey(i)
    <2>1. CASE key_file \in Keys
      <3>1. key_file \in held
        BY <1>0, <2>1, KeyFileAssumption
      <3> QED
        BY <1>0, <1>2, <2>1, <3>1, QuietStep DEF ReadKey, OnlyMoves, PlaceFits
    <2>2. CASE key_file \notin Keys
      BY <1>0, <1>2, <2>2, QuietStep DEF ReadKey, OnlyMoves, PlaceFits
    <2> QED
      BY <2>1, <2>2
  <1>3. CASE CreateFile(i)
    BY <1>0, <1>3, QuietStep DEF CreateFile, OnlyMoves, PlaceFits
  <1>4. CASE WriteKey(i)
    BY <1>0, <1>4, QuietStep DEF WriteKey, OnlyMoves, PlaceFits
  <1>5. CASE Load(i)
    <2> DEFINE loaded == [id \in Ids |-> EncryptForStorage(key[i], db[id])]
    <2>1. /\ pc[i] = "load" /\ pc' = [pc EXCEPT ![i] = "running"]
          /\ account' = [account EXCEPT ![i] = loaded]
          /\ UNCHANGED <<key_file, key, db, held, losses>>
      BY <1>5 DEF Load
    <2>2. \A id \in Ids : Holds(id, loaded[id])
      BY <1>0, <2>1, SealedIsHeld DEF Shape, TypeOK, AllKnown, Holds
    <2>3. DOMAIN loaded = Ids
      OBVIOUS
    <2> HIDE DEF loaded
    <2>4. pc'[i] = "running" /\ account'[i] = loaded /\ OnlyMoves(i)
      BY <1>0, <2>1 DEF OnlyMoves
    <2> QED
      BY <1>0, <2>1, <2>2, <2>3, <2>4, RunningStep
  <1>6. ASSUME NEW id \in Ids, StoreRow(i, id)
        PROVE  Shape'
    <2>1. pc[i] = "running" /\ Holds(id, account[i][id])
      BY <1>6 DEF StoreRow, Shape, TypeOK, AllKnown, Holds
    <2>2. DOMAIN db' = Ids /\ \A other \in Ids : Holds(other, db'[other])
      BY <1>0, <1>6, <2>1 DEF StoreRow, Shape, TypeOK, AllKnown, Holds
    <2>3. UNCHANGED <<key_file, pc, key, account, held, losses>>
      BY <1>6 DEF StoreRow
    <2> QED
      BY <2>2, <2>3 DEF Shape, TypeOK, PerInstance, AllKnown, Known, Holds
  <1>7. ASSUME NEW id \in Ids, NEW typed \in Typed, SavePassword(i, id, typed)
        PROVE  Shape'
    <2> DEFINE sealed == EncryptForStorage(key[i], typed)
    <2>1. /\ pc[i] = "running" /\ account' = [account EXCEPT ![i][id] = sealed]
          /\ UNCHANGED <<key_file, pc, key, db, held, losses>>
      BY <1>7 DEF SavePassword
    <2>2. Holds(id, typed)
      <3>1. Range(typed.layers) = {}
        BY KeyFileAssumption DEF Range
      <3> QED
        BY <3>1, KeyFileAssumption DEF Holds, Known, SavedTexts
    <2>3. Holds(id, sealed)
      BY <1>0, <2>1, <2>2, SealedIsHeld
    <2> HIDE DEF sealed
    <2>4. /\ DOMAIN account[i] = Ids
          /\ \A other \in Ids : Holds(other, account[i][other])
      BY <2>1 DEF Shape, TypeOK, PerInstance, AllKnown, Holds
    <2>5. account'[i] = [account[i] EXCEPT ![id] = sealed] /\ OnlyMoves(i)
      BY <1>0, <2>1 DEF OnlyMoves
    <2>6. /\ DOMAIN account'[i] = Ids
          /\ \A other \in Ids : Holds(other, account'[i][other])
      BY <2>3, <2>4, <2>5
    <2> QED
      BY <1>0, <2>1, <2>5, <2>6, RunningStep
  <1> QED
    BY <1>1, <1>2, <1>3, <1>4, <1>5, <1>6, <1>7 DEF ApplicationStep

\* No step of an instance, kill, lost or restored file breaks a shape, whoever else runs.
LEMMA StepShape == Shape /\ [Next]_vars => Shape'
  <1> SUFFICES ASSUME Shape, [Next]_vars PROVE Shape'
    OBVIOUS
  <1>1. ASSUME NEW i \in Instances, ApplicationStep(i)
        PROVE  Shape'
    BY <1>1, ApplicationShape
  <1>2. CASE LoseKeyFile
    BY <1>2 DEF LoseKeyFile, Shape, TypeOK, PerInstance, AllKnown, Known
  <1>3. CASE RestoreKeyFile
    BY <1>3 DEF RestoreKeyFile, Shape, TypeOK, PerInstance, AllKnown, Known
  <1>4. CASE UNCHANGED vars
    BY <1>4 DEF vars, Shape, TypeOK, PerInstance, AllKnown, Known
  <1> QED
    BY <1>1, <1>2, <1>3, <1>4 DEF Next

\* Throughout, whatever the number of instances: rows, keys and entries keep their shapes,
\* each text is one saved under its id, and each layer one of a key the file once held.
THEOREM ShapeKept == Spec => []Shape
  <1>1. Init => Shape
    BY InitShape
  <1>2. Shape /\ [Next]_vars => Shape'
    BY StepShape
  <1> QED
    BY <1>1, <1>2, PTL DEF Spec

\* TypeOK, whatever the number of instances.
THEOREM TypeCorrect == Spec => []TypeOK
  <1>1. Shape => TypeOK
    BY DEF Shape
  <1> QED
    BY <1>1, ShapeKept, PTL

------------------------------------------------------------------------------
\* One instance at a time.  MCFirstRun shows what two of them do to the key file.

Alone == \A i, j \in Instances : i = j

\* The file is there from the moment the instance opens it until its user loses it, and
\* then holds the key of the session.
FileOfSession ==
    \A i \in Instances :
        /\ pc[i] = "create" => key_file = Absent
        /\ pc[i] = "write" => key_file = Invalid
        /\ losses = 0 /\ pc[i] \in {"load", "running"} => key_file = key[i]

\* What a session keeps is sealed with its key.
EntriesSealed ==
    \A i \in Instances : pc[i] = "running" =>
        \A id \in Ids : TryDecrypt(key[i], account[i][id])

\* A row is still plain text, or opens with the key in the file.
RowsOpen ==
    losses = 0 => \A id \in Ids :
        db[id].layers = <<>> \/ (key_file \in Keys /\ TryDecrypt(key_file, db[id]))

FileInv == Shape /\ FileOfSession /\ EntriesSealed /\ RowsOpen

\* At first no session has begun, and rows are plain or sealed with the key in the file.
LEMMA InitFileInv == Init => FileInv
  <1> SUFFICES ASSUME Init PROVE FileInv
    OBVIOUS
  <1>1. FileOfSession /\ EntriesSealed
    BY DEF Init, FileOfSession, EntriesSealed
  <1>2. ASSUME NEW id \in Ids, db[id].layers # <<>>
        PROVE  key_file \in Keys /\ TryDecrypt(key_file, db[id])
    <2>1. TryDecrypt(key_file, db[id])
      BY <1>2, KeyFileAssumption DEF Init
    <2>2. db[id].layers \in Seq(Keys)
      BY KeyFileAssumption DEF Init, Values
    <2> QED
      BY <2>1, <2>2 DEF TryDecrypt
  <1> QED
    BY <1>1, <1>2, InitShape DEF FileInv, RowsOpen

\* The steps of the only instance.
LEMMA ApplicationFileInv ==
    ASSUME Alone, FileInv, NEW i \in Instances, ApplicationStep(i)
    PROVE  (FileOfSession /\ EntriesSealed /\ RowsOpen)'
  <1> USE DEF FileInv, FileOfSession, EntriesSealed, RowsOpen
  <1>0. /\ Instances = {i}
        /\ DOMAIN pc = Instances /\ DOMAIN key = Instances /\ DOMAIN account = Instances
        /\ DOMAIN db = Ids
        /\ pc[i] \in {"write", "load", "running"} => key[i] \in Keys
        /\ \A id \in Ids : db[id] \in Values
        /\ pc[i] = "running" => DOMAIN account[i] = Ids
    BY DEF Alone, Shape, TypeOK, PerInstance
  <1>1. CASE Start(i) \/ CheckExists(i) \/ WriteFails(i) \/ End(i)
    BY <1>0, <1>1 DEF Start, CheckExists, FileExists, WriteFails, End
  <1>2. CASE ReadKey(i)
    BY <1>0, <1>2 DEF ReadKey
  <1>3. CASE CreateFile(i)
    BY <1>0, <1>3, KeyFileAssumption DEF CreateFile
  <1>4. CASE WriteKey(i)
    BY <1>0, <1>4, KeyFileAssumption DEF WriteKey
  <1>5. CASE Load(i)
    <2>1. \A id \in Ids : TryDecrypt(key[i], EncryptForStorage(key[i], db[id]))
      BY <1>0, <1>5, SealedValue DEF Load
    <2> QED
      BY <1>0, <1>5, <2>1 DEF Load
  <1>6. ASSUME NEW id \in Ids, StoreRow(i, id)
        PROVE  (FileOfSession /\ EntriesSealed /\ RowsOpen)'
    BY <1>0, <1>6 DEF StoreRow
  <1>7. ASSUME NEW id \in Ids, NEW typed \in Typed, SavePassword(i, id, typed)
        PROVE  (FileOfSession /\ EntriesSealed /\ RowsOpen)'
    <2>1. TryDecrypt(key[i], EncryptForStorage(key[i], typed))
      BY <1>0, <1>7, SealedValue, KeyFileAssumption DEF SavePassword
    <2> QED
      BY <1>0, <1>7, <2>1 DEF SavePassword
  <1> QED
    BY <1>1, <1>2, <1>3, <1>4, <1>5, <1>6, <1>7 DEF ApplicationStep

\* With one instance, a running session has the key of the file it found or made, and
\* what it writes opens with it.
LEMMA StepFileInv == Alone /\ FileInv /\ [Next]_vars => FileInv'
  <1> SUFFICES ASSUME Alone, FileInv, [Next]_vars PROVE FileInv'
    OBVIOUS
  <1> USE DEF FileOfSession, EntriesSealed, RowsOpen
  <1>1. Shape'
    BY StepShape DEF FileInv
  <1>2. ASSUME NEW i \in Instances, ApplicationStep(i)
        PROVE  FileInv'
    BY <1>1, <1>2, ApplicationFileInv DEF FileInv
  <1>3. CASE LoseKeyFile
    BY <1>1, <1>3 DEF FileInv, Shape, PerInstance, LoseKeyFile, AllOff
  <1>4. CASE RestoreKeyFile
    BY <1>1, <1>4 DEF FileInv, Shape, PerInstance, RestoreKeyFile, AllOff
  <1>5. CASE UNCHANGED vars
    BY <1>1, <1>5 DEF FileInv, vars
  <1> QED
    BY <1>2, <1>3, <1>4, <1>5 DEF Next

\* The invariant of one instance holds over all its sessions.
LEMMA FileInvariance == ASSUME Alone PROVE Spec => []FileInv
  <1>1. Init => FileInv
    BY InitFileInv
  <1>2. FileInv /\ [Next]_vars => FileInv'
    BY StepFileInv
  <1> QED
    BY <1>1, <1>2, PTL DEF Spec

\* RowsReadable: the text of every row is one that was saved for it, under keys the
\* file once held, and opens with the file of its database unless that was lost.
THEOREM RowsStayReadable == ASSUME Alone PROVE Spec => []RowsReadable
  <1>1. FileInv => RowsReadable
    BY DEF FileInv, Shape, AllKnown, Known, SavedTexts, RowsOpen, RowsReadable
  <1> QED
    BY <1>1, FileInvariance, PTL

\* KeyFileKept: a key file that is there is not replaced.
THEOREM FileIsKept == ASSUME Alone PROVE Spec => KeyFileKept
  <1>1. FileInv /\ [Next]_vars =>
          [/\ \A i \in Instances : pc[i] = "create" /\ pc'[i] = "write" => key_file = Absent
           /\ key_file' # key_file =>
                 AllOff \/ key_file = Absent \/ \E i \in Instances : pc[i] = "write"]_vars
    <2> SUFFICES ASSUME FileInv, Next
                 PROVE  key_file' # key_file =>
                          AllOff \/ key_file = Absent \/ \E i \in Instances : pc[i] = "write"
      BY DEF FileInv, FileOfSession
    <2>1. ASSUME NEW i \in Instances, ApplicationStep(i), key_file' # key_file
          PROVE  key_file = Absent \/ pc[i] = "write"
      BY <2>1 DEF FileInv, FileOfSession, ApplicationStep, Start, CheckExists, ReadKey,
                  CreateFile, WriteKey, WriteFails, Load, StoreRow, SavePassword, End
    <2> QED
      BY <2>1 DEF Next, LoseKeyFile, RestoreKeyFile
  <1> QED
    BY <1>1, FileInvariance, PTL DEF Spec, KeyFileKept

------------------------------------------------------------------------------
\* Stored values.

\* The arithmetic of the tag is exact (encryption.cpp:213-320): in every turn of the loop,
\* in the reduction after it and over whole messages.
THEOREM TagArithmeticExact == ASSUME FiveLimbs PROVE Spec => []Poly1305Correct
  <1>1. Poly1305Correct
    BY ChecksHold DEF Poly1305Correct
  <1>2. Poly1305Correct'
    BY ChecksHold DEF Poly1305Correct, AbsorbedExact, ReducedExact, TagExact
  <1> QED
    BY <1>1, <1>2, PTL

\* What sealing with one key after the other does to the bytes of a value.
Sealing(layers, nonce) ==
    [n \in 1 .. Len(layers) |-> [string \in Seq(Byte) |-> encrypt(KeyBytes[layers[n]], nonce, string)]]

RealKeys == SomeKeys \cup {KeyBytes[k] : k \in Keys}

\* The bytes of a value are what sealing its text leads to.
LEMMA StoredIsSealed ==
    ASSUME EightBits, Primitives(RealKeys), NEW nonce \in [1 .. NONCE_SIZE -> Byte], NEW value \in Values
    PROVE  \E f : /\ IsFold(f, Len(value.layers), Seq(Byte), TextBytes[value.text], Sealing(value.layers, nonce))
                  /\ StoredBytes(value, nonce) = f[Len(value.layers)]
  <1> DEFINE layers == value.layers
             first == TextBytes[value.text]
             step == Sealing(layers, nonce)
  <1>1. layers \in Seq(Keys) /\ value.text \in PlainTexts
    BY DEF Values
  <1>2. PICK size \in Nat : size = Len(layers)
    BY <1>1
  <1>3. first \in Seq(Byte)
    BY <1>1, StoredValuesAssumption
  <1>4. step \in [1 .. size -> [Seq(Byte) -> Seq(Byte)]]
    <2>1. ASSUME NEW n \in 1 .. size, NEW string \in Seq(Byte)
          PROVE  encrypt(KeyBytes[layers[n]], nonce, string) \in Seq(Byte)
      <3>1. KeyBytes[layers[n]] \in RealKeys
        <4>1. layers[n] \in Keys
          BY <1>1, <1>2
        <4> QED
          BY <4>1 DEF RealKeys
      <3>2. encrypt(KeyBytes[layers[n]], nonce, string) \in Seq(Byte \ {Quote})
        BY <3>1, EncryptedOpens
      <3> QED
        BY <3>2, StringIsSequence
    <2> QED
      BY <1>2, <2>1 DEF Sealing
  <1>5. \A n \in 1 .. size, string \in Seq(Byte) :
            step[n][string] = encrypt(KeyBytes[layers[n]], nonce, string)
    BY <1>2 DEF Sealing
  <1> HIDE DEF layers, first, step
  <1> DEFINE E(g) == [n \in 0 .. size |-> IF n = 0 THEN first
                                          ELSE encrypt(KeyBytes[layers[n]], nonce, g[n - 1])]
             f == CHOOSE g : g = E(g)
  <1>6. PICK g : IsFold(g, size, Seq(Byte), first, step)
    BY <1>2, <1>3, <1>4, FoldExists
  <1>7. g = E(g)
    <2>1. g = [n \in 0 .. size |-> g[n]]
      BY <1>6 DEF IsFold
    <2>2. ASSUME NEW n \in 0 .. size, n # 0
          PROVE  g[n] = encrypt(KeyBytes[layers[n]], nonce, g[n - 1])
      <3>1. n \in 1 .. size /\ n - 1 \in 0 .. size
        BY <1>2, <2>2
      <3>2. g[n] = step[n][g[n - 1]] /\ g[n - 1] \in Seq(Byte)
        BY <1>6, <3>1 DEF IsFold
      <3> QED
        BY <1>5, <3>1, <3>2
    <2>3. g[0] = first
      BY <1>6 DEF IsFold
    <2> QED
      BY <2>1, <2>2, <2>3
  <1>8. f = E(f)
    <2> HIDE DEF E
    <2> QED
      BY <1>7
  <1>9. StoredBytes(value, nonce) = f[size]
    BY <1>2 DEF StoredBytes, layers, first
  <1> HIDE DEF f
  <1>10. /\ f = [n \in 0 .. size |-> f[n]] /\ f[0] = first
         /\ \A n \in 1 .. size : f[n] = encrypt(KeyBytes[layers[n]], nonce, f[n - 1])
    <2>1. \A n \in 1 .. size : n \in 0 .. size /\ n # 0
      OBVIOUS
    <2>2. 0 \in 0 .. size
      BY <1>2
    <2> QED
      BY <1>8, <2>1, <2>2
  <1>11. \A n \in 0 .. size : f[n] \in Seq(Byte)
    <2> DEFINE T == {n \in 0 .. size : f[n] \notin Seq(Byte)}
    <2>1. T = {}
      <3> SUFFICES ASSUME T # {} PROVE FALSE
        OBVIOUS
      <3>1. PICK n \in T : \A m \in T : n <= m
        <4>1. T \subseteq Nat
          OBVIOUS
        <4> HIDE DEF T
        <4> QED
          BY <4>1, LeastNumber
      <3>2. n # 0
        BY <1>3, <1>10, <3>1
      <3>3. n \in 1 .. size /\ n - 1 \in 0 .. size
        BY <3>1, <3>2
      <3>4. n - 1 \notin T
        <4>1. ~(n <= n - 1)
          BY <3>3
        <4> HIDE DEF T
        <4> QED
          BY <3>1, <4>1
      <3>5. f[n - 1] \in Seq(Byte)
        BY <3>3, <3>4
      <3>6. f[n] = step[n][f[n - 1]]
        BY <1>5, <1>10, <3>3, <3>5
      <3>7. f[n] \in Seq(Byte)
        BY <1>4, <3>3, <3>5, <3>6
      <3> QED
        BY <3>1, <3>7
    <2> QED
      BY <2>1
  <1>12. IsFold(f, size, Seq(Byte), first, step)
    <2>1. \A n \in 1 .. size : f[n] = step[n][f[n - 1]]
      <3> TAKE n \in 1 .. size
      <3>1. f[n - 1] \in Seq(Byte)
        <4>1. n - 1 \in 0 .. size
          OBVIOUS
        <4> QED
          BY <1>11, <4>1
      <3> QED
        BY <1>5, <1>10, <3>1
    <2> QED
      BY <1>10, <1>11, <2>1 DEF IsFold
  <1> QED
    BY <1>2, <1>9, <1>12 DEF layers, first, step

\* Two folds with the same steps agree as far as both of them go.
LEMMA FoldsAgree ==
    ASSUME NEW m \in Nat, NEW n \in Nat, n <= m, NEW S, NEW first, NEW step, NEW other, NEW f, NEW g,
           IsFold(f, m, S, first, step), IsFold(g, n, S, first, other),
           \A i \in 1 .. n : step[i] = other[i]
    PROVE  \A i \in 0 .. n : f[i] = g[i]
  <1> DEFINE T == {i \in 0 .. n : f[i] # g[i]}
  <1>1. T = {}
    <2> SUFFICES ASSUME T # {} PROVE FALSE
      OBVIOUS
    <2>1. PICK i \in T : \A j \in T : i <= j
      <3>1. T \subseteq Nat
        OBVIOUS
      <3> HIDE DEF T
      <3> QED
        BY <3>1, LeastNumber
    <2>2. i # 0
      BY <2>1 DEF IsFold
    <2>3. i \in 1 .. n /\ i - 1 \in 0 .. n /\ i \in 1 .. m
      BY <2>1, <2>2
    <2>4. i - 1 \notin T
      <3>1. ~(i <= i - 1)
        BY <2>3
      <3> HIDE DEF T
      <3> QED
        BY <2>1, <3>1
    <2>5. f[i - 1] = g[i - 1]
      BY <2>3, <2>4
    <2>6. f[i] = step[i][f[i - 1]] /\ g[i] = other[i][g[i - 1]]
      BY <2>3 DEF IsFold
    <2>7. f[i] = g[i]
      BY <2>3, <2>5, <2>6
    <2> QED
      BY <2>1, <2>7
  <1> QED
    BY <1>1

\* A value opens with the key of its outermost layer, as what is in that layer.
LEMMA LayerOpens ==
    ASSUME EightBits, Primitives(RealKeys), NEW nonce \in [1 .. NONCE_SIZE -> Byte], NEW value \in Values,
           NEW k \in Keys, TryDecrypt(k, value)
    PROVE  try_decrypt(KeyBytes[k], StoredBytes(value, nonce)) = Got(StoredBytes(Decrypted(value), nonce))
  <1> DEFINE layers == value.layers
             inner == Decrypted(value)
             first == TextBytes[value.text]
  <1>1. layers \in Seq(Keys) /\ value.text \in PlainTexts
    BY DEF Values
  <1>2. PICK size \in Nat : size = Len(layers)
    BY <1>1
  <1>3. size \in 1 .. size /\ size - 1 \in Nat /\ layers[size] = k
    BY <1>2 DEF TryDecrypt
  <1>4. /\ inner.layers = SubSeq(layers, 1, size - 1) /\ inner.text = value.text
        /\ inner.layers \in Seq(Keys) /\ Len(inner.layers) = size - 1
        /\ \A i \in 1 .. size - 1 : inner.layers[i] = layers[i]
    <2>1. inner.layers = SubSeq(layers, 1, size - 1) /\ inner.text = value.text
      BY <1>2 DEF Decrypted
    <2>2. \A i \in 1 .. size - 1 : i \in 1 .. size
      BY <1>3
    <2> HIDE DEF inner
    <2> QED
      BY <1>1, <1>2, <1>3, <2>1, <2>2
  <1>5. inner \in Values
    <2>1. inner = [layers |-> inner.layers, text |-> inner.text]
      BY DEF Decrypted
    <2> HIDE DEF inner
    <2> QED
      BY <1>1, <1>4, <2>1 DEF Values
  <1> HIDE DEF inner, layers
  <1>6. PICK f : /\ IsFold(f, size, Seq(Byte), first, Sealing(layers, nonce))
                 /\ StoredBytes(value, nonce) = f[size]
    BY <1>2, StoredIsSealed DEF layers
  <1>7. PICK g : /\ IsFold(g, size - 1, Seq(Byte), first, Sealing(inner.layers, nonce))
                 /\ StoredBytes(inner, nonce) = g[size - 1]
    BY <1>4, <1>5, StoredIsSealed
  <1> HIDE DEF first
  <1>8. f[size - 1] = g[size - 1]
    <2>1. \A i \in 1 .. size - 1 : Sealing(layers, nonce)[i] = Sealing(inner.layers, nonce)[i]
      <3> TAKE i \in 1 .. size - 1
      <3>1. i \in 1 .. Len(layers) /\ i \in 1 .. Len(inner.layers) /\ inner.layers[i] = layers[i]
        BY <1>2, <1>3, <1>4
      <3> QED
        BY <3>1 DEF Sealing
    <2>2. \A i \in 0 .. size - 1 : f[i] = g[i]
      <3>1. size - 1 <= size
        OBVIOUS
      <3> QED
        BY <1>3, <1>6, <1>7, <2>1, <3>1, FoldsAgree
    <2>3. size - 1 \in 0 .. size - 1
      BY <1>3
    <2> QED
      BY <2>2, <2>3
  <1> DEFINE string == f[size - 1]
  <1>9. string \in Seq(Byte) /\ f[size] = encrypt(KeyBytes[k], nonce, string)
    <2>1. size - 1 \in 0 .. size
      BY <1>3
    <2>2. string \in Seq(Byte) /\ f[size] = Sealing(layers, nonce)[size][string]
      BY <1>3, <1>6, <2>1 DEF IsFold
    <2> HIDE DEF string
    <2>3. Sealing(layers, nonce)[size][string] = encrypt(KeyBytes[k], nonce, string)
      BY <1>2, <1>3, <2>2 DEF Sealing
    <2> QED
      BY <2>2, <2>3
  <1>10. KeyBytes[k] \in RealKeys
    BY DEF RealKeys
  <1> HIDE DEF string
  <1>11. try_decrypt(KeyBytes[k], f[size]) = Got(string)
    BY <1>9, <1>10, EncryptedOpens
  <1> QED
    BY <1>6, <1>7, <1>8, <1>11 DEF string, inner

\* StoredValueOpens for every value of the constants with bytes of 8 bits: the rows open as
\* KeyFile says they do, and every text that was encrypted opens and holds no quote.
THEOREM StoredValuesOpen ==
    ASSUME EightBits, Primitives(RealKeys)
    PROVE  Spec => []StoredValueOpens
  <1>1. Opened
    <2> SUFFICES ASSUME NEW k \in SomeKeys, NEW nonce \in Nonces, NEW text \in SomeTexts
                 PROVE  /\ try_decrypt(k, encrypt(k, nonce, text)) = Got(text)
                        /\ \A i \in DOMAIN encrypt(k, nonce, text) : encrypt(k, nonce, text)[i] # Quote
      BY DEF Opened
    <2> DEFINE stored == encrypt(k, nonce, text)
    <2>1. k \in RealKeys /\ nonce \in [1 .. NONCE_SIZE -> Byte] /\ text \in Seq(Byte)
      BY CiphertextAssumption DEF RealKeys
    <2>2. stored \in Seq(Byte \ {Quote}) /\ try_decrypt(k, stored) = Got(text)
      BY <2>1, EncryptedOpens
    <2> HIDE DEF stored
    <2>3. \A i \in DOMAIN stored : stored[i] # Quote
      BY <2>2
    <2> QED
      BY <2>2, <2>3 DEF stored
  <1>2. TypeOK => StoredValueOpens
    <2> SUFFICES ASSUME TypeOK, NEW id \in Ids, NEW k \in Keys, NEW nonce \in Nonces, TryDecrypt(k, db[id])
                 PROVE  try_decrypt(KeyBytes[k], StoredBytes(db[id], nonce))
                            = Got(StoredBytes(Decrypted(db[id]), nonce))
      BY <1>1 DEF StoredValueOpens
    <2>1. db[id] \in Values /\ nonce \in [1 .. NONCE_SIZE -> Byte]
      BY CiphertextAssumption DEF TypeOK
    <2> QED
      BY <2>1, LayerOpens
  <1> QED
    BY <1>2, TypeCorrect, PTL

\* MacDataUnambiguous for every value of the constants with bytes of 8 bits and strings
\* whose length is a std::size_t.
THEOREM MacDataStaysUnambiguous ==
    ASSUME EightBits, \A string \in SomeStrings : Fits64(Len(string))
    PROVE  Spec => []MacDataUnambiguous
  <1>1. MacDataUnambiguous
    BY StringsDistinguished DEF MacDataUnambiguous
  <1>2. MacDataUnambiguous'
    BY StringsDistinguished DEF MacDataUnambiguous, Distinguished
  <1> QED
    BY <1>1, <1>2, PTL
=============================================================================
