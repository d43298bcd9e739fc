-------------------------- MODULE LocationsProofs --------------------------
(***************************************************************************)
(* The integers of the stream are read back, for every base and width, all *)
(* limits that the code's numbers meet, and any number of integers.  A     *)
(* number is its digits (NumberExact, by induction over them); the low     *)
(* bits of the first byte survive the cut (LowBits), so each format is     *)
(* known again (ShortExact, TwoExact, FourExact, ReadExact).  The stream   *)
(* has no separators: CodecInv says that there are places where the        *)
(* integers stand, one behind the other, and that the reader is at one.    *)
(*                                                                         *)
(* And positions are Python's, for every text.  What becomes of the file   *)
(* is compared with it line by line (LinesAre), the line index finds the   *)
(* line of a place (LineOfIs), and columns count its characters            *)
(* (ColumnIs); their conversion changes nothing where the line is ASCII    *)
(* (ConvertExact) and keeps the order elsewhere (ConvertBound).  LInv says *)
(* of the stream that the integers in it are those of the nodes so far.    *)
(***************************************************************************)
EXTENDS Locations, SequenceTheorems, FiniteSetTheorems, TLAPS

\* What holds of 0 and with any number of the next holds up to n.
LEMMA UpTo ==
    ASSUME NEW n \in Nat, NEW S,
           0 \in S,
           \A k \in 0..(n - 1) : k \in S => k + 1 \in S
    PROVE  \A k \in 0..n : k \in S
<1> DEFINE R == OpToRel(<, Nat)
           T == (0..n) \ S
<1>1. \A i, j \in Nat : i < j => <<i, j>> \in R
  BY DEF OpToRel
<1>2. IsWellFoundedOn(R, Nat)
  BY NatLessThanWellFounded
<1> HIDE DEF R
<1>3. ASSUME T # {}
      PROVE  FALSE
  <2>1. T \in SUBSET Nat
    OBVIOUS
  <2>2. PICK m \in T : \A q \in T : ~(<<q, m>> \in R)
    BY <1>2, <1>3, <2>1, WFMin
  <2>3. m \in 0..n /\ m \notin S /\ m # 0
    BY <2>2
  <2>4. m - 1 \in 0..(n - 1) /\ m - 1 \in 0..n /\ m - 1 \in Nat /\ m \in Nat /\ m - 1 < m
    BY <2>3
  <2>5. <<m - 1, m>> \in R
    BY <1>1, <2>4
  <2>6. m - 1 \notin T
    BY <2>2, <2>5
  <2>7. m - 1 \in S
    BY <2>4, <2>6
  <2> HIDE DEF T
  <2>8. (m - 1) + 1 \in S
    BY <2>4, <2>7
  <2> QED
    BY <2>3, <2>8
<1> QED
  BY <1>3

-----------------------------------------------------------------------------
(* Arithmetic *)

\* A quotient and a remainder are the only ones.
LEMMA Unique ==
    ASSUME NEW b \in Nat \ {0}, NEW x \in Int, NEW q \in Int, NEW r \in 0..(b - 1), x = b * q + r
    PROVE  x \div b = q /\ x % b = r
  BY SMT

\* Division as the integers have it.
LEMMA Divides ==
    ASSUME NEW b \in Nat \ {0}, NEW x \in Int
    PROVE  x \div b \in Int /\ x % b \in 0..(b - 1) /\ x = (b * (x \div b)) + (x % b)
  BY SMT

\* The digit above p: two divisions are one.
LEMMA Nested ==
    ASSUME NEW p \in Nat \ {0}, NEW b \in Nat \ {0}, NEW x \in Int
    PROVE  x % (b * p) = (x % p) + ((x \div p) % b) * p
<1> DEFINE q == x \div p
           r == x % p
           d == q \div b
           e == q % b
<1>1. q \in Int /\ r \in 0..(p - 1) /\ x = (p * q) + r
  BY Divides
<1>2. d \in Int /\ e \in 0..(b - 1) /\ q = (b * d) + e
  BY <1>1, Divides
<1> HIDE DEF q, r, d, e
<1>3. b * p \in Nat \ {0}
  BY SMT
<1>4. x = ((b * p) * d) + (r + e * p)
  <2>1. p * q = (b * p) * d + e * p
    BY <1>1, <1>2, SMT
  <2> QED
    BY <1>1, <1>2, <2>1, <1>3, SMT
<1>5. r + e * p \in 0..((b * p) - 1)
  <2>1. e * p \in Nat
    BY <1>2, SMT
  <2>2. e * p <= (b - 1) * p
    BY <1>2, SMT
  <2>3. (b - 1) * p = (b * p) - p
    BY SMT
  <2> QED
    BY <1>1, <1>3, <2>1, <2>2, <2>3, SMT
<1>6. x % (b * p) = r + e * p
  BY <1>2, <1>3, <1>4, <1>5, Unique
<1> QED
  BY <1>6 DEF q, r, d, e

\* A multiple of 2, 4 and 8 does not change what is told by the low bits.
LEMMA LowBits ==
    ASSUME NEW x \in Nat
    PROVE  /\ (x % Base) % 2 = x % 2
           /\ (x % Base) % 4 = x % 4
           /\ (x % Base) % 8 = x % 8
<1> DEFINE k == Base \div 16
           q == x \div Base
           r == x % Base
<1>1. k \in Nat /\ Base = 16 * k /\ Base \in Nat \ {0}
  BY CodecAssumption
<1>2. q \in Int /\ r \in 0..(Base - 1) /\ x = (Base * q) + r
  BY <1>1, Divides
<1> HIDE DEF k, q, r
<1>3. k * q \in Int /\ x = (16 * (k * q)) + r
  BY <1>1, <1>2, SMT
<1> DEFINE m == k * q
<1> HIDE DEF m
<1>4. m \in Int /\ x = (16 * m) + r /\ r \in Int
  BY <1>2, <1>3 DEF m
<1>5. r % 2 = x % 2 /\ r % 4 = x % 4 /\ r % 8 = x % 8
  BY <1>4
<1> QED
  BY <1>5 DEF r
-----------------------------------------------------------------------------
(* Powers *)

\* The recursive function Power is what its definition says.
LEMMA PowerSteps ==
    /\ Power[0] = 1
    /\ \A n \in 1..8 : Power[n] = Base * Power[n - 1]
<1> DEFINE p1 == Base
           p2 == Base * p1
           p3 == Base * p2
           p4 == Base * p3
           p5 == Base * p4
           p6 == Base * p5
           p7 == Base * p6
           p8 == Base * p7
           M == [n \in 0..8 |-> CASE n = 0 -> 1 [] n = 1 -> p1 [] n = 2 -> p2 [] n = 3 -> p3
                                  [] n = 4 -> p4 [] n = 5 -> p5 [] n = 6 -> p6 [] n = 7 -> p7
                                  [] n = 8 -> p8]
           Step(f, n) == IF n = 0 THEN 1 ELSE Base * f[n - 1]
           Defines(f) == f = [n \in 0..8 |-> Step(f, n)]
<1>1. Base \in Nat
  BY CodecAssumption
<1>2. M = [n \in 0..8 |-> Step(M, n)]
  <2>1. p1 = Base * 1
    BY <1>1
  <2>2. p2 = Base * p1 /\ p3 = Base * p2 /\ p4 = Base * p3 /\ p5 = Base * p4 /\ p6 = Base * p5
        /\ p7 = Base * p6 /\ p8 = Base * p7
    OBVIOUS
  <2> HIDE DEF p1, p2, p3, p4, p5, p6, p7, p8
  <2>3. ASSUME NEW n \in 0..8
        PROVE  M[n] = Step(M, n)
    <3>1. n = 0 \/ n = 1 \/ n = 2 \/ n = 3 \/ n = 4 \/ n = 5 \/ n = 6 \/ n = 7 \/ n = 8
      OBVIOUS
    <3> QED
      BY <2>1, <2>2, <3>1
  <2> QED
    BY <2>3
<1>3. Power = CHOOSE f : Defines(f)
  BY DEF Power
<1>4. Defines(Power)
  <2>1. Defines(M)
    BY <1>2
  <2> HIDE DEF Defines, M
  <2>2. Defines(CHOOSE f : Defines(f))
    BY <2>1, Zenon
  <2> QED
    BY <1>3, <2>2, Zenon
<1> HIDE DEF M
<1> QED
  BY <1>4

LEMMA PowerType ==
    ASSUME NEW n \in 0..8
    PROVE  Power[n] \in Nat \ {0}
<1> DEFINE S == {k \in 0..8 : Power[k] \in Nat \ {0}}
<1>1. Base \in Nat \ {0}
  BY CodecAssumption
<1>2. 0 \in S
  BY PowerSteps
<1>3. ASSUME NEW k \in 0..7, k \in S
      PROVE  k + 1 \in S
  <2>1. Power[k + 1] = Base * Power[k] /\ k + 1 \in 0..8
    BY PowerSteps
  <2>2. Power[k] \in Nat \ {0}
    BY <1>3
  <2> HIDE DEF S
  <2> DEFINE p == Power[k]
  <2> HIDE DEF p
  <2>3. Base * p \in Nat \ {0}
    BY <1>1, <2>2 DEF p
  <2> QED
    BY <2>1, <2>3 DEF p, S
<1>4. \A k \in 0..8 : k \in S
  <2> HIDE DEF S
  <2> QED
    BY <1>2, <1>3, UpTo
<1> QED
  BY <1>4

\* The bytes of a number that fits into n of them give it back.
LEMMA NumberExact ==
    ASSUME NEW n \in 1..8, NEW x \in Nat, x < Power[n], NEW c \in Nat,
           \A k \in 1..n : bytes[c + k] = (x \div Power[k - 1]) % Base
    PROVE  Number(c, n) = x
<1> DEFINE Step(f, k) == IF k = 0 THEN 0 ELSE f[k - 1] + bytes[c + k] * Power[k - 1]
           low[k \in 0..n] == IF k = 0 THEN 0 ELSE low[k - 1] + bytes[c + k] * Power[k - 1]
           Defines(f) == f = [k \in 0..n |-> Step(f, k)]
           M == [k \in 0..n |-> x % Power[k]]
<1>1. Number(c, n) = low[n]
  BY DEF Number
<1>2. low = CHOOSE f : Defines(f)
  OBVIOUS
<1> HIDE DEF low
<1>3. ASSUME NEW k \in 0..n
      PROVE  M[k] = Step(M, k)
  <2>1. CASE k = 0
    <3>1. Power[0] = 1 /\ x % 1 = 0
      BY PowerSteps
    <3> QED
      BY <2>1, <3>1
  <2>2. CASE k # 0
    <3>1. k - 1 \in 0..8 /\ k - 1 \in 0..n /\ k \in 1..8 /\ k \in 1..n
      BY <2>2
    <3> DEFINE p == Power[k - 1]
    <3>2. p \in Nat \ {0} /\ Power[k] = Base * p
      BY <3>1, PowerType, PowerSteps
    <3>3. bytes[c + k] = (x \div p) % Base
      BY <3>1
    <3> HIDE DEF p
    <3>4. x % (Base * p) = (x % p) + ((x \div p) % Base) * p
      <4>1. Base \in Nat \ {0}
        BY CodecAssumption
      <4>2. p \in Nat \ {0}
        BY <3>2
      <4>3. x \in Int
        OBVIOUS
      <4> HIDE DEF M, Step
      <4> QED
        BY <4>1, <4>2, <4>3, Nested, Zenon
    <3>q. M[k] = x % (Base * p)
      <4>1. M[k] = x % Power[k]
        OBVIOUS
      <4> QED
        BY <3>2, <4>1, Zenon
    <3>5. M[k] = (x % p) + bytes[c + k] * p
      <4> HIDE DEF M
      <4> QED
        BY <3>3, <3>4, <3>q, Zenon
    <3>6. M[k - 1] = x % p
      BY <3>1 DEF p
    <3> HIDE DEF M
    <3> QED
      BY <2>2, <3>5, <3>6 DEF p
  <2> QED
    BY <2>1, <2>2
<1>4. Defines(M)
  <2>1. M = [k \in 0..n |-> M[k]]
    OBVIOUS
  <2> HIDE DEF M, Step
  <2> QED
    BY <1>3, <2>1
<1>5. Defines(low)
  <2> HIDE DEF Defines, M
  <2>2. Defines(CHOOSE f : Defines(f))
    BY <1>4, Zenon
  <2> QED
    BY <1>2, <2>2, Zenon
<1> DEFINE S == {k \in 0..n : low[k] = M[k]}
<1>6. 0 \in S
  <2>1. low[0] = Step(low, 0) /\ M[0] = Step(M, 0)
    BY <1>3, <1>5
  <2> QED
    BY <2>1
<1>7. ASSUME NEW k \in 0..(n - 1), k \in S
      PROVE  k + 1 \in S
  <2>1. k + 1 \in 0..n /\ k + 1 # 0 /\ (k + 1) - 1 = k
    OBVIOUS
  <2>2. low[k + 1] = Step(low, k + 1) /\ M[k + 1] = Step(M, k + 1)
    BY <1>3, <1>5, <2>1
  <2>3. low[k] = M[k]
    BY <1>7
  <2> HIDE DEF M, S
  <2>4. low[k + 1] = M[k + 1]
    BY <2>1, <2>2, <2>3
  <2> QED
    BY <2>1, <2>4 DEF S
<1>8. \A k \in 0..n : k \in S
  <2> HIDE DEF S
  <2> QED
    BY <1>6, <1>7, UpTo
<1>9. low[n] = x % Power[n]
  BY <1>8
<1>10. x % Power[n] = x
  <2> DEFINE p == Power[n]
  <2>1. p \in Nat \ {0} /\ x < p
    BY PowerType
  <2> HIDE DEF p
  <2>2. x % p = x
    BY <2>1
  <2> QED
    BY <2>2 DEF p
<1> QED
  BY <1>1, <1>9, <1>10
-----------------------------------------------------------------------------
(* One integer *)

\* The n low bytes of a number.
LEMMA Bytes ==
    ASSUME NEW x \in Int, NEW n \in 1..8
    PROVE  /\ LeBytes(x, n) \in Seq(Nat) /\ Len(LeBytes(x, n)) = n
           /\ \A k \in 1..n : LeBytes(x, n)[k] = (x \div Power[k - 1]) % Base
<1>1. Base \in Nat \ {0}
  BY CodecAssumption
<1>2. ASSUME NEW k \in 1..n
      PROVE  (x \div Power[k - 1]) % Base \in Nat
  <2> DEFINE p == Power[k - 1]
  <2>1. p \in Nat \ {0}
    BY PowerType
  <2> HIDE DEF p
  <2>2. x \div p \in Int
    BY <2>1, Divides
  <2>3. (x \div p) % Base \in 0..(Base - 1)
    BY <1>1, <2>2, Divides
  <2> QED
    BY <1>1, <2>3 DEF p
<1> DEFINE F == [k \in 1..n |-> (x \div Power[k - 1]) % Base]
<1>3. F \in [1..n -> Nat]
  BY <1>2
<1>4. F \in Seq(Nat) /\ Len(F) = n
  <2> HIDE DEF F
  <2> QED
    BY <1>3
<1>5. \A k \in 1..n : F[k] = (x \div Power[k - 1]) % Base
  OBVIOUS
<1> HIDE DEF F
<1> QED
  BY <1>4, <1>5 DEF F, LeBytes

\* The low byte of a number.
LEMMA FirstByte ==
    ASSUME NEW x \in Nat, NEW n \in 1..8
    PROVE  LeBytes(x, n)[1] = x % Base
<1>1. Power[0] = 1 /\ x \div 1 = x
  BY PowerSteps
<1>2. LeBytes(x, n)[1] = (x \div Power[1 - 1]) % Base
  <2>1. 1 \in 1..n /\ x \in Int
    OBVIOUS
  <2> QED
    BY <2>1, Bytes
<1> QED
  BY <1>1, <1>2

\* Written at c.
At(s, c) == \A k \in 1..Len(s) : bytes[c + k] = s[k]

\* A number written at c.
LEMMA NumberAt ==
    ASSUME NEW n \in 1..8, NEW x \in Nat, x < Power[n], NEW c \in Nat, At(LeBytes(x, n), c)
    PROVE  Number(c, n) = x /\ bytes[c + 1] = x % Base
<1>0. x \in Int
  OBVIOUS
<1>1. Len(LeBytes(x, n)) = n
  BY <1>0, Bytes
<1>2. \A k \in 1..n : bytes[c + k] = (x \div Power[k - 1]) % Base
  BY <1>0, <1>1, Bytes DEF At
<1>3. bytes[c + 1] = x % Base
  BY <1>1, FirstByte, SMTT(60) DEF At
<1> QED
  BY <1>2, <1>3, NumberExact

\* The powers the limits are made of divide evenly.
LEMMA Limits ==
    /\ Power[1] = Base /\ Base \in Nat \ {0}
    /\ Power[2] \in Nat \ {0} /\ Power[2] = 4 * (Power[2] \div 4)
    /\ Power[4] \in Nat \ {0} /\ Power[4] = 8 * (Power[4] \div 8)
<1> DEFINE k == Base \div 16
           p1 == Power[1]
           p3 == Power[3]
<1>1. k \in Nat /\ Base = 16 * k /\ Base \in Nat \ {0}
  BY CodecAssumption
<1>2. /\ Power[1] = Base * Power[0] /\ Power[0] = 1
      /\ Power[2] = Base * p1 /\ Power[4] = Base * p3
  BY PowerSteps
<1>3. p1 \in Nat /\ p3 \in Nat
  BY PowerType
<1> HIDE DEF k, p1, p3
<1>4. k * p1 \in Nat /\ Base * p1 = 16 * (k * p1)
  BY <1>1, <1>3, SMT
<1>5. k * p3 \in Nat /\ Base * p3 = 16 * (k * p3)
  BY <1>1, <1>3, SMT
<1> DEFINE a == k * p1
           b == k * p3
<1> HIDE DEF a, b
<1>6. a \in Nat /\ b \in Nat /\ Base * p1 = 16 * a /\ Base * p3 = 16 * b
  BY <1>4, <1>5 DEF a, b
<1>7. Power[2] = 16 * a /\ Power[4] = 16 * b
  BY <1>2, <1>6
<1>8. 16 * a = 4 * ((16 * a) \div 4) /\ 16 * b = 8 * ((16 * b) \div 8)
  BY <1>6
<1>9. Power[2] \in Nat \ {0} /\ Power[4] \in Nat \ {0}
  BY PowerType
<1> QED
  BY <1>1, <1>2, <1>7, <1>8, <1>9

\* Each of the three short formats is known by its first byte and read back.
LEMMA ShortExact ==
    ASSUME NEW i \in Int, IsShort(i), NEW c \in Nat, At(Fixed(i), c)
    PROVE  /\ Fixed(i) \in Seq(Nat) /\ Len(Fixed(i)) = 1
           /\ bytes[c + 1] # LONG_INT_TRAILER
           /\ FixedLength(c) = 1 /\ FixedValue(c) = i
<1> DEFINE x == (i - MIN_SHORT_INT) * 2
<1>1. Fixed(i) = LeBytes(x, 1)
  BY DEF Fixed
<1>2. x \in Nat /\ x < Power[1] /\ x % 2 = 0 /\ x % 4 # 1 /\ MIN_SHORT_INT + x \div 2 = i
  <2>1. MIN_SHORT_INT \in Int /\ MIN_SHORT_INT <= i /\ i < Base \div 2 + MIN_SHORT_INT
    BY CodecAssumption DEF IsShort
  <2>2. 2 * (Base \div 2) <= Base /\ Base \div 2 \in Int
    BY Limits
  <2>3. x \in Nat /\ x < Base
    BY <2>1, <2>2, Limits
  <2> QED
    BY <2>1, <2>3, Limits
<1> HIDE DEF x
<1>3. /\ LeBytes(x, 1) \in Seq(Nat) /\ Len(LeBytes(x, 1)) = 1
      /\ Number(c, 1) = x /\ bytes[c + 1] = x % Base
  <2>1. x \in Int /\ 1 \in 1..8
    BY <1>2
  <2>2. LeBytes(x, 1) \in Seq(Nat) /\ Len(LeBytes(x, 1)) = 1
    BY <2>1, Bytes
  <2>3. At(LeBytes(x, 1), c)
    BY <1>1
  <2>4. Number(c, 1) = x /\ bytes[c + 1] = x % Base
    BY <1>2, <2>3, NumberAt
  <2> QED
    BY <2>2, <2>4
<1>4. bytes[c + 1] % 2 = 0 /\ bytes[c + 1] % 4 # 1
  BY <1>2, <1>3, LowBits
<1>5. bytes[c + 1] # LONG_INT_TRAILER
  BY <1>4 DEF LONG_INT_TRAILER
<1>6. FixedLength(c) = 1
  BY <1>4 DEF FixedLength
<1>7. FixedValue(c) = MIN_SHORT_INT + Number(c, 1) \div 2
  BY <1>6 DEF FixedValue
<1> QED
  BY <1>1, <1>2, <1>3, <1>5, <1>6, <1>7

LEMMA TwoExact ==
    ASSUME NEW i \in Int, ~IsShort(i), IsTwo(i), NEW c \in Nat, At(Fixed(i), c)
    PROVE  /\ Fixed(i) \in Seq(Nat) /\ Len(Fixed(i)) = 2
           /\ bytes[c + 1] # LONG_INT_TRAILER
           /\ FixedLength(c) = 2 /\ FixedValue(c) = i
<1> DEFINE x == (i - MIN_TWO_BYTES_INT) * 4 + 1
<1>1. Fixed(i) = LeBytes(x, 2)
  BY DEF Fixed
<1>2. x \in Nat /\ x < Power[2] /\ x % 2 = 1 /\ x % 4 = 1 /\ MIN_TWO_BYTES_INT + x \div 4 = i
  <2> DEFINE q == Power[2] \div 4
  <2>0. Power[2] = 4 * q /\ q \in Nat
    BY Limits
  <2> HIDE DEF q
  <2>1. /\ MIN_TWO_BYTES_INT \in Int /\ MIN_TWO_BYTES_INT <= i
        /\ i <= MIN_TWO_BYTES_INT + q - 1
    BY CodecAssumption DEF IsTwo, MAX_TWO_BYTES_INT, q
  <2> QED
    BY <2>0, <2>1
<1> HIDE DEF x
<1>3. /\ LeBytes(x, 2) \in Seq(Nat) /\ Len(LeBytes(x, 2)) = 2
      /\ Number(c, 2) = x /\ bytes[c + 1] = x % Base
  <2>1. x \in Int /\ 2 \in 1..8
    BY <1>2
  <2>2. LeBytes(x, 2) \in Seq(Nat) /\ Len(LeBytes(x, 2)) = 2
    BY <2>1, Bytes
  <2>3. At(LeBytes(x, 2), c)
    BY <1>1
  <2>4. Number(c, 2) = x /\ bytes[c + 1] = x % Base
    BY <1>2, <2>3, NumberAt
  <2> QED
    BY <2>2, <2>4
<1>4. bytes[c + 1] % 2 = 1 /\ bytes[c + 1] % 4 = 1
  BY <1>2, <1>3, LowBits
<1>5. bytes[c + 1] # LONG_INT_TRAILER
  BY <1>4 DEF LONG_INT_TRAILER
<1>6. FixedLength(c) = 2
  BY <1>4 DEF FixedLength
<1>7. FixedValue(c) = MIN_TWO_BYTES_INT + Number(c, 2) \div 4
  BY <1>6 DEF FixedValue
<1> QED
  BY <1>1, <1>2, <1>3, <1>5, <1>6, <1>7

LEMMA FourExact ==
    ASSUME NEW i \in Int, ~IsShort(i), ~IsTwo(i), IsFour(i), NEW c \in Nat, At(Fixed(i), c)
    PROVE  /\ Fixed(i) \in Seq(Nat) /\ Len(Fixed(i)) = 4
           /\ bytes[c + 1] # LONG_INT_TRAILER
           /\ FixedLength(c) = 4 /\ FixedValue(c) = i
<1> DEFINE x == (i - MIN_FOUR_BYTES_INT) * 8 + 3
<1>1. Fixed(i) = LeBytes(x, 4)
  BY DEF Fixed
<1>2. x \in Nat /\ x < Power[4] /\ x % 2 = 1 /\ x % 4 = 3 /\ x % 8 = 3
      /\ MIN_FOUR_BYTES_INT + x \div 8 = i
  <2> DEFINE q == Power[4] \div 8
  <2>0. Power[4] = 8 * q /\ q \in Nat
    BY Limits
  <2> HIDE DEF q
  <2>1. /\ MIN_FOUR_BYTES_INT \in Int /\ MIN_FOUR_BYTES_INT <= i
        /\ i <= MIN_FOUR_BYTES_INT + q - 1
    BY CodecAssumption DEF IsFour, MAX_FOUR_BYTES_INT, q
  <2> QED
    BY <2>0, <2>1
<1> HIDE DEF x
<1>3. /\ LeBytes(x, 4) \in Seq(Nat) /\ Len(LeBytes(x, 4)) = 4
      /\ Number(c, 4) = x /\ bytes[c + 1] = x % Base
  <2>1. x \in Int /\ 4 \in 1..8
    BY <1>2
  <2>2. LeBytes(x, 4) \in Seq(Nat) /\ Len(LeBytes(x, 4)) = 4
    BY <2>1, Bytes
  <2>3. At(LeBytes(x, 4), c)
    BY <1>1
  <2>4. Number(c, 4) = x /\ bytes[c + 1] = x % Base
    BY <1>2, <2>3, NumberAt
  <2> QED
    BY <2>2, <2>4
<1>4. bytes[c + 1] % 2 = 1 /\ bytes[c + 1] % 4 = 3 /\ bytes[c + 1] % 8 = 3
  BY <1>2, <1>3, LowBits
<1>5. bytes[c + 1] # LONG_INT_TRAILER
  BY <1>4 DEF LONG_INT_TRAILER
<1>6. FixedLength(c) = 4
  BY <1>4 DEF FixedLength
<1>7. FixedValue(c) = MIN_FOUR_BYTES_INT + Number(c, 4) \div 8
  BY <1>6 DEF FixedValue
<1> QED
  BY <1>1, <1>2, <1>3, <1>5, <1>6, <1>7

\* A short format, whichever it is.
LEMMA FixedExact ==
    ASSUME NEW i \in Int, IsShort(i) \/ IsTwo(i) \/ IsFour(i), NEW c \in Nat, At(Fixed(i), c)
    PROVE  /\ Fixed(i) \in Seq(Nat) /\ Len(Fixed(i)) \in {1, 2, 4}
           /\ bytes[c + 1] # LONG_INT_TRAILER
           /\ FixedLength(c) = Len(Fixed(i)) /\ FixedValue(c) = i
<1>1. CASE IsShort(i)
  BY <1>1, ShortExact
<1>2. CASE ~IsShort(i) /\ IsTwo(i)
  BY <1>2, TwoExact
<1>3. CASE ~IsShort(i) /\ ~IsTwo(i) /\ IsFour(i)
  BY <1>3, FourExact
<1> QED
  BY <1>1, <1>2, <1>3

\* What fits into an i64 has as many bytes as its length says.
LEMMA SignificantExact ==
    ASSUME NEW i \in I64
    PROVE  /\ i \in Int /\ Abs(i) \in Nat
           /\ Significant(Abs(i)) \in 1..Width /\ Abs(i) < Power[Significant(Abs(i))]
<1> DEFINE x == Abs(i)
           P == Power[Width]
<1>0. Width \in 4..8
  BY CodecAssumption
<1>1. P \in Nat \ {0}
  BY <1>0, PowerType
<1>2. i \in Int /\ x \in Nat /\ x < P
  <2> HIDE DEF P
  <2>1. i \in -(P \div 2) .. P \div 2 - 1
    BY DEF I64, P
  <2> QED
    BY <1>1, <2>1 DEF Abs
<1> HIDE DEF x
<1>3. \E n \in 1..Width : x < Power[n] /\ (n = 1 \/ Power[n - 1] <= x)
  <2> SUFFICES ASSUME \A n \in 1..Width : ~(x < Power[n] /\ (n = 1 \/ Power[n - 1] <= x))
               PROVE  FALSE
    OBVIOUS
  <2> DEFINE S == {k \in 0..Width : k = 0 \/ Power[k] <= x}
  <2>1. 0 \in S
    BY <1>0
  <2>2. ASSUME NEW k \in 0..(Width - 1), k \in S
        PROVE  k + 1 \in S
    <3>1. k + 1 \in 1..Width /\ k + 1 \in 0..8 /\ (k + 1) - 1 = k
      BY <1>0
    <3>2. k = 0 \/ Power[k] <= x
      BY <2>2
    <3>3. k + 1 = 1 \/ Power[(k + 1) - 1] <= x
      BY <3>1, <3>2
    <3>4. ~(x < Power[k + 1])
      BY <3>1, <3>3
    <3>5. Power[k + 1] \in Nat
      BY <3>1, PowerType
    <3> QED
      BY <1>2, <3>1, <3>4, <3>5
  <2>3. \A k \in 0..Width : k \in S
    <3>1. Width \in Nat
      BY <1>0
    <3> HIDE DEF S
    <3> QED
      BY <2>1, <2>2, <3>1, UpTo
  <2>4. P <= x
    <3>1. Width \in S /\ Width # 0
      BY <1>0, <2>3
    <3> QED
      BY <3>1
  <2> QED
    BY <1>1, <1>2, <2>4
<1>4. Significant(x) \in 1..Width /\ x < Power[Significant(x)]
  BY <1>3 DEF Significant
<1> QED
  BY <1>2, <1>4 DEF x

\* One sequence after another.
LEMMA Concat ==
    ASSUME NEW T, NEW s \in Seq(T), NEW t \in Seq(T)
    PROVE  /\ s \o t \in Seq(T) /\ Len(s \o t) = Len(s) + Len(t)
           /\ Len(s) \in Nat /\ Len(t) \in Nat
           /\ \A k \in 1..Len(s) : (s \o t)[k] = s[k]
           /\ \A k \in 1..Len(t) : (s \o t)[Len(s) + k] = t[k]
<1>1. Len(s) \in Nat /\ Len(t) \in Nat
  BY LenProperties
<1>2. /\ s \o t \in Seq(T) /\ Len(s \o t) = Len(s) + Len(t)
      /\ \A i \in 1..(Len(s) + Len(t)) :
            (s \o t)[i] = IF i <= Len(s) THEN s[i] ELSE t[i - Len(s)]
  BY ConcatProperties
<1>3. ASSUME NEW k \in 1..Len(s)
      PROVE  (s \o t)[k] = s[k]
  BY <1>1, <1>2
<1>4. ASSUME NEW k \in 1..Len(t)
      PROVE  (s \o t)[Len(s) + k] = t[k]
  <2>1. Len(s) + k \in 1..(Len(s) + Len(t)) /\ ~(Len(s) + k <= Len(s)) /\ (Len(s) + k) - Len(s) = k
    BY <1>1
  <2> QED
    BY <1>2, <2>1
<1> QED
  BY <1>1, <1>2, <1>3, <1>4

\* An integer written at c is read there, and no more bytes than it has.
LEMMA ReadExact ==
    ASSUME NEW i \in I64, NEW c \in Nat, At(WriteInt(i), c)
    PROVE  /\ WriteInt(i) \in Seq(Nat) /\ Len(WriteInt(i)) \in Nat \ {0}
           /\ ReadInt(c) = [value |-> i, length |-> Len(WriteInt(i))]
<1>0. i \in Int
  BY SignificantExact
<1>1. CASE IsShort(i) \/ IsTwo(i) \/ IsFour(i)
  <2>1. WriteInt(i) = Fixed(i)
    BY <1>1 DEF WriteInt
  <2>2. /\ Fixed(i) \in Seq(Nat) /\ Len(Fixed(i)) \in {1, 2, 4}
        /\ bytes[c + 1] # LONG_INT_TRAILER
        /\ FixedLength(c) = Len(Fixed(i)) /\ FixedValue(c) = i
    <3>1. At(Fixed(i), c)
      BY <2>1
    <3> QED
      BY <1>0, <1>1, <3>1, FixedExact
  <2>3. ReadInt(c) = [value |-> i, length |-> Len(Fixed(i))]
    BY <2>2 DEF ReadInt
  <2> QED
    BY <2>1, <2>2, <2>3
<1>2. CASE ~(IsShort(i) \/ IsTwo(i) \/ IsFour(i))
  <2> DEFINE x == Abs(i)
             n == Significant(Abs(i))
             neg == IF i < 0 THEN 1 ELSE 0
             h == 2 * n + neg
             low == LeBytes(x, n)
  <2>1. WriteInt(i) = <<LONG_INT_TRAILER>> \o Fixed(h) \o low
    BY <1>2 DEF WriteInt
  <2>2. x \in Nat /\ n \in 1..Width /\ n \in 1..8 /\ x < Power[n] /\ neg \in {0, 1}
    BY SignificantExact, CodecAssumption
  <2>3. i = IF neg = 1 THEN -x ELSE x
    BY <1>0 DEF Abs
  <2> HIDE DEF x, n, neg
  <2>4. h \in Int /\ IsShort(h) /\ h \div 2 = n /\ h % 2 = neg
    <3>1. MIN_SHORT_INT \in Int /\ Width \in Nat /\ 2 * Width + 1 < Base \div 2 + MIN_SHORT_INT
          /\ MIN_SHORT_INT <= 0 /\ Base \in Nat
      BY CodecAssumption
    <3>2. h \in Int /\ MIN_SHORT_INT <= h /\ h < Base \div 2 + MIN_SHORT_INT
      BY <2>2, <3>1
    <3>3. h \div 2 = n /\ h % 2 = neg
      BY <2>2
    <3> QED
      BY <3>2, <3>3 DEF IsShort
  <2> HIDE DEF h
  <2>5. low \in Seq(Nat) /\ Len(low) = n
    <3>1. x \in Int
      BY <2>2
    <3> QED
      BY <2>2, <3>1, Bytes
  <2>6. Fixed(h) \in Seq(Nat) /\ Len(Fixed(h)) = 1
    <3>1. Fixed(h) = LeBytes((h - MIN_SHORT_INT) * 2, 1)
      BY <2>4 DEF Fixed
    <3>2. (h - MIN_SHORT_INT) * 2 \in Int /\ 1 \in 1..8
      BY <2>4, CodecAssumption
    <3> QED
      BY <3>1, <3>2, Bytes
  <2> HIDE DEF low
  <2>7. /\ WriteInt(i) \in Seq(Nat) /\ Len(WriteInt(i)) = n + 2
        /\ WriteInt(i)[1] = LONG_INT_TRAILER /\ WriteInt(i)[2] = Fixed(h)[1]
        /\ \A k \in 1..n : WriteInt(i)[2 + k] = low[k]
    <3>1. <<LONG_INT_TRAILER>> \in Seq(Nat)
      BY DEF LONG_INT_TRAILER
    <3> DEFINE t == <<LONG_INT_TRAILER>>
               u == t \o Fixed(h)
    <3>2. t \in Seq(Nat) /\ Len(t) = 1 /\ t[1] = LONG_INT_TRAILER
      BY <3>1
    <3> HIDE DEF t
    <3>3. /\ u \in Seq(Nat) /\ Len(u) = 2 /\ u[1] = LONG_INT_TRAILER /\ u[2] = Fixed(h)[1]
      <4>1. /\ u \in Seq(Nat) /\ Len(u) = 1 + 1
            /\ \A k \in 1..1 : u[k] = t[k]
            /\ \A k \in 1..1 : u[1 + k] = Fixed(h)[k]
        BY <2>6, <3>2, Concat, SMTT(60)
      <4> QED
        BY <3>2, <4>1
    <3> HIDE DEF u
    <3>4. WriteInt(i) = u \o low
      BY <2>1 DEF u, t
    <3> QED
      <4>1. /\ u \o low \in Seq(Nat) /\ Len(u \o low) = 2 + n
            /\ \A k \in 1..2 : (u \o low)[k] = u[k]
            /\ \A k \in 1..n : (u \o low)[2 + k] = low[k]
        <5>1. /\ u \o low \in Seq(Nat) /\ Len(u \o low) = Len(u) + Len(low)
              /\ \A k \in 1..Len(u) : (u \o low)[k] = u[k]
              /\ \A k \in 1..Len(low) : (u \o low)[Len(u) + k] = low[k]
          <6>1. u \in Seq(Nat) /\ low \in Seq(Nat)
            BY <2>5, <3>3
          <6>2. ASSUME NEW a \in Seq(Nat), NEW b \in Seq(Nat)
                PROVE  /\ a \o b \in Seq(Nat) /\ Len(a \o b) = Len(a) + Len(b)
                       /\ \A k \in 1..Len(a) : (a \o b)[k] = a[k]
                       /\ \A k \in 1..Len(b) : (a \o b)[Len(a) + k] = b[k]
            BY Concat
          <6> QED
            BY <6>1, <6>2
        <5>2. Len(u) = 2 /\ Len(low) = n
          BY <2>5, <3>3
        <5> QED
          BY <5>1, <5>2
      <4>2. n \in Nat /\ 2 + n = n + 2 /\ 1 \in 1..2 /\ 2 \in 1..2
        BY <2>2
      <4> DEFINE w == u \o low
      <4> HIDE DEF w
      <4>3. /\ w \in Seq(Nat) /\ Len(w) = n + 2
            /\ w[1] = u[1] /\ w[2] = u[2]
            /\ \A k \in 1..n : w[2 + k] = low[k]
        BY <4>1, <4>2 DEF w
      <4>4. WriteInt(i) = w
        BY <3>4 DEF w
      <4> QED
        BY <3>3, <4>3, <4>4
  <2>8. bytes[c + 1] = LONG_INT_TRAILER
    BY <2>2, <2>7 DEF At
  <2>9. At(Fixed(h), c + 1)
    <3>1. bytes[c + 2] = WriteInt(i)[2]
      BY <2>2, <2>7 DEF At
    <3>2. (c + 1) + 1 = c + 2
      OBVIOUS
    <3> QED
      BY <2>6, <2>7, <3>1, <3>2 DEF At
  <2>10. At(low, c + 2)
    <3>1. ASSUME NEW k \in 1..n
          PROVE  bytes[(c + 2) + k] = low[k]
      <4>0. n \in Nat /\ k \in Nat /\ 1 <= k /\ k <= n /\ Len(WriteInt(i)) = n + 2
        BY <2>2, <2>7
      <4>1. 2 + k \in 1..Len(WriteInt(i)) /\ c + (2 + k) = (c + 2) + k
        BY <4>0
      <4>2. bytes[c + (2 + k)] = WriteInt(i)[2 + k]
        BY <4>1 DEF At
      <4> QED
        BY <2>7, <4>1, <4>2
    <3> QED
      BY <2>5, <3>1 DEF At
  <2>11. FixedValue(c + 1) = h /\ FixedLength(c + 1) = 1
    <3>1. c + 1 \in Nat
      OBVIOUS
    <3> QED
      BY <2>4, <2>6, <2>9, <3>1, ShortExact
  <2>12. Number(c + 2, n) = x
    <3>1. c + 2 \in Nat
      OBVIOUS
    <3> QED
      BY <2>2, <2>10, <3>1, NumberAt DEF low
  <2>13. ReadInt(c) = [value |-> IF h % 2 = 1 THEN -x ELSE x, length |-> n + 2]
    <3>1. (c + 1) + 1 = c + 2 /\ (c + 2) + n - c = n + 2
      BY <2>2
    <3> QED
      BY <2>4, <2>8, <2>11, <2>12, <3>1 DEF ReadInt
  <2> QED
    BY <2>2, <2>3, <2>4, <2>7, <2>13
<1> QED
  BY <1>1, <1>2

\* An integer takes a byte at least.
LEMMA WriteType ==
    ASSUME NEW i \in I64
    PROVE  WriteInt(i) \in Seq(Nat) /\ Len(WriteInt(i)) \in Nat \ {0}
<1>0. i \in Int /\ MIN_SHORT_INT \in Int /\ MIN_TWO_BYTES_INT \in Int /\ MIN_FOUR_BYTES_INT \in Int
  BY SignificantExact, CodecAssumption
<1>1. ASSUME NEW j \in Int
      PROVE  Fixed(j) \in Seq(Nat) /\ Len(Fixed(j)) \in Nat \ {0}
  <2>1. CASE IsShort(j)
    <3>1. Fixed(j) = LeBytes((j - MIN_SHORT_INT) * 2, 1)
      BY <2>1 DEF Fixed
    <3> DEFINE x == (j - MIN_SHORT_INT) * 2
    <3>2. x \in Int /\ 1 \in 1..8
      BY <1>0
    <3> HIDE DEF x
    <3>3. LeBytes(x, 1) \in Seq(Nat) /\ Len(LeBytes(x, 1)) = 1
      BY <3>2, Bytes
    <3>4. Fixed(j) = LeBytes(x, 1)
      BY <3>1 DEF x
    <3>5. Fixed(j) \in Seq(Nat) /\ Len(Fixed(j)) = 1
      BY <3>3, <3>4, Zenon
    <3> QED
      BY <3>5
  <2>2. CASE ~IsShort(j) /\ IsTwo(j)
    <3>1. Fixed(j) = LeBytes((j - MIN_TWO_BYTES_INT) * 4 + 1, 2)
      BY <2>2 DEF Fixed
    <3> DEFINE x == (j - MIN_TWO_BYTES_INT) * 4 + 1
    <3>2. x \in Int /\ 2 \in 1..8
      BY <1>0
    <3> HIDE DEF x
    <3>3. LeBytes(x, 2) \in Seq(Nat) /\ Len(LeBytes(x, 2)) = 2
      BY <3>2, Bytes
    <3>4. Fixed(j) = LeBytes(x, 2)
      BY <3>1 DEF x
    <3>5. Fixed(j) \in Seq(Nat) /\ Len(Fixed(j)) = 2
      BY <3>3, <3>4, Zenon
    <3> QED
      BY <3>5
  <2>3. CASE ~IsShort(j) /\ ~IsTwo(j)
    <3>1. Fixed(j) = LeBytes((j - MIN_FOUR_BYTES_INT) * 8 + 3, 4)
      BY <2>3 DEF Fixed
    <3> DEFINE x == (j - MIN_FOUR_BYTES_INT) * 8 + 3
    <3>2. x \in Int /\ 4 \in 1..8
      BY <1>0
    <3> HIDE DEF x
    <3>3. LeBytes(x, 4) \in Seq(Nat) /\ Len(LeBytes(x, 4)) = 4
      BY <3>2, Bytes
    <3>4. Fixed(j) = LeBytes(x, 4)
      BY <3>1 DEF x
    <3>5. Fixed(j) \in Seq(Nat) /\ Len(Fixed(j)) = 4
      BY <3>3, <3>4, Zenon
    <3> QED
      BY <3>5
  <2> QED
    BY <2>1, <2>2, <2>3
<1>2. CASE IsShort(i) \/ IsTwo(i) \/ IsFour(i)
  BY <1>0, <1>1, <1>2 DEF WriteInt
<1>3. CASE ~(IsShort(i) \/ IsTwo(i) \/ IsFour(i))
  <2> DEFINE n == Significant(Abs(i))
             h == 2 * n + (IF i < 0 THEN 1 ELSE 0)
             low == LeBytes(Abs(i), n)
             t == <<LONG_INT_TRAILER>>
  <2>1. WriteInt(i) = (t \o Fixed(h)) \o low
    BY <1>3 DEF WriteInt
  <2>2. Abs(i) \in Int /\ n \in 1..8
    BY SignificantExact, CodecAssumption
  <2>3. h \in Int
    BY <2>2
  <2>4. low \in Seq(Nat) /\ Len(low) \in Nat
    <3> DEFINE x == Abs(i)
    <3> HIDE DEF n, x
    <3>1. LeBytes(x, n) \in Seq(Nat) /\ Len(LeBytes(x, n)) = n
      BY <2>2, Bytes DEF x
    <3> QED
      BY <2>2, <3>1 DEF x
  <2>5. t \in Seq(Nat) /\ Len(t) = 1
    BY DEF LONG_INT_TRAILER
  <2>6. Fixed(h) \in Seq(Nat) /\ Len(Fixed(h)) \in Nat
    BY <1>1, <2>3
  <2> HIDE DEF n, h, low, t
  <2> QED
    BY <2>1, <2>4, <2>5, <2>6
<1> QED
  BY <1>2, <1>3
-----------------------------------------------------------------------------
(* The stream *)

TypeInv ==
    /\ written \in Seq(I64)
    /\ bytes \in Seq(Nat)
    /\ read \in Seq(Int)
    /\ cursor \in Nat

\* The integers of w stand one after the other in b, the j-th from at[j - 1] on.
Laid(w, b, at) ==
    /\ at[0] = 0 /\ at[Len(w)] = Len(b)
    /\ \A j \in 1..Len(w) :
          /\ at[j] = at[j - 1] + Len(WriteInt(w[j]))
          /\ \A k \in 1..Len(WriteInt(w[j])) : b[at[j - 1] + k] = WriteInt(w[j])[k]
Lays(at) == Laid(written, bytes, at)

\* The reader stands behind an integer, and has read those before.
CodecInv ==
    /\ TypeInv
    /\ \E at \in [0..Len(written) -> Nat] :
          /\ Lays(at)
          /\ Len(read) <= Len(written) /\ cursor = at[Len(read)]
          /\ \A j \in 1..Len(read) : read[j] = written[j]

\* Every integer takes a byte at least.
LEMMA Increasing ==
    ASSUME NEW w \in Seq(I64), NEW b \in Seq(Nat),
           NEW at \in [0..Len(w) -> Nat], Laid(w, b, at), NEW k \in 0..Len(w)
    PROVE  /\ at[k] <= Len(b)
           /\ at[k] = Len(b) => k = Len(w)
<1> DEFINE n == Len(w)
           S == {d \in 0..n : /\ at[n - d] <= Len(b)
                              /\ d # 0 => at[n - d] < Len(b)}
<1>0. n \in Nat /\ Len(b) \in Nat /\ \A j \in 0..n : at[j] \in Nat
  BY LenProperties
<1>1. 0 \in S
  BY <1>0 DEF Laid
<1>2. ASSUME NEW d \in 0..(n - 1), d \in S
      PROVE  d + 1 \in S
  <2> DEFINE j == n - d
  <2>1. j \in 1..n /\ j - 1 \in 0..n /\ n - (d + 1) = j - 1 /\ d + 1 \in 0..n /\ j \in 0..n
    BY <1>0
  <2>2. at[j] <= Len(b)
    BY <1>2
  <2> HIDE DEF j
  <2>3. at[j] = at[j - 1] + Len(WriteInt(w[j]))
    BY <2>1 DEF Laid
  <2>4. Len(WriteInt(w[j])) \in Nat \ {0}
    <3>1. w[j] \in I64
      BY <2>1, ElementOfSeq
    <3> QED
      BY <3>1, WriteType
  <2>5. at[j - 1] < Len(b)
    <3>1. at[j - 1] \in Nat /\ at[j] \in Nat /\ Len(b) \in Nat
      BY <1>0, <2>1
    <3> QED
      BY <2>2, <2>3, <2>4, <3>1
  <2>6. at[n - (d + 1)] < Len(b)
    BY <2>1, <2>5
  <2>7. at[n - (d + 1)] <= Len(b)
    <3>1. n - (d + 1) \in 0..n
      BY <2>1
    <3>2. at[n - (d + 1)] \in Nat /\ Len(b) \in Nat
      BY <1>0, <3>1
    <3> QED
      BY <2>6, <3>2
  <2>8. d + 1 \in 0..n
    BY <2>1
  <2> HIDE DEF n
  <2> QED
    BY <2>6, <2>7, <2>8, Zenon
<1>3. \A d \in 0..n : d \in S
  <2> HIDE DEF S, n
  <2> QED
    BY <1>0, <1>1, <1>2, UpTo
<1>4. n - k \in 0..n /\ n - (n - k) = k
  BY <1>0
<1>5. n - k \in S
  BY <1>3, <1>4
<1>6. /\ at[k] <= Len(b)
      /\ n - k # 0 => at[k] < Len(b)
  BY <1>4, <1>5
<1> QED
  BY <1>0, <1>4, <1>6

LEMMA CodecInit == Init => CodecInv
<1> SUFFICES ASSUME Init PROVE CodecInv
  OBVIOUS
<1> DEFINE at == [k \in 0..0 |-> 0]
<1>1. TypeInv
  BY DEF Init, TypeInv
<1>2. Len(written) = 0 /\ Len(read) = 0 /\ Len(bytes) = 0 /\ cursor = 0
  BY DEF Init
<1>3. at \in [0..Len(written) -> Nat]
  BY <1>2
<1>4. Lays(at)
  BY <1>2 DEF Lays, Laid
<1> QED
  BY <1>1, <1>2, <1>3, <1>4 DEF CodecInv

\* Sequences of integers and of bytes of which one is the other written.
InRow(w, b) == /\ w \in Seq(I64) /\ b \in Seq(Nat)
               /\ \E at \in [0..Len(w) -> Nat] : Laid(w, b, at)

\* A new integer stands behind all others.
LEMMA OneMore ==
    ASSUME NEW w, NEW b, InRow(w, b), NEW i \in I64
    PROVE  InRow(Append(w, i), b \o WriteInt(i))
<1> DEFINE n == Len(w)
           e == WriteInt(i)
           v == Append(w, i)
           c == b \o e
<1>1. PICK at \in [0..n -> Nat] : Laid(w, b, at)
  BY DEF InRow
<1>2. w \in Seq(I64) /\ b \in Seq(Nat)
  BY DEF InRow
<1>3. e \in Seq(Nat) /\ Len(e) \in Nat \ {0}
  BY WriteType
<1> HIDE DEF e
<1>5. /\ n \in Nat /\ Len(b) \in Nat /\ v \in Seq(I64)
      /\ Len(v) = n + 1 /\ v[n + 1] = i
      /\ \A j \in 1..n : v[j] = w[j]
  BY <1>2, AppendProperties, LenProperties
<1>6. /\ Len(c) = Len(b) + Len(e)
      /\ \A k \in 1..Len(b) : c[k] = b[k]
      /\ \A k \in 1..Len(e) : c[Len(b) + k] = e[k]
      /\ c \in Seq(Nat)
  BY <1>2, <1>3, Concat
<1> HIDE DEF v, c, n
<1>8. PICK next \in [0..(n + 1) -> Nat] :
         (\A k \in 0..n : next[k] = at[k]) /\ next[n + 1] = Len(b) + Len(e)
  <2> DEFINE f == [k \in 0..(n + 1) |-> IF k <= n THEN at[k] ELSE Len(b) + Len(e)]
  <2>1. /\ f \in [0..(n + 1) -> Nat]
        /\ (\A k \in 0..n : f[k] = at[k]) /\ f[n + 1] = Len(b) + Len(e)
    BY <1>3, <1>5
  <2> QED
    BY <2>1
<1>9. at[0] = 0 /\ at[n] = Len(b) /\ 0 \in 0..n /\ n \in 0..n
  BY <1>1, <1>5 DEF Laid, n
<1>10. next[0] = 0 /\ next[n + 1] = Len(c)
  BY <1>6, <1>8, <1>9
<1>11. ASSUME NEW j \in 1..n
       PROVE  /\ next[j] = next[j - 1] + Len(WriteInt(v[j]))
              /\ \A k \in 1..Len(WriteInt(v[j])) : c[next[j - 1] + k] = WriteInt(v[j])[k]
  <2>1. next[j] = at[j] /\ next[j - 1] = at[j - 1] /\ v[j] = w[j] /\ j \in 0..n /\ j - 1 \in 0..n
    BY <1>5, <1>8
  <2> DEFINE u == WriteInt(w[j])
  <2>2. at[j] = at[j - 1] + Len(u) /\ \A k \in 1..Len(u) : b[at[j - 1] + k] = u[k]
    BY <1>1 DEF Laid, n
  <2>3. at[j] <= Len(b) /\ at[j] \in Nat /\ at[j - 1] \in Nat
    BY <1>1, <1>2, <2>1, Increasing DEF n
  <2>4. Len(u) \in Nat
    <3>1. w[j] \in I64
      BY <1>2, ElementOfSeq DEF n
    <3> QED
      BY <3>1, WriteType
  <2> HIDE DEF u
  <2>5. \A k \in 1..Len(u) : at[j - 1] + k \in 1..Len(b)
    <3> TAKE k \in 1..Len(u)
    <3> DEFINE p == at[j - 1]
               q == at[j]
               x == Len(u)
               y == Len(b)
    <3>1. p \in Nat /\ q \in Nat /\ q <= y /\ q = p + x /\ x \in Nat /\ y \in Nat
      BY <1>5, <2>2, <2>3, <2>4, Zenon
    <3>2. k \in 1..x
      OBVIOUS
    <3> HIDE DEF p, q, x, y
    <3>3. p + k \in 1..y
      BY <3>1, <3>2
    <3> QED
      BY <3>3 DEF p, y
  <2>6. \A k \in 1..Len(u) : c[at[j - 1] + k] = u[k]
    BY <1>6, <2>2, <2>5
  <2> QED
    BY <2>1, <2>2, <2>6 DEF u
<1>12. /\ next[n + 1] = next[n] + Len(WriteInt(v[n + 1]))
       /\ \A k \in 1..Len(WriteInt(v[n + 1])) : c[next[n] + k] = WriteInt(v[n + 1])[k]
  <2>1. next[n] = Len(b) /\ next[n + 1] = Len(b) + Len(e)
    BY <1>8, <1>9
  <2>2. WriteInt(v[n + 1]) = e
    BY <1>5 DEF e
  <2> QED
    BY <1>6, <2>1, <2>2
<1>13. ASSUME NEW j \in 1..(n + 1)
       PROVE  /\ next[j] = next[j - 1] + Len(WriteInt(v[j]))
              /\ \A k \in 1..Len(WriteInt(v[j])) : c[next[j - 1] + k] = WriteInt(v[j])[k]
  <2>1. CASE j \in 1..n
    BY <1>11, <2>1
  <2>2. CASE j = n + 1
    <3>1. j - 1 = n
      BY <1>5, <2>2
    <3> QED
      BY <1>12, <2>2, <3>1
  <2> QED
    BY <1>5, <2>1, <2>2
<1>14. Laid(v, c, next)
  BY <1>5, <1>10, <1>13 DEF Laid
<1>15. next \in [0..Len(v) -> Nat]
  BY <1>5, <1>8
<1>16. InRow(v, c)
  BY <1>5, <1>6, <1>14, <1>15 DEF InRow
<1> QED
  BY <1>16 DEF v, c, e

\* A stream of which nothing is read.
LEMMA Unread ==
    /\ CodecInv => InRow(written, bytes)
    /\ InRow(written, bytes) /\ read = << >> /\ cursor = 0 => CodecInv
<1>1. ASSUME CodecInv
      PROVE  InRow(written, bytes)
  <2>1. written \in Seq(I64) /\ bytes \in Seq(Nat)
    BY <1>1 DEF CodecInv, TypeInv
  <2>2. \E at \in [0..Len(written) -> Nat] : Laid(written, bytes, at)
    BY <1>1 DEF CodecInv, Lays
  <2> QED
    BY <2>1, <2>2 DEF InRow
<1>2. ASSUME InRow(written, bytes), read = << >>, cursor = 0
      PROVE  CodecInv
  <2>1. PICK at \in [0..Len(written) -> Nat] : Laid(written, bytes, at)
    BY <1>2 DEF InRow
  <2>2. TypeInv
    <3>1. << >> \in Seq(Int)
      BY EmptySeq
    <3> QED
      BY <1>2, <3>1 DEF TypeInv, InRow
  <2>3. Len(read) = 0 /\ Len(written) \in Nat
    BY <1>2, <2>2, EmptySeq, LenProperties DEF TypeInv
  <2>4. at[0] = 0
    BY <2>1 DEF Laid
  <2>5. Len(read) <= Len(written) /\ cursor = at[Len(read)]
    BY <1>2, <2>3, <2>4
  <2>6. \A j \in 1..Len(read) : read[j] = written[j]
    BY <2>3
  <2>7. Lays(at)
    BY <2>1 DEF Lays
  <2> QED
    BY <2>2, <2>5, <2>6, <2>7 DEF CodecInv
<1> QED
  BY <1>1, <1>2

\* Before anything is read the reader is at the start.
LEMMA AtStart ==
    ASSUME CodecInv, read = << >>
    PROVE  cursor = 0
<1>1. PICK at \in [0..Len(written) -> Nat] : Lays(at) /\ cursor = at[Len(read)]
  BY DEF CodecInv
<1>2. Len(read) = 0
  BY EmptySeq
<1> QED
  BY <1>1, <1>2 DEF Lays, Laid

LEMMA WriteStep ==
    ASSUME CodecInv, NEW i \in Values, Write(i)
    PROVE  CodecInv'
<1>1. i \in I64
  BY CodecAssumption
<1>2. read = << >> /\ read' = << >> /\ cursor' = cursor
  BY DEF Write
<1>3. cursor' = 0
  BY <1>2, AtStart
<1>4. InRow(written, bytes)
  BY Unread
<1>5. InRow(Append(written, i), bytes \o WriteInt(i))
  BY <1>1, <1>4, OneMore
<1>6. InRow(written, bytes)'
  <2>1. written' = Append(written, i) /\ bytes' = bytes \o WriteInt(i)
    BY DEF Write
  <2>2. InRow(written', bytes')
    BY <1>5, <2>1, Zenon
  <2> QED
    BY <2>2 DEF InRow, Laid
<1>7. (InRow(written, bytes) /\ read = << >> /\ cursor = 0 => CodecInv)'
  BY Unread, PTL
<1> QED
  BY <1>2, <1>3, <1>6, <1>7, Zenon

\* The reader goes on to the next integer.
LEMMA ReadStep ==
    ASSUME CodecInv, Read
    PROVE  CodecInv'
<1> DEFINE n == Len(written)
           m == Len(read)
<1>1. PICK at \in [0..n -> Nat] :
         /\ Lays(at)
         /\ m <= n /\ cursor = at[m]
         /\ \A j \in 1..m : read[j] = written[j]
  BY DEF CodecInv
<1>2. TypeInv
  BY DEF CodecInv
<1>3. m \in Nat /\ n \in Nat /\ Len(bytes) \in Nat
  BY <1>2 DEF TypeInv
<1>4. m # n
  BY <1>1 DEF Read, Lays, Laid
<1>5. m + 1 \in 1..n /\ (m + 1) - 1 = m /\ m \in 0..n /\ m + 1 \in 0..n
  BY <1>1, <1>3, <1>4
<1>6. /\ at[m + 1] = at[m] + Len(WriteInt(written[m + 1]))
      /\ At(WriteInt(written[m + 1]), at[m])
      /\ written[m + 1] \in I64 /\ at[m] \in Nat /\ at[m + 1] \in Nat
  BY <1>1, <1>2, <1>5 DEF Lays, Laid, At, TypeInv
<1>7. ReadInt(cursor) = [value |-> written[m + 1], length |-> Len(WriteInt(written[m + 1]))]
  BY <1>1, <1>6, ReadExact
<1>8. cursor' = at[m + 1] /\ read' = Append(read, written[m + 1]) /\ UNCHANGED <<written, bytes>>
  BY <1>1, <1>6, <1>7 DEF Read
<1>9. written[m + 1] \in Int
  BY <1>6, SignificantExact
<1>10. /\ Len(read') = m + 1 /\ read' \in Seq(Int)
       /\ \A j \in 1..(m + 1) : read'[j] = written[j]
  <2>1. /\ Len(read') = m + 1 /\ read' \in Seq(Int)
        /\ \A j \in 1..m : read'[j] = read[j]
        /\ read'[m + 1] = written[m + 1]
    BY <1>2, <1>8, <1>9 DEF TypeInv
  <2>2. \A j \in 1..(m + 1) : j \in 1..m \/ j = m + 1
    BY <1>3
  <2> QED
    BY <1>1, <2>1, <2>2
<1>11. TypeInv'
  BY <1>2, <1>6, <1>8, <1>10 DEF TypeInv
<1>12. Lays(at)'
  BY <1>1, <1>8 DEF Lays, Laid
<1>13. Len(read') <= Len(written') /\ cursor' = at[Len(read')]
  BY <1>3, <1>5, <1>8, <1>10
<1>14. \A j \in 1..Len(read') : read'[j] = written'[j]
  BY <1>8, <1>10
<1>15. at \in [0..Len(written') -> Nat]
  BY <1>8
<1> QED
  BY <1>11, <1>12, <1>13, <1>14, <1>15 DEF CodecInv

LEMMA CodecStep == CodecInv /\ [Next]_vars => CodecInv'
<1> SUFFICES ASSUME CodecInv, [Next]_vars
             PROVE  CodecInv'
  OBVIOUS
<1>1. CASE \E i \in Values : Write(i)
  BY <1>1, WriteStep
<1>2. CASE Read
  BY <1>2, ReadStep
<1>3. CASE UNCHANGED vars
  BY <1>3 DEF CodecInv, TypeInv, Lays, Laid, vars
<1> QED
  BY <1>1, <1>2, <1>3 DEF Next, Done

\* A reader at the end has passed all integers.
LEMMA CodecMeaning == CodecInv => ReadsBack
<1> SUFFICES ASSUME CodecInv PROVE ReadsBack
  OBVIOUS
<1>1. PICK at \in [0..Len(written) -> Nat] :
         /\ Lays(at)
         /\ Len(read) <= Len(written) /\ cursor = at[Len(read)]
         /\ \A j \in 1..Len(read) : read[j] = written[j]
  BY DEF CodecInv
<1>2. TypeInv
  BY DEF CodecInv
<1>3. Len(read) \in Nat /\ Len(written) \in Nat /\ Len(bytes) \in Nat
      /\ Len(read) \in 0..Len(written)
  BY <1>1, <1>2 DEF TypeInv
<1>4. IsPrefix(read, written)
  <2>1. SubSeq(read, 1, Len(read)) = SubSeq(written, 1, Len(read))
    BY <1>1, <1>2, <1>3 DEF TypeInv
  <2> QED
    BY <1>1, <2>1 DEF IsPrefix
<1>5. cursor <= Len(bytes)
  BY <1>1, <1>2, <1>3, Increasing DEF Lays, TypeInv
<1>6. ASSUME cursor = Len(bytes)
      PROVE  read = written
  <2>1. Len(read) = Len(written)
    BY <1>1, <1>2, <1>3, <1>6, Increasing, ZenonT(60) DEF Lays, TypeInv
  <2> QED
    BY <1>1, <1>2, <2>1, SMTT(60) DEF TypeInv
<1> QED
  BY <1>4, <1>5, <1>6 DEF ReadsBack

\* For every base, width and limits as the code has them, and any number of
\* integers of that width in any order, the reader gives back the integers written
\* and ends where the writer did (write_int).
THEOREM IntegersReadBack == Spec => []ReadsBack
<1>1. Spec => []CodecInv
  BY CodecInit, CodecStep, PTL DEF Spec
<1> QED
  BY <1>1, CodecMeaning, PTL
-----------------------------------------------------------------------------
(* Texts *)

Chars == {"a", "e", "n", "r", "B"}

LEMMA OffsetIs ==
    ASSUME NEW t \in Seq(Chars)
    PROVE  /\ Offset(t)[0] = 0
           /\ \A i \in 1..Len(t) : Offset(t)[i] = Offset(t)[i - 1] + Size(t[i])
<1> DEFINE first == 0
           G(x, i) == x + Size(t[i])
           N == Len(t)
           Step(f, i) == IF i = 0 THEN first ELSE G(f[i - 1], i)
           Upto(f, k) == f = [i \in 0..k |-> Step(f, i)]
           S == {k \in 0..N : \E f : Upto(f, k)}
<1>0. N \in Nat
  BY LenProperties
<1>4. Offset(t) = CHOOSE f : Upto(f, N)
  BY DEF Offset
<1> HIDE DEF first, G, N
<1>1. 0 \in S
  <2> DEFINE f == [i \in {0} |-> first]
  <2>1. f = [i \in 0..0 |-> Step(f, i)]
    OBVIOUS
  <2>2. \E h : Upto(h, 0)
    BY <2>1
  <2>3. 0 \in 0..N
    BY <1>0
  <2> QED
    BY <2>2, <2>3
<1>2. ASSUME NEW k \in 0..(N - 1), k \in S
      PROVE  k + 1 \in S
  <2>1. PICK f : Upto(f, k)
    BY <1>2
  <2> DEFINE g == [i \in 0..(k + 1) |-> IF i <= k THEN f[i] ELSE Step(f, i)]
  <2>2. ASSUME NEW i \in 0..(k + 1)
        PROVE  g[i] = Step(g, i)
    <3>1. g[i] = Step(f, i)
      BY <1>0, <2>1
    <3>2. i # 0 => g[i - 1] = f[i - 1]
      BY <1>0
    <3> HIDE DEF g
    <3> QED
      BY <3>1, <3>2
  <2>3. Upto(g, k + 1)
    <3>1. g = [i \in 0..(k + 1) |-> g[i]]
      OBVIOUS
    <3> HIDE DEF g
    <3> QED
      BY <2>2, <3>1
  <2> HIDE DEF g
  <2> QED
    BY <1>0, <2>3
<1>3. N \in S
  <2> HIDE DEF S
  <2>1. \A k \in 0..N : k \in S
    BY <1>0, <1>1, <1>2, UpTo
  <2> QED
    BY <1>0, <2>1
<1> DEFINE f == Offset(t)
<1>6. f = [i \in 0..N |-> Step(f, i)]
  BY <1>3, <1>4
<1> HIDE DEF f
<1>7. \A i \in 0..N : f[i] = Step(f, i)
  BY <1>6
<1>8. f[0] = first
  BY <1>0, <1>7
<1>9. \A i \in 1..N : f[i] = G(f[i - 1], i)
  BY <1>0, <1>7
<1> QED
  BY <1>8, <1>9 DEF f, first, G, N

LEMMA UniversalToIs ==
    ASSUME NEW t \in Seq(Chars)
    PROVE  /\ UniversalTo(t)[0] = << >>
           /\ \A i \in 1..Len(t) : UniversalTo(t)[i] = IF i < Len(t) /\ t[i] = "r" /\ t[i + 1] = "n" THEN UniversalTo(t)[i - 1]
                                  ELSE Append(UniversalTo(t)[i - 1], IF t[i] = "r" THEN "n" ELSE t[i])
<1> DEFINE first == << >>
           G(x, i) == IF i < Len(t) /\ t[i] = "r" /\ t[i + 1] = "n" THEN x
                                  ELSE Append(x, IF t[i] = "r" THEN "n" ELSE t[i])
           N == Len(t)
           Step(f, i) == IF i = 0 THEN first ELSE G(f[i - 1], i)
           Upto(f, k) == f = [i \in 0..k |-> Step(f, i)]
           S == {k \in 0..N : \E f : Upto(f, k)}
<1>0. N \in Nat
  BY LenProperties
<1>4. UniversalTo(t) = CHOOSE f : Upto(f, N)
  BY DEF UniversalTo
<1> HIDE DEF first, G, N
<1>1. 0 \in S
  <2> DEFINE f == [i \in {0} |-> first]
  <2>1. f = [i \in 0..0 |-> Step(f, i)]
    OBVIOUS
  <2>2. \E h : Upto(h, 0)
    BY <2>1
  <2>3. 0 \in 0..N
    BY <1>0
  <2> QED
    BY <2>2, <2>3
<1>2. ASSUME NEW k \in 0..(N - 1), k \in S
      PROVE  k + 1 \in S
  <2>1. PICK f : Upto(f, k)
    BY <1>2
  <2> DEFINE g == [i \in 0..(k + 1) |-> IF i <= k THEN f[i] ELSE Step(f, i)]
  <2>2. ASSUME NEW i \in 0..(k + 1)
        PROVE  g[i] = Step(g, i)
    <3>1. g[i] = Step(f, i)
      BY <1>0, <2>1
    <3>2. i # 0 => g[i - 1] = f[i - 1]
      BY <1>0
    <3> HIDE DEF g
    <3> QED
      BY <3>1, <3>2
  <2>3. Upto(g, k + 1)
    <3>1. g = [i \in 0..(k + 1) |-> g[i]]
      OBVIOUS
    <3> HIDE DEF g
    <3> QED
      BY <2>2, <3>1
  <2> HIDE DEF g
  <2> QED
    BY <1>0, <2>3
<1>3. N \in S
  <2> HIDE DEF S
  <2>1. \A k \in 0..N : k \in S
    BY <1>0, <1>1, <1>2, UpTo
  <2> QED
    BY <1>0, <2>1
<1> DEFINE f == UniversalTo(t)
<1>6. f = [i \in 0..N |-> Step(f, i)]
  BY <1>3, <1>4
<1> HIDE DEF f
<1>7. \A i \in 0..N : f[i] = Step(f, i)
  BY <1>6
<1>8. f[0] = first
  BY <1>0, <1>7
<1>9. \A i \in 1..N : f[i] = G(f[i - 1], i)
  BY <1>0, <1>7
<1> QED
  BY <1>8, <1>9 DEF f, first, G, N

LEMMA StartsToIs ==
    ASSUME NEW t \in Seq(Chars)
    PROVE  /\ StartsTo(t)[0] = <<0>>
           /\ \A i \in 1..Len(t) : StartsTo(t)[i] = IF t[i] = "n" \/ (t[i] = "r" /\ (i = Len(t) \/ t[i + 1] # "n"))
                                  THEN Append(StartsTo(t)[i - 1], Offset(t)[i]) ELSE StartsTo(t)[i - 1]
<1> DEFINE first == <<0>>
           G(x, i) == IF t[i] = "n" \/ (t[i] = "r" /\ (i = Len(t) \/ t[i + 1] # "n"))
                                  THEN Append(x, Offset(t)[i]) ELSE x
           N == Len(t)
           Step(f, i) == IF i = 0 THEN first ELSE G(f[i - 1], i)
           Upto(f, k) == f = [i \in 0..k |-> Step(f, i)]
           S == {k \in 0..N : \E f : Upto(f, k)}
<1>0. N \in Nat
  BY LenProperties
<1>4. StartsTo(t) = CHOOSE f : Upto(f, N)
  BY DEF StartsTo
<1> HIDE DEF first, G, N
<1>1. 0 \in S
  <2> DEFINE f == [i \in {0} |-> first]
  <2>1. f = [i \in 0..0 |-> Step(f, i)]
    OBVIOUS
  <2>2. \E h : Upto(h, 0)
    BY <2>1
  <2>3. 0 \in 0..N
    BY <1>0
  <2> QED
    BY <2>2, <2>3
<1>2. ASSUME NEW k \in 0..(N - 1), k \in S
      PROVE  k + 1 \in S
  <2>1. PICK f : Upto(f, k)
    BY <1>2
  <2> DEFINE g == [i \in 0..(k + 1) |-> IF i <= k THEN f[i] ELSE Step(f, i)]
  <2>2. ASSUME NEW i \in 0..(k + 1)
        PROVE  g[i] = Step(g, i)
    <3>1. g[i] = Step(f, i)
      BY <1>0, <2>1
    <3>2. i # 0 => g[i - 1] = f[i - 1]
      BY <1>0
    <3> HIDE DEF g
    <3> QED
      BY <3>1, <3>2
  <2>3. Upto(g, k + 1)
    <3>1. g = [i \in 0..(k + 1) |-> g[i]]
      OBVIOUS
    <3> HIDE DEF g
    <3> QED
      BY <2>2, <3>1
  <2> HIDE DEF g
  <2> QED
    BY <1>0, <2>3
<1>3. N \in S
  <2> HIDE DEF S
  <2>1. \A k \in 0..N : k \in S
    BY <1>0, <1>1, <1>2, UpTo
  <2> QED
    BY <1>0, <2>1
<1> DEFINE f == StartsTo(t)
<1>6. f = [i \in 0..N |-> Step(f, i)]
  BY <1>3, <1>4
<1> HIDE DEF f
<1>7. \A i \in 0..N : f[i] = Step(f, i)
  BY <1>6
<1>8. f[0] = first
  BY <1>0, <1>7
<1>9. \A i \in 1..N : f[i] = G(f[i - 1], i)
  BY <1>0, <1>7
<1> QED
  BY <1>8, <1>9 DEF f, first, G, N
-----------------------------------------------------------------------------
(* Offsets *)

LEMMA SizeType == \A c : Size(c) \in 1..3 /\ (c \in {"a", "n", "r"} => Size(c) = 1)
<1> TAKE c
<1>1. CASE c = "e"
  BY <1>1 DEF Size
<1>2. CASE c = "B"
  BY <1>2 DEF Size
<1>3. CASE c # "e" /\ c # "B"
  BY <1>3 DEF Size
<1> QED
  BY <1>1, <1>2, <1>3

LEMMA OffsetType ==
    ASSUME NEW t \in Seq(Chars), NEW k \in 0..Len(t)
    PROVE  Offset(t)[k] \in Nat
<1> DEFINE N == Len(t)
           o == Offset(t)
           S == {i \in 0..N : o[i] \in Nat}
<1>0. N \in Nat
  BY LenProperties
<1>1. o[0] = 0 /\ \A i \in 1..N : o[i] = o[i - 1] + Size(t[i])
  BY OffsetIs
<1> HIDE DEF N, o
<1>2. 0 \in S
  BY <1>0, <1>1
<1>3. ASSUME NEW i \in 0..(N - 1), i \in S
      PROVE  i + 1 \in S
  <2>1. i + 1 \in 1..N /\ (i + 1) - 1 = i /\ i + 1 \in 0..N
    BY <1>0
  <2>2. o[i + 1] = o[i] + Size(t[i + 1])
    BY <1>1, <2>1
  <2>3. Size(t[i + 1]) \in Nat
    BY SizeType
  <2> QED
    BY <1>3, <2>1, <2>2, <2>3
<1>4. \A i \in 0..N : i \in S
  <2> HIDE DEF S
  <2> QED
    BY <1>0, <1>2, <1>3, UpTo
<1> QED
  BY <1>4 DEF N, o

\* A character has a byte, and one of ASCII no more.
LEMMA OffsetGrows ==
    ASSUME NEW t \in Seq(Chars), NEW j \in 0..Len(t), NEW k \in 0..Len(t), j <= k
    PROVE  /\ Offset(t)[k] - Offset(t)[j] >= k - j
           /\ (\A m \in (j + 1)..k : Size(t[m]) = 1) => Offset(t)[k] - Offset(t)[j] = k - j
<1> DEFINE N == Len(t)
           o == Offset(t)
           S == {d \in 0..(N - j) :
                    /\ o[j + d] - o[j] >= d
                    /\ (\A m \in (j + 1)..(j + d) : Size(t[m]) = 1) => o[j + d] - o[j] = d}
<1>0. N \in Nat /\ j \in 0..N /\ k \in 0..N
  BY LenProperties
<1>1. /\ \A i \in 1..N : o[i] = o[i - 1] + Size(t[i])
      /\ \A i \in 0..N : o[i] \in Nat
  BY OffsetIs, OffsetType
<1> HIDE DEF N, o
<1>2. 0 \in S
  BY <1>0, <1>1
<1>3. ASSUME NEW d \in 0..((N - j) - 1), d \in S
      PROVE  d + 1 \in S
  <2>1. /\ j + (d + 1) \in 1..N /\ (j + (d + 1)) - 1 = j + d /\ d + 1 \in 0..(N - j)
        /\ j + d \in 0..N /\ j + (d + 1) \in (j + 1)..(j + (d + 1))
    BY <1>0
  <2>2. o[j + (d + 1)] = o[j + d] + Size(t[j + (d + 1)])
    BY <1>1, <2>1
  <2>3. Size(t[j + (d + 1)]) \in 1..3
    BY SizeType
  <2>4. o[j + (d + 1)] \in Nat /\ o[j + d] \in Nat /\ o[j] \in Nat
    BY <1>0, <1>1, <2>1
  <2>5. o[j + (d + 1)] - o[j] >= d + 1
    BY <1>3, <2>2, <2>3, <2>4, SMTT(60)
  <2>6. ASSUME \A m \in (j + 1)..(j + (d + 1)) : Size(t[m]) = 1
        PROVE  o[j + (d + 1)] - o[j] = d + 1
    <3>1. Size(t[j + (d + 1)]) = 1
      BY <2>1, <2>6
    <3>2. \A m \in (j + 1)..(j + d) : m \in (j + 1)..(j + (d + 1))
      BY <1>0
    <3>3. o[j + d] - o[j] = d
      BY <1>3, <2>6, <3>2
    <3> QED
      BY <2>2, <2>4, <3>1, <3>3
  <2> QED
    BY <2>1, <2>5, <2>6
<1>4. \A d \in 0..(N - j) : d \in S
  <2>1. N - j \in Nat
    BY <1>0
  <2> HIDE DEF S
  <2> QED
    BY <1>2, <1>3, <2>1, UpTo
<1>5. k - j \in 0..(N - j) /\ j + (k - j) = k
  BY <1>0
<1>6. k - j \in S
  BY <1>4, <1>5
<1>7. /\ o[k] - o[j] >= k - j
      /\ (\A m \in (j + 1)..k : Size(t[m]) = 1) => o[k] - o[j] = k - j
  BY <1>5, <1>6
<1> QED
  BY <1>7 DEF o

\* The characters between the ends of two.
LEMMA Between ==
    ASSUME NEW t \in Seq(Chars), NEW q \in 0..Len(t), NEW r \in 0..Len(t)
    PROVE  Offset(t)[q] < Offset(t)[r] <=> q < r
<1>1. Len(t) \in Nat /\ Offset(t)[q] \in Nat /\ Offset(t)[r] \in Nat
  BY OffsetType, LenProperties
<1>2. CASE q < r
  <2>1. q <= r
    BY <1>1, <1>2
  <2>2. Offset(t)[r] - Offset(t)[q] >= r - q
    BY <2>1, OffsetGrows
  <2> QED
    BY <1>1, <1>2, <2>2
<1>3. CASE r <= q
  <2>1. Offset(t)[q] - Offset(t)[r] >= q - r
    BY <1>3, OffsetGrows
  <2> QED
    BY <1>1, <1>3, <2>1
<1> QED
  BY <1>1, <1>2, <1>3
-----------------------------------------------------------------------------
(* Universal newlines *)

\* How many characters the first i become.
Became(f, i) == Len(UniversalTo(f)[i])

\* A carriage return before a line feed becomes nothing.
Dropped(f, i) == i < Len(f) /\ f[i] = "r" /\ f[i + 1] = "n"
Becomes(c) == IF c = "r" THEN "n" ELSE c

LEMMA ToType ==
    ASSUME NEW f \in Seq(Chars), NEW i \in 0..Len(f)
    PROVE  /\ UniversalTo(f)[i] \in Seq(Chars) /\ Became(f, i) \in 0..i
           /\ \A m \in 1..Became(f, i) :
                 /\ UniversalTo(f)[i][m] # "r"
                 /\ UniversalTo(f)[i][m] = "B" => \E k \in 1..Len(f) : f[k] = "B"
<1> DEFINE N == Len(f)
           u == UniversalTo(f)
           Good(x) == x # "r" /\ (x = "B" => \E k \in 1..N : f[k] = "B")
           G == {x \in Chars : Good(x)}
           S == {k \in 0..N : u[k] \in Seq(G) /\ Len(u[k]) <= k}
<1>0. N \in Nat /\ \A k \in 1..N : f[k] \in Chars
  BY LenProperties, ElementOfSeq
<1>1. /\ u[0] = << >>
      /\ \A k \in 1..N : \/ u[k] = u[k - 1]
                         \/ u[k] = Append(u[k - 1], Becomes(f[k]))
  BY UniversalToIs DEF Becomes
<1>2. \A k \in 1..N : Becomes(f[k]) \in G
  <2> TAKE k \in 1..N
  <2>1. Becomes(f[k]) \in Chars /\ Becomes(f[k]) # "r" /\ (Becomes(f[k]) = "B" => f[k] = "B")
    BY <1>0 DEF Becomes, Chars
  <2> QED
    BY <1>0, <2>1
<1> HIDE DEF N, u, G
<1>3. 0 \in S
  <2>1. << >> \in Seq(G) /\ Len(<< >>) = 0
    BY EmptySeq
  <2>2. u[0] \in Seq(G) /\ Len(u[0]) = 0
    BY <1>1, <2>1, Zenon
  <2>3. 0 \in 0..N /\ Len(u[0]) <= 0
    BY <1>0, <2>2
  <2> QED
    BY <2>2, <2>3
<1>4. ASSUME NEW d \in 0..(N - 1), d \in S
      PROVE  d + 1 \in S
  <2>1. d + 1 \in 1..N /\ (d + 1) - 1 = d /\ d + 1 \in 0..N
    BY <1>0
  <2>2. Becomes(f[d + 1]) \in G
    BY <1>2, <2>1
  <2>3. u[d + 1] = u[d] \/ u[d + 1] = Append(u[d], Becomes(f[d + 1]))
    BY <1>1, <2>1
  <2> DEFINE x == Becomes(f[d + 1])
             w == u[d]
  <2> HIDE DEF x, w
  <2>4. w \in Seq(G) /\ Len(w) <= d /\ x \in G
    BY <1>4, <2>2 DEF w, x
  <2>5. Append(w, x) \in Seq(G) /\ Len(Append(w, x)) = Len(w) + 1 /\ Len(w) \in Nat
    BY <2>4, AppendProperties, LenProperties
  <2>6. u[d + 1] = w \/ u[d + 1] = Append(w, x)
    BY <2>3 DEF w, x
  <2>7. u[d + 1] \in Seq(G) /\ Len(u[d + 1]) <= d + 1
    <3>1. Len(w) + 1 <= d + 1 /\ Len(w) <= d + 1
      BY <2>4, <2>5
    <3>2. Len(Append(w, x)) <= d + 1
      BY <2>5, <3>1
    <3> QED
      BY <2>4, <2>5, <2>6, <3>1, <3>2, Zenon
  <2> QED
    BY <2>1, <2>7
<1>5. \A k \in 0..N : k \in S
  <2> HIDE DEF S
  <2> QED
    BY <1>0, <1>3, <1>4, UpTo
<1>6. u[i] \in Seq(G) /\ Len(u[i]) <= i
  BY <1>5 DEF N
<1>7. G \subseteq Chars
  BY DEF G
<1>8. u[i] \in Seq(Chars) /\ Len(u[i]) \in Nat
  BY <1>6, <1>7, SeqMonotonic, LenProperties
<1>9. \A m \in 1..Len(u[i]) : u[i][m] \in G
  BY <1>6, ElementOfSeq
<1> QED
  BY <1>0, <1>6, <1>8, <1>9 DEF G, u, N, Became

\* One more character.
LEMMA ToStep ==
    ASSUME NEW f \in Seq(Chars), NEW i \in 1..Len(f)
    PROVE  /\ Dropped(f, i) => UniversalTo(f)[i] = UniversalTo(f)[i - 1]
           /\ ~Dropped(f, i) =>
                 /\ Became(f, i) = Became(f, i - 1) + 1
                 /\ UniversalTo(f)[i][Became(f, i)] = Becomes(f[i])
                 /\ \A m \in 1..Became(f, i - 1) : UniversalTo(f)[i][m] = UniversalTo(f)[i - 1][m]
<1> DEFINE u == UniversalTo(f)
           w == u[i - 1]
           x == Becomes(f[i])
<1>1. u[i] = IF Dropped(f, i) THEN w ELSE Append(w, x)
  BY UniversalToIs DEF Becomes, Dropped
<1>2. i - 1 \in 0..Len(f) /\ f[i] \in Chars
  BY LenProperties, ElementOfSeq
<1>3. w \in Seq(Chars) /\ x \in Chars
  BY <1>2, ToType DEF Becomes, Chars
<1> HIDE DEF u, w, x
<1>4. /\ Len(Append(w, x)) = Len(w) + 1 /\ Append(w, x)[Len(w) + 1] = x
      /\ \A m \in 1..Len(w) : Append(w, x)[m] = w[m]
  BY <1>3, AppendProperties
<1> QED
  BY <1>1, <1>4 DEF u, w, x, Became

LEMMA ToPrefix ==
    ASSUME NEW f \in Seq(Chars), NEW i \in 0..Len(f), NEW j \in i..Len(f)
    PROVE  /\ Became(f, i) <= Became(f, j)
           /\ \A m \in 1..Became(f, i) : UniversalTo(f)[j][m] = UniversalTo(f)[i][m]
<1> DEFINE N == Len(f)
           u == UniversalTo(f)
           S == {d \in 0..(N - i) :
                    /\ Len(u[i]) <= Len(u[i + d])
                    /\ \A m \in 1..Len(u[i]) : u[i + d][m] = u[i][m]}
<1>0. N \in Nat /\ i \in 0..N /\ j \in i..N
  BY LenProperties
<1>1. \A k \in 0..N : Len(u[k]) \in Nat
  BY ToType DEF Became
<1>2. \A k \in 1..N : \/ u[k] = u[k - 1]
                      \/ /\ Len(u[k]) = Len(u[k - 1]) + 1
                         /\ \A m \in 1..Len(u[k - 1]) : u[k][m] = u[k - 1][m]
  BY ToStep DEF Became
<1> HIDE DEF N, u
<1>3. 0 \in S
  BY <1>0, <1>1
<1>4. ASSUME NEW d \in 0..((N - i) - 1), d \in S
      PROVE  d + 1 \in S
  <2>1. i + (d + 1) \in 1..N /\ (i + (d + 1)) - 1 = i + d /\ d + 1 \in 0..(N - i) /\ i + d \in 0..N
    BY <1>0
  <2>2. \/ u[i + (d + 1)] = u[i + d]
        \/ /\ Len(u[i + (d + 1)]) = Len(u[i + d]) + 1
           /\ \A m \in 1..Len(u[i + d]) : u[i + (d + 1)][m] = u[i + d][m]
    BY <1>2, <2>1
  <2>3. Len(u[i]) \in Nat /\ Len(u[i + d]) \in Nat
    BY <1>0, <1>1, <2>1
  <2> QED
    BY <1>4, <2>1, <2>2, <2>3
<1>5. \A d \in 0..(N - i) : d \in S
  <2>1. N - i \in Nat
    BY <1>0
  <2> HIDE DEF S
  <2> QED
    BY <1>3, <1>4, <2>1, UpTo
<1>6. j - i \in 0..(N - i) /\ i + (j - i) = j
  BY <1>0
<1>7. j - i \in S
  BY <1>5, <1>6
<1>8. Len(u[i]) <= Len(u[j]) /\ \A m \in 1..Len(u[i]) : u[j][m] = u[i][m]
  BY <1>6, <1>7
<1> QED
  BY <1>8 DEF u, Became
-----------------------------------------------------------------------------
(* The line index *)

Breaking(t, i) == t[i] = "n" \/ (t[i] = "r" /\ (i = Len(t) \/ t[i + 1] # "n"))

\* One more character.
LEMMA StartsStep ==
    ASSUME NEW t \in Seq(Chars), NEW i \in 1..Len(t), StartsTo(t)[i - 1] \in Seq(Nat)
    PROVE  /\ StartsTo(t)[i] \in Seq(Nat)
           /\ ~Breaking(t, i) => StartsTo(t)[i] = StartsTo(t)[i - 1]
           /\ Breaking(t, i) =>
                 /\ Len(StartsTo(t)[i]) = Len(StartsTo(t)[i - 1]) + 1
                 /\ StartsTo(t)[i][Len(StartsTo(t)[i])] = Offset(t)[i]
                 /\ \A l \in 1..Len(StartsTo(t)[i - 1]) : StartsTo(t)[i][l] = StartsTo(t)[i - 1][l]
<1> DEFINE u == StartsTo(t)
           w == u[i - 1]
           x == Offset(t)[i]
<1>1. u[i] = IF Breaking(t, i) THEN Append(w, x) ELSE w
  BY StartsToIs DEF Breaking
<1>2. i \in 0..Len(t)
  BY LenProperties
<1>3. w \in Seq(Nat) /\ x \in Nat
  BY <1>2, OffsetType
<1> HIDE DEF u, w, x
<1>4. /\ Append(w, x) \in Seq(Nat)
      /\ Len(Append(w, x)) = Len(w) + 1 /\ Append(w, x)[Len(w) + 1] = x
      /\ \A m \in 1..Len(w) : Append(w, x)[m] = w[m]
  BY <1>3, AppendProperties
<1>5. CASE Breaking(t, i)
  <2>1. u[i] = Append(w, x)
    BY <1>1, <1>5
  <2> QED
    BY <1>4, <1>5, <2>1 DEF u, w, x
<1>6. CASE ~Breaking(t, i)
  <2>1. u[i] = w
    BY <1>1, <1>6
  <2> QED
    BY <1>3, <1>6, <2>1 DEF u, w
<1> QED
  BY <1>5, <1>6

\* Up to a character lines start in order and not behind it.
LEMMA StartsType ==
    ASSUME NEW t \in Seq(Chars), NEW p \in 0..Len(t)
    PROVE  /\ StartsTo(t)[p] \in Seq(Nat)
           /\ Len(StartsTo(t)[p]) \in 1..(p + 1)
           /\ \A l \in 1..Len(StartsTo(t)[p]) : StartsTo(t)[p][l] <= Offset(t)[p]
           /\ \A l, m \in 1..Len(StartsTo(t)[p]) :
                 l < m => StartsTo(t)[p][l] < StartsTo(t)[p][m]
<1> DEFINE N == Len(t)
           u == StartsTo(t)
           o == Offset(t)
           Fine(s, k) == /\ s \in Seq(Nat)
                         /\ Len(s) \in 1..(k + 1)
                         /\ \A l \in 1..Len(s) : s[l] <= o[k]
                         /\ \A l, m \in 1..Len(s) : l < m => s[l] < s[m]
           S == {k \in 0..N : Fine(u[k], k)}
<1>0. N \in Nat
  BY LenProperties
<1>1. u[0] = <<0>> /\ o[0] = 0
  BY StartsToIs, OffsetIs
<1>2. \A k \in 0..N : o[k] \in Nat
  BY OffsetType
<1>3. \A k \in 1..N : o[k - 1] < o[k]
  <2> TAKE k \in 1..N
  <2>1. k - 1 \in 0..Len(t) /\ k \in 0..Len(t) /\ k - 1 < k
    BY <1>0
  <2> QED
    BY <2>1, Between
<1>4. \A k \in 1..N : u[k - 1] \in Seq(Nat) =>
         /\ u[k] \in Seq(Nat)
         /\ \/ u[k] = u[k - 1]
            \/ /\ Len(u[k]) = Len(u[k - 1]) + 1
               /\ u[k][Len(u[k])] = o[k]
               /\ \A l \in 1..Len(u[k - 1]) : u[k][l] = u[k - 1][l]
  BY StartsStep
<1> HIDE DEF N, u, o
<1>5. 0 \in S
  <2>1. <<0>> \in Seq(Nat) /\ Len(<<0>>) = 1 /\ <<0>>[1] = 0
    OBVIOUS
  <2>2. Fine(<<0>>, 0)
    BY <1>1, <2>1
  <2>3. 0 \in 0..N
    BY <1>0
  <2>4. Fine(u[0], 0)
    <3> HIDE DEF Fine
    <3> QED
      BY <1>1, <2>2
  <2> QED
    BY <2>3, <2>4
<1>6. ASSUME NEW k \in 0..(N - 1), k \in S
      PROVE  k + 1 \in S
  <2>1. k + 1 \in 1..N /\ (k + 1) - 1 = k /\ k + 1 \in 0..N
    BY <1>0
  <2> DEFINE s == u[k]
             z == u[k + 1]
             a == o[k]
             b == o[k + 1]
  <2>2. /\ z \in Seq(Nat)
        /\ \/ z = s
           \/ /\ Len(z) = Len(s) + 1
              /\ z[Len(z)] = b
              /\ \A l \in 1..Len(s) : z[l] = s[l]
    BY <1>4, <1>6, <2>1
  <2>3. a < b /\ a \in Nat /\ b \in Nat
    <3>1. o[(k + 1) - 1] < o[k + 1]
      BY <1>3, <2>1
    <3>2. k \in 0..N
      BY <1>0
    <3>3. o[k] \in Nat /\ o[k + 1] \in Nat
      BY <1>2, <2>1, <3>2
    <3> QED
      BY <2>1, <3>1, <3>3
  <2>4. /\ s \in Seq(Nat) /\ Len(s) \in 1..(k + 1)
        /\ \A l \in 1..Len(s) : s[l] <= a
        /\ \A l, m \in 1..Len(s) : l < m => s[l] < s[m]
    BY <1>6
  <2>5. \A l \in 1..Len(s) : s[l] \in Nat
    BY <2>4, ElementOfSeq
  <2> HIDE DEF s, z, a, b
  <2>6. CASE z = s
    <3>1. \A l \in 1..Len(s) : s[l] <= b
      BY <2>3, <2>4, <2>5
    <3>2. Len(s) \in 1..((k + 1) + 1)
      BY <1>0, <2>4
    <3>3. Fine(z, k + 1)
      BY <2>4, <2>6, <3>1, <3>2 DEF b
    <3> QED
      BY <2>1, <3>3 DEF z
  <2>7. CASE /\ Len(z) = Len(s) + 1
             /\ z[Len(z)] = b
             /\ \A l \in 1..Len(s) : z[l] = s[l]
    <3> DEFINE n == Len(s)
    <3>1. Len(z) = n + 1 /\ z[n + 1] = b /\ \A l \in 1..n : z[l] = s[l] /\ s[l] <= a /\ s[l] \in Nat
      BY <2>4, <2>5, <2>7
    <3>2. n \in 1..(k + 1) /\ \A l, m \in 1..n : l < m => s[l] < s[m]
      BY <2>4
    <3> HIDE DEF n
    <3>3. \A l \in 1..(n + 1) : l \in 1..n \/ l = n + 1
      BY <3>2
    <3>4. \A l \in 1..(n + 1) : z[l] <= b
      BY <2>3, <3>1, <3>3
    <3>5. \A l \in 1..n : z[l] < z[n + 1]
      BY <2>3, <3>1
    <3>6. ASSUME NEW l \in 1..(n + 1), NEW m \in 1..(n + 1), l < m
          PROVE  z[l] < z[m]
      <4>1. l \in 1..n
        BY <3>2, <3>6
      <4>2. CASE m = n + 1
        BY <3>5, <4>1, <4>2
      <4>3. CASE m \in 1..n
        BY <3>1, <3>2, <3>6, <4>1, <4>3
      <4> QED
        BY <3>3, <4>2, <4>3
    <3>7. Len(z) \in 1..((k + 1) + 1)
      BY <1>0, <3>1, <3>2
    <3>8. /\ \A l \in 1..Len(z) : z[l] <= b
          /\ \A l, m \in 1..Len(z) : l < m => z[l] < z[m]
      BY <3>1, <3>4, <3>6
    <3> QED
      BY <2>1, <2>2, <3>7, <3>8 DEF z, b
  <2> QED
    BY <2>2, <2>6, <2>7
<1>7. \A k \in 0..N : k \in S
  <2> HIDE DEF S
  <2> QED
    BY <1>0, <1>5, <1>6, UpTo
<1>8. Fine(u[p], p)
  BY <1>7 DEF N
<1> QED
  BY <1>8 DEF u, o

\* Lines behind a character start behind it.
LEMMA StartsLater ==
    ASSUME NEW t \in Seq(Chars), NEW p \in 0..Len(t), NEW r \in p..Len(t)
    PROVE  /\ Len(StartsTo(t)[p]) <= Len(StartsTo(t)[r])
           /\ \A l \in 1..Len(StartsTo(t)[p]) : StartsTo(t)[r][l] = StartsTo(t)[p][l]
           /\ \A l \in (Len(StartsTo(t)[p]) + 1)..Len(StartsTo(t)[r]) :
                 Offset(t)[p] < StartsTo(t)[r][l]
<1> DEFINE N == Len(t)
           u == StartsTo(t)
           o == Offset(t)
           n == Len(u[p])
           S == {d \in 0..(N - p) :
                    /\ n <= Len(u[p + d])
                    /\ \A l \in 1..n : u[p + d][l] = u[p][l]
                    /\ \A l \in (n + 1)..Len(u[p + d]) : o[p] < u[p + d][l]}
<1>0. N \in Nat /\ p \in 0..N /\ r \in p..N
  BY LenProperties
<1>1. \A k \in 0..N : Len(u[k]) \in Nat
  BY StartsType
<1>2. \A k \in 0..N : p < k => o[p] < o[k]
  BY Between
<1>3. \A k \in 1..N :
         \/ u[k] = u[k - 1]
         \/ /\ Len(u[k]) = Len(u[k - 1]) + 1
            /\ u[k][Len(u[k])] = o[k]
            /\ \A l \in 1..Len(u[k - 1]) : u[k][l] = u[k - 1][l]
  <2> TAKE k \in 1..N
  <2>1. k - 1 \in 0..Len(t)
    BY <1>0
  <2>2. u[k - 1] \in Seq(Nat)
    BY <2>1, StartsType
  <2> QED
    BY <2>2, StartsStep
<1>4. n \in Nat
  BY <1>0, <1>1
<1> HIDE DEF N, u, o
<1>5. 0 \in S
  BY <1>0, <1>4
<1>6. ASSUME NEW d \in 0..((N - p) - 1), d \in S
      PROVE  d + 1 \in S
  <2>1. /\ p + (d + 1) \in 1..N /\ (p + (d + 1)) - 1 = p + d /\ d + 1 \in 0..(N - p)
        /\ p + (d + 1) \in 0..N /\ p + d \in 0..N /\ p < p + (d + 1)
    BY <1>0
  <2> DEFINE s == u[p + d]
             z == u[p + (d + 1)]
             b == o[p + (d + 1)]
             first == u[p]
             a == o[p]
  <2>2. \/ z = s
        \/ /\ Len(z) = Len(s) + 1
           /\ z[Len(z)] = b
           /\ \A l \in 1..Len(s) : z[l] = s[l]
    BY <1>3, <2>1
  <2>3. /\ n <= Len(s)
        /\ \A l \in 1..n : s[l] = first[l]
        /\ \A l \in (n + 1)..Len(s) : a < s[l]
    BY <1>6
  <2>4. Len(s) \in Nat /\ a < b
    BY <1>1, <1>2, <2>1
  <2> HIDE DEF s, z, b, first, a, n
  <2>5. /\ n <= Len(z)
        /\ \A l \in 1..n : z[l] = first[l]
        /\ \A l \in (n + 1)..Len(z) : a < z[l]
    <3>1. CASE z = s
      BY <2>3, <3>1
    <3>2. CASE /\ Len(z) = Len(s) + 1
               /\ z[Len(z)] = b
               /\ \A l \in 1..Len(s) : z[l] = s[l]
      <4> DEFINE k == Len(s)
      <4>1. Len(z) = k + 1 /\ z[k + 1] = b /\ (\A l \in 1..k : z[l] = s[l]) /\ k \in Nat /\ n <= k
        BY <2>3, <2>4, <3>2
      <4>2. /\ \A l \in 1..n : s[l] = first[l]
            /\ \A l \in (n + 1)..k : a < s[l]
        BY <2>3
      <4> HIDE DEF k
      <4>3. n <= k + 1 /\ \A l \in 1..n : l \in 1..k
        BY <1>4, <4>1
      <4>4. \A l \in (n + 1)..(k + 1) : l = k + 1 \/ (l \in (n + 1)..k /\ l \in 1..k)
        BY <1>4, <4>1
      <4>5. \A l \in (n + 1)..(k + 1) : a < z[l]
        BY <2>4, <4>1, <4>2, <4>4
      <4>6. \A l \in 1..n : z[l] = first[l]
        BY <4>1, <4>2, <4>3
      <4> QED
        BY <4>1, <4>3, <4>5, <4>6
    <3> QED
      BY <2>2, <3>1, <3>2
  <2> QED
    BY <2>1, <2>5 DEF z, first, a
<1>7. \A d \in 0..(N - p) : d \in S
  <2>1. N - p \in Nat
    BY <1>0
  <2> HIDE DEF S
  <2> QED
    BY <1>5, <1>6, <2>1, UpTo
<1>8. r - p \in 0..(N - p) /\ p + (r - p) = r
  BY <1>0
<1>9. r - p \in S
  BY <1>7, <1>8
<1>10. /\ n <= Len(u[r])
       /\ \A l \in 1..n : u[r][l] = u[p][l]
       /\ \A l \in (n + 1)..Len(u[r]) : o[p] < u[r][l]
  BY <1>8, <1>9
<1> QED
  BY <1>10 DEF u, o, n
-----------------------------------------------------------------------------
(* The text of the file *)

SourceInv ==
    /\ file \in Files
    /\ text = Universal(file)
    /\ line_starts = LineStarts(text)
    /\ is_all_ascii = Ascii(text)
    /\ lines_with_non_ascii = IF is_all_ascii THEN << >> ELSE LinesWithNonAscii(text, line_starts)

LEMMA FileType ==
    ASSUME SourceInv
    PROVE  /\ file \in Seq(Chars) /\ Len(file) \in Nat /\ Len(file) + 1 \in I64
           /\ \A k \in 1..Len(file) : file[k] \in Chars /\ (file[k] = "B" => k = 1)
<1>1. file \in Seq(Chars) /\ Len(file) + 1 \in I64 /\ \A k \in 1..Len(file) : file[k] = "B" => k = 1
  BY LocationsAssumption DEF SourceInv, Chars
<1> QED
  BY <1>1, LenProperties, ElementOfSeq

\* What becomes of the characters of the file.
LEMMA TextIs ==
    ASSUME SourceInv
    PROVE  /\ text \in Seq(Chars) /\ Len(text) \in 0..Len(file)
           /\ \A m \in 1..Len(text) : text[m] # "r" /\ (text[m] = "B" => Len(file) > 0 /\ file[1] = "B")
           /\ Became(file, 0) = 0 /\ Became(file, Len(file)) = Len(text)
           /\ \A i \in 0..Len(file) : Became(file, i) \in 0..Len(text)
           /\ \A i, j \in 0..Len(file) : i <= j => Became(file, i) <= Became(file, j)
           /\ \A i \in 1..Len(file) :
                 IF Dropped(file, i) THEN Became(file, i) = Became(file, i - 1)
                 ELSE /\ Became(file, i) = Became(file, i - 1) + 1
                      /\ text[Became(file, i)] = Becomes(file[i])
<1> DEFINE N == Len(file)
           u == UniversalTo(file)
<1>1. file \in Seq(Chars) /\ N \in Nat /\ \A k \in 1..N : file[k] = "B" => k = 1
  BY FileType
<1>2. text = u[N]
  BY DEF SourceInv, Universal
<1>3. N \in 0..N /\ 0 \in 0..N
  BY <1>1
<1>4. /\ text \in Seq(Chars) /\ Len(text) \in 0..N
      /\ \A m \in 1..Len(text) : text[m] # "r" /\ (text[m] = "B" => \E k \in 1..N : file[k] = "B")
  BY <1>1, <1>2, <1>3, ToType DEF Became
<1>5. \A m \in 1..Len(text) : text[m] = "B" => N > 0 /\ file[1] = "B"
  BY <1>1, <1>4
<1>6. \A i \in 0..N : Became(file, i) \in 0..i
  BY <1>1, ToType
<1>7. Became(file, N) = Len(text)
  BY <1>2 DEF Became
<1>8. ASSUME NEW i \in 0..N, NEW j \in 0..N, i <= j
      PROVE  Became(file, i) <= Became(file, j)
  <2>1. j \in i..N
    BY <1>1, <1>8
  <2> QED
    BY <1>1, <2>1, ToPrefix
<1>9. \A i \in 0..N : Became(file, i) \in 0..Len(text)
  <2> TAKE i \in 0..N
  <2>1. i <= N
    BY <1>1
  <2>2. Became(file, i) <= Len(text)
    BY <1>3, <1>7, <1>8, <2>1
  <2> QED
    BY <1>4, <1>6, <2>2
<1>10. Became(file, 0) = 0
  <2>1. Became(file, 0) \in 0..0
    BY <1>3, <1>6
  <2> QED
    BY <2>1
<1>11. ASSUME NEW i \in 1..N
       PROVE  IF Dropped(file, i) THEN Became(file, i) = Became(file, i - 1)
              ELSE /\ Became(file, i) = Became(file, i - 1) + 1
                   /\ text[Became(file, i)] = Becomes(file[i])
  <2>1. CASE Dropped(file, i)
    BY <1>1, <2>1, ToStep DEF Became
  <2>2. CASE ~Dropped(file, i)
    <3>1. Became(file, i) = Became(file, i - 1) + 1 /\ u[i][Became(file, i)] = Becomes(file[i])
      BY <1>1, <2>2, ToStep
    <3>2. i \in 0..N /\ i - 1 \in 0..N /\ N \in i..N
      BY <1>1
    <3>3. Became(file, i - 1) \in Nat
      BY <1>6, <3>2
    <3>4. Became(file, i) \in 1..Became(file, i)
      BY <3>1, <3>3
    <3>5. u[N][Became(file, i)] = u[i][Became(file, i)]
      BY <1>1, <3>2, <3>4, ToPrefix
    <3> QED
      BY <1>2, <2>2, <3>1, <3>5
  <2> QED
    BY <2>1, <2>2
<1> QED
  BY <1>4, <1>5, <1>7, <1>8, <1>9, <1>10, <1>11

\* The line the index finds.
LEMMA LineOfIs ==
    ASSUME SourceInv, NEW p \in 0..Len(text)
    PROVE  /\ LineOf(Offset(text)[p]) = Len(StartsTo(text)[p])
           /\ LineOf(Offset(text)[p]) \in 1..Len(line_starts)
           /\ line_starts[LineOf(Offset(text)[p])] = StartsTo(text)[p][Len(StartsTo(text)[p])]
<1> DEFINE N == Len(text)
           s == StartsTo(text)[p]
           z == line_starts
           a == Offset(text)[p]
           n == Len(s)
           On(l) == z[l] <= a /\ (l = Len(z) \/ a < z[l + 1])
<1>0. text \in Seq(Chars) /\ N \in Nat /\ N \in p..N /\ N \in 0..N
  BY TextIs
<1>1. z = StartsTo(text)[N]
  BY DEF SourceInv, LineStarts
<1>2. /\ n \in 1..(p + 1)
      /\ \A l \in 1..n : s[l] <= a
  BY <1>0, StartsType
<1>3. /\ n <= Len(z)
      /\ \A l \in 1..n : z[l] = s[l]
      /\ \A l \in (n + 1)..Len(z) : a < z[l]
  BY <1>0, <1>1, StartsLater
<1>4. /\ Len(z) \in Nat
      /\ \A l \in 1..Len(z) : z[l] \in Nat
  <2>1. z \in Seq(Nat)
    BY <1>0, <1>1, StartsType
  <2> QED
    BY <2>1, LenProperties, ElementOfSeq
<1>5. a \in Nat
  BY <1>0, OffsetType
<1>6. LineOf(a) = CHOOSE l \in 1..Len(z) : On(l)
  BY DEF LineOf
<1> HIDE DEF N, s, z, a, n
<1>7. n \in 1..Len(z) /\ On(n)
  <2>1. n \in 1..Len(z) /\ n \in 1..n
    BY <1>2, <1>3, <1>4
  <2>2. z[n] <= a
    BY <1>2, <1>3, <2>1
  <2>3. n # Len(z) => n + 1 \in (n + 1)..Len(z)
    BY <1>2, <1>3, <1>4
  <2> QED
    BY <1>3, <2>1, <2>2, <2>3
<1>8. ASSUME NEW l \in 1..Len(z), On(l)
      PROVE  l = n
  <2>1. CASE l < n
    <3>1. l + 1 \in 1..n /\ l # Len(z) /\ l + 1 \in 1..Len(z)
      BY <1>2, <1>3, <1>4, <2>1
    <3>2. z[l + 1] <= a /\ z[l + 1] \in Nat
      BY <1>2, <1>3, <1>4, <3>1
    <3> QED
      BY <1>5, <1>8, <3>1, <3>2
  <2>2. CASE l > n
    <3>1. l \in (n + 1)..Len(z)
      BY <1>2, <1>4, <2>2
    <3>2. a < z[l] /\ z[l] \in Nat
      BY <1>3, <1>4, <3>1
    <3> QED
      BY <1>5, <1>8, <3>2
  <2> QED
    BY <1>2, <1>4, <2>1, <2>2
<1>9. LineOf(a) = n
  <2> HIDE DEF On
  <2> QED
    BY <1>6, <1>7, <1>8
<1>10. n \in 1..n
  BY <1>2
<1> QED
  BY <1>3, <1>7, <1>9, <1>10 DEF a, n, s, z
-----------------------------------------------------------------------------
(* Lines *)

LEMMA MaxIs ==
    ASSUME NEW n \in Nat, NEW D \in SUBSET (0..n), D # {}
    PROVE  Max(D) \in D /\ \A y \in D : y <= Max(D)
<1> DEFINE Greatest(k) == \E m \in D : m <= k /\ \A y \in D : y <= k => y <= m
           S == {k \in 0..n : (\A y \in D : y > k) \/ Greatest(k)}
<1>1. 0 \in S
  <2>1. CASE 0 \in D
    <3>1. Greatest(0)
      BY <2>1
    <3> QED
      BY <3>1
  <2>2. CASE 0 \notin D
    <3>1. \A y \in D : y > 0
      BY <2>2
    <3> QED
      BY <3>1
  <2> QED
    BY <2>1, <2>2
<1>2. ASSUME NEW k \in 0..(n - 1), k \in S
      PROVE  k + 1 \in S
  <2>1. CASE k + 1 \in D
    <3>1. Greatest(k + 1)
      BY <2>1
    <3> QED
      BY <3>1
  <2>2. CASE k + 1 \notin D
    <3>1. \A y \in D : y <= k + 1 => y <= k
      BY <2>2
    <3>2. CASE \A y \in D : y > k
      <4>1. \A y \in D : y > k + 1
        BY <3>1, <3>2
      <4> QED
        BY <4>1
    <3>3. CASE Greatest(k)
      <4>1. PICK m \in D : m <= k /\ \A y \in D : y <= k => y <= m
        BY <3>3
      <4>2. m <= k + 1 /\ \A y \in D : y <= k + 1 => y <= m
        BY <3>1, <4>1
      <4> QED
        BY <4>2
    <3> QED
      BY <1>2, <3>2, <3>3
  <2> QED
    BY <2>1, <2>2
<1>3. \A k \in 0..n : k \in S
  <2> HIDE DEF S
  <2> QED
    BY <1>1, <1>2, UpTo
<1>4. Greatest(n)
  <2>1. n \in S
    BY <1>3
  <2>2. PICK y \in D : TRUE
    OBVIOUS
  <2>3. ~(y > n)
    OBVIOUS
  <2> QED
    BY <2>1, <2>3
<1>5. PICK m \in D : \A y \in D : y <= m
  BY <1>4
<1>6. \A y \in D : m >= y
  BY <1>5
<1>7. Max(D) \in D /\ \A y \in D : Max(D) >= y
  BY <1>6 DEF Max
<1> QED
  BY <1>7

\* The characters up to the end of the line before.
Begin(i) == IF Breaks(i) # {} THEN Max(Breaks(i)) ELSE 0
Broken(k) == \/ file[k] = "n"
             \/ file[k] = "r" /\ (k = Len(file) \/ file[k + 1] # "n")

\* The character before is not the first half of a line end.
Behind(i) == i \in 1..Len(file) => ~Dropped(file, i)

LEMMA BreaksAre ==
    ASSUME NEW i \in Nat
    PROVE  /\ Breaks(i) \in SUBSET (1..i) /\ IsFiniteSet(Breaks(i))
           /\ Cardinality(Breaks(i)) \in 0..i
           /\ Begin(i) \in 0..i
           /\ Breaks(i) # {} => Begin(i) \in Breaks(i)
           /\ Breaks(i) = {} => Begin(i) = 0
           /\ \A k \in Breaks(i) : k <= Begin(i)
<1>1. Breaks(i) \in SUBSET (1..i)
  BY DEF Breaks
<1>2. IsFiniteSet(1..i) /\ Cardinality(1..i) = i
  BY FS_Interval
<1>3. IsFiniteSet(Breaks(i)) /\ Cardinality(Breaks(i)) \in Nat /\ Cardinality(Breaks(i)) <= i
  BY <1>1, <1>2, FS_Subset, FS_CardinalityType
<1>4. CASE Breaks(i) = {}
  BY <1>1, <1>3, <1>4 DEF Begin
<1>5. CASE Breaks(i) # {}
  <2>1. Breaks(i) \in SUBSET (0..i)
    BY <1>1
  <2>2. Max(Breaks(i)) \in Breaks(i) /\ \A k \in Breaks(i) : k <= Max(Breaks(i))
    BY <1>5, <2>1, MaxIs
  <2>3. Begin(i) = Max(Breaks(i))
    BY <1>5 DEF Begin
  <2> QED
    BY <1>1, <1>3, <1>5, <2>1, <2>2, <2>3
<1> QED
  BY <1>4, <1>5

\* One more character ends the line or not.
LEMMA BreaksStep ==
    ASSUME NEW i \in Nat
    PROVE  /\ Broken(i + 1) => /\ Cardinality(Breaks(i + 1)) = Cardinality(Breaks(i)) + 1
                               /\ Begin(i + 1) = i + 1
           /\ ~Broken(i + 1) => Breaks(i + 1) = Breaks(i) /\ Begin(i + 1) = Begin(i)
<1>1. \A k \in 1..(i + 1) : k \in 1..i \/ k = i + 1
  OBVIOUS
<1>2. CASE Broken(i + 1)
  <2>1. Breaks(i + 1) = Breaks(i) \cup {i + 1}
    BY <1>1, <1>2 DEF Breaks, Broken
  <2>2. IsFiniteSet(Breaks(i)) /\ i + 1 \notin Breaks(i)
    BY BreaksAre
  <2>3. Cardinality(Breaks(i + 1)) = Cardinality(Breaks(i)) + 1
    BY <2>1, <2>2, FS_AddElement
  <2>4. i + 1 \in Nat /\ i + 1 \in Breaks(i + 1)
    BY <2>1
  <2>5. Begin(i + 1) \in 0..(i + 1) /\ i + 1 <= Begin(i + 1)
    BY <2>4, BreaksAre
  <2> QED
    BY <1>2, <2>3, <2>5
<1>3. CASE ~Broken(i + 1)
  <2>1. Breaks(i + 1) = Breaks(i)
    BY <1>1, <1>3 DEF Breaks, Broken
  <2> QED
    BY <1>3, <2>1 DEF Begin
<1> QED
  BY <1>2, <1>3

\* Line by line the text is the file.
LEMMA LinesAre ==
    ASSUME SourceInv, NEW i \in 0..Len(file)
    PROVE  /\ Len(StartsTo(text)[Became(file, i)]) = Cardinality(Breaks(i)) + 1
           /\ StartsTo(text)[Became(file, i)][Cardinality(Breaks(i)) + 1]
                 = Offset(text)[Became(file, Begin(i))]
           /\ Behind(i) =>
                 /\ Became(file, i) - Became(file, Begin(i)) = i - Begin(i)
                 /\ \A k \in (Begin(i) + 1)..i :
                       /\ ~IsBreak(file[k])
                       /\ text[Became(file, Begin(i)) + (k - Begin(i))] = file[k]
<1> DEFINE N == Len(file)
           K(j) == Became(file, j)
           Lines(j) == /\ Len(StartsTo(text)[K(j)]) = Cardinality(Breaks(j)) + 1
                       /\ StartsTo(text)[K(j)][Cardinality(Breaks(j)) + 1] = Offset(text)[K(Begin(j))]
           Same(j) == Behind(j) =>
                         /\ K(j) - K(Begin(j)) = j - Begin(j)
                         /\ \A k \in (Begin(j) + 1)..j :
                               ~IsBreak(file[k]) /\ text[K(Begin(j)) + (k - Begin(j))] = file[k]
           S == {j \in 0..N : Lines(j) /\ Same(j)}
<1>0. N \in Nat /\ text \in Seq(Chars)
  BY FileType, TextIs
<1>1. 0 \in S
  <2>1. Breaks(0) = {} /\ Begin(0) = 0
    BY DEF Breaks, Begin
  <2>2. Cardinality(Breaks(0)) = 0
    BY <2>1, FS_EmptySet
  <2>3. K(0) = 0
    BY TextIs
  <2>4. StartsTo(text)[0] = <<0>> /\ Offset(text)[0] = 0
    BY <1>0, StartsToIs, OffsetIs
  <2>5. Lines(0)
    <3>1. StartsTo(text)[K(0)] = <<0>> /\ Offset(text)[K(Begin(0))] = 0
      BY <2>1, <2>3, <2>4
    <3>2. Cardinality(Breaks(0)) + 1 = 1 /\ Len(<<0>>) = 1 /\ <<0>>[1] = 0
      BY <2>2
    <3> HIDE DEF K
    <3> QED
      BY <3>1, <3>2
  <2>6. Same(0)
    BY <2>1, <2>3
  <2>7. 0 \in 0..N
    BY <1>0
  <2> QED
    BY <2>5, <2>6, <2>7
<1>2. ASSUME NEW j \in 0..(N - 1), j \in S
      PROVE  j + 1 \in S
  <2>1. j + 1 \in 1..N /\ (j + 1) - 1 = j /\ j + 1 \in 0..N /\ j \in 0..N /\ j \in Nat /\ j + 1 \in Nat
    BY <1>0
  <2>2. /\ IF Dropped(file, j + 1) THEN K(j + 1) = K(j)
           ELSE K(j + 1) = K(j) + 1 /\ text[K(j + 1)] = Becomes(file[j + 1])
        /\ K(j) \in 0..Len(text) /\ K(j + 1) \in 0..Len(text) /\ Len(text) \in Nat
    <3>1. j + 1 \in 1..Len(file) /\ j \in 0..Len(file) /\ j + 1 \in 0..Len(file)
      BY <2>1
    <3> QED
      BY <2>1, <3>1, TextIs
  <2>3. Lines(j) /\ Same(j)
    BY <1>2
  <2>4. Cardinality(Breaks(j)) \in Nat /\ Begin(j) \in 0..j
    BY <2>1, BreaksAre
  <2>5. K(j) + 1 = K(j + 1) => /\ K(j + 1) \in 1..Len(text) /\ K(j + 1) - 1 = K(j)
                               /\ StartsTo(text)[K(j)] \in Seq(Nat)
    <3>1. StartsTo(text)[K(j)] \in Seq(Nat)
      <4> HIDE DEF K
      <4> QED
        BY <1>0, <2>2, StartsType
    <3> HIDE DEF K
    <3> QED
      BY <2>2, <3>1
  <2>6. CASE Broken(j + 1)
    <3>1. ~Dropped(file, j + 1) /\ Becomes(file[j + 1]) = "n"
      BY <2>6 DEF Broken, Dropped, Becomes
    <3>2. Breaking(text, K(j + 1)) /\ K(j + 1) = K(j) + 1
      BY <2>2, <3>1 DEF Breaking
    <3>3. /\ Len(StartsTo(text)[K(j + 1)]) = Len(StartsTo(text)[K(j)]) + 1
          /\ StartsTo(text)[K(j + 1)][Len(StartsTo(text)[K(j + 1)])] = Offset(text)[K(j + 1)]
      <4>1. K(j + 1) \in 1..Len(text) /\ StartsTo(text)[K(j + 1) - 1] \in Seq(Nat) /\ K(j + 1) - 1 = K(j)
        BY <2>5, <3>2
      <4> HIDE DEF K
      <4> QED
        BY <1>0, <3>2, <4>1, StartsStep
    <3>4. Cardinality(Breaks(j + 1)) = Cardinality(Breaks(j)) + 1 /\ Begin(j + 1) = j + 1
      BY <2>1, <2>6, BreaksStep
    <3>5. Lines(j + 1)
      BY <2>3, <2>4, <3>3, <3>4
    <3>6. Same(j + 1)
      <4>1. K(j + 1) - K(j + 1) = (j + 1) - (j + 1)
        BY <2>1, <2>2
      <4>2. ((j + 1) + 1)..(j + 1) = {}
        BY <2>1
      <4> HIDE DEF K
      <4> QED
        BY <3>4, <4>1, <4>2
    <3> QED
      BY <2>1, <3>5, <3>6
  <2>7. CASE ~Broken(j + 1)
    <3>1. Breaks(j + 1) = Breaks(j) /\ Begin(j + 1) = Begin(j)
      BY <2>1, <2>7, BreaksStep
    <3>2. CASE Dropped(file, j + 1)
      <4>1. K(j + 1) = K(j)
        BY <2>2, <3>2
      <4>2. Lines(j + 1)
        BY <2>3, <3>1, <4>1
      <4>3. Same(j + 1)
        BY <2>1, <3>2 DEF Behind
      <4> QED
        BY <2>1, <4>2, <4>3
    <3>3. CASE ~Dropped(file, j + 1)
      <4>1. file[j + 1] # "n" /\ file[j + 1] # "r"
        <5>1. file[j + 1] # "n"
          BY <2>7 DEF Broken
        <5>2. file[j + 1] = "r" => j + 1 < Len(file) /\ file[(j + 1) + 1] = "n"
          BY <1>0, <2>1, <2>7 DEF Broken
        <5> QED
          BY <3>3, <5>1, <5>2 DEF Dropped
      <4>2. Becomes(file[j + 1]) = file[j + 1] /\ ~IsBreak(file[j + 1])
        BY <4>1 DEF Becomes, IsBreak
      <4>3. K(j + 1) = K(j) + 1 /\ text[K(j + 1)] = file[j + 1]
        BY <2>2, <3>3, <4>2
      <4>4. ~Breaking(text, K(j + 1))
        BY <4>1, <4>3 DEF Breaking
      <4>5. StartsTo(text)[K(j + 1)] = StartsTo(text)[K(j)]
        <5>1. K(j + 1) \in 1..Len(text) /\ StartsTo(text)[K(j + 1) - 1] \in Seq(Nat) /\ K(j + 1) - 1 = K(j)
          BY <2>5, <4>3
        <5> HIDE DEF K
        <5> QED
          BY <1>0, <4>4, <5>1, StartsStep
      <4>6. Lines(j + 1)
        BY <2>3, <3>1, <4>5
      <4>7. Behind(j)
        <5>1. (j + 1) # j /\ (Dropped(file, j) => file[j + 1] = "n")
          BY DEF Dropped
        <5> QED
          BY <4>1, <5>1 DEF Behind
      <4>8. Same(j + 1)
        <5> DEFINE b == Begin(j)
                   c == K(b)
        <5>1. /\ K(j) - c = j - b
              /\ \A k \in (b + 1)..j : ~IsBreak(file[k]) /\ text[c + (k - b)] = file[k]
          BY <2>3, <4>7
        <5>2. K(b) \in Nat
          <6>1. b \in 0..Len(file)
            BY <2>1, <2>4
          <6> QED
            BY <6>1, TextIs
        <5>3. b \in 0..j
          BY <2>4
        <5>4. Begin(j + 1) = b
          BY <3>1
        <5> DEFINE x == K(j)
                   y == K(j + 1)
        <5>5. x - c = j - b /\ c \in Nat /\ x \in Nat /\ y = x + 1 /\ text[y] = file[j + 1]
          BY <2>2, <4>3, <5>1, <5>2
        <5> HIDE DEF b, c, x, y, K
        <5>6. y - c = (j + 1) - b /\ y = c + ((j + 1) - b)
          <6>1. b \in Int /\ j \in Int
            BY <2>1, <5>3
          <6> QED
            BY <5>5, <6>1
        <5>7. \A k \in (b + 1)..(j + 1) : k \in (b + 1)..j \/ k = j + 1
          BY <2>1, <5>3
        <5>8. \A k \in (b + 1)..(j + 1) : ~IsBreak(file[k]) /\ text[c + (k - b)] = file[k]
          BY <4>2, <5>1, <5>5, <5>6, <5>7
        <5> QED
          BY <5>4, <5>6, <5>8 DEF y, c
      <4> QED
        BY <2>1, <4>6, <4>8
    <3> QED
      BY <3>2, <3>3
  <2> QED
    BY <2>6, <2>7
<1>3. \A j \in 0..N : j \in S
  <2> HIDE DEF S
  <2> QED
    BY <1>0, <1>1, <1>2, UpTo
<1>4. Lines(i) /\ Same(i)
  BY <1>3
<1> QED
  BY <1>4
-----------------------------------------------------------------------------
(* Columns *)

\* Between the ends of two characters there are those behind the first.
LEMMA WidthIs ==
    ASSUME SourceInv, NEW q \in 0..Len(text), NEW r \in 0..Len(text), q <= r
    PROVE  CharsBetween(Offset(text)[q], Offset(text)[r]) = r - q
<1> DEFINE N == Len(text)
           o == Offset(text)
           D == {k \in 1..N : o[q] < o[k] /\ o[k] <= o[r]}
<1>0. text \in Seq(Chars) /\ N \in Nat
  BY TextIs
<1>1. \A j, k \in 0..N : o[j] \in Nat /\ (o[j] < o[k] <=> j < k)
  BY <1>0, OffsetType, Between
<1>2. CharsBetween(o[q], o[r]) = Cardinality(D)
  BY DEF CharsBetween
<1> HIDE DEF N, o
<1>3. q \in 0..N /\ r \in 0..N
  BY DEF N
<1>4. \A k \in 1..N : k \in D <=> k \in (q + 1)..r
  <2> TAKE k \in 1..N
  <2>1. k \in 0..N
    BY <1>0
  <2>2. (o[q] < o[k] <=> q < k) /\ (o[r] < o[k] <=> r < k) /\ o[q] \in Nat /\ o[k] \in Nat /\ o[r] \in Nat
    BY <1>1, <1>3, <2>1
  <2> QED
    BY <1>0, <1>3, <2>1, <2>2
<1>5. D = (q + 1)..r
  <2>1. \A k \in (q + 1)..r : k \in 1..N
    BY <1>0, <1>3
  <2> QED
    BY <1>4, <2>1
<1>6. Cardinality((q + 1)..r) = r - q
  <2>1. Cardinality((q + 1)..r) = IF q + 1 > r THEN 0 ELSE r - (q + 1) + 1
    BY <1>0, <1>3, FS_Interval
  <2> QED
    BY <1>0, <1>3, <2>1
<1> QED
  BY <1>2, <1>5, <1>6 DEF o

\* In so many bytes there are not more characters, and more in more.
LEMMA FewChars ==
    ASSUME SourceInv, NEW q \in 0..Len(text), NEW c \in Nat, NEW d \in Nat, c <= d
    PROVE  /\ CharsBetween(Offset(text)[q], Offset(text)[q] + c) \in 0..c
           /\ CharsBetween(Offset(text)[q], Offset(text)[q] + c)
                 <= CharsBetween(Offset(text)[q], Offset(text)[q] + d)
<1> DEFINE N == Len(text)
           o == Offset(text)
           D(e) == {k \in 1..N : o[q] < o[k] /\ o[k] <= o[q] + e}
<1>0. text \in Seq(Chars) /\ N \in Nat
  BY TextIs
<1>1. \A j \in 0..N : o[j] \in Nat
  BY <1>0, OffsetType
<1>2. \A j, k \in 0..N : /\ j <= k => o[k] - o[j] >= k - j
                         /\ o[j] < o[k] => j < k
  BY <1>0, OffsetGrows, Between
<1>3. \A e : CharsBetween(o[q], o[q] + e) = Cardinality(D(e))
  BY DEF CharsBetween
<1> HIDE DEF N, o
<1>4. q \in 0..N
  BY DEF N
<1>5. ASSUME NEW e \in Nat
      PROVE  /\ IsFiniteSet(D(e)) /\ Cardinality(D(e)) \in 0..e
  <2>1. ASSUME NEW k \in D(e)
        PROVE  k \in (q + 1)..(q + e)
    <3>1. k \in 0..N /\ o[q] < o[k] /\ o[k] <= o[q] + e
      BY <1>0
    <3>2. q < k
      BY <1>2, <1>4, <3>1
    <3>3. o[k] - o[q] >= k - q /\ o[k] \in Nat /\ o[q] \in Nat
      BY <1>0, <1>1, <1>2, <1>4, <3>1, <3>2
    <3> QED
      BY <1>0, <1>4, <3>1, <3>2, <3>3
  <2>2. D(e) \in SUBSET ((q + 1)..(q + e))
    BY <2>1
  <2>3. IsFiniteSet((q + 1)..(q + e)) /\ Cardinality((q + 1)..(q + e)) = e
    <3>1. q + 1 \in Int /\ q + e \in Int
      BY <1>0, <1>4
    <3>2. /\ IsFiniteSet((q + 1)..(q + e))
          /\ Cardinality((q + 1)..(q + e)) = IF q + 1 > q + e THEN 0 ELSE (q + e) - (q + 1) + 1
      BY <3>1, FS_Interval
    <3> QED
      BY <1>0, <1>4, <3>2
  <2> HIDE DEF D
  <2>4. IsFiniteSet(D(e)) /\ Cardinality(D(e)) <= e
    BY <2>2, <2>3, FS_Subset
  <2>5. Cardinality(D(e)) \in Nat
    BY <2>4, FS_CardinalityType
  <2> QED
    BY <2>4, <2>5
<1>6. Cardinality(D(c)) <= Cardinality(D(d))
  <2>1. ASSUME NEW k \in D(c)
        PROVE  k \in D(d)
    <3>1. k \in 1..N /\ o[q] < o[k] /\ o[k] <= o[q] + c /\ k \in 0..N
      BY <1>0
    <3>2. o[k] \in Nat /\ o[q] \in Nat
      BY <1>1, <1>4, <3>1
    <3>3. o[k] <= o[q] + d
      BY <3>1, <3>2
    <3> QED
      BY <3>1, <3>3
  <2>2. D(c) \in SUBSET D(d) /\ IsFiniteSet(D(d))
    BY <1>5, <2>1
  <2> HIDE DEF D
  <2> QED
    BY <2>2, FS_Subset
<1>7. Cardinality(D(c)) \in 0..c
  BY <1>5
<1>8. /\ CharsBetween(o[q], o[q] + c) = Cardinality(D(c))
      /\ CharsBetween(o[q], o[q] + d) = Cardinality(D(d))
  BY <1>3
<1> HIDE DEF D
<1>9. /\ CharsBetween(o[q], o[q] + c) \in 0..c
      /\ CharsBetween(o[q], o[q] + c) <= CharsBetween(o[q], o[q] + d)
  BY <1>6, <1>7, <1>8
<1> QED
  BY <1>9 DEF o

\* What Python counts.
Line(i) == Cardinality(Breaks(i)) + 1
Col(i)  == i - (IF Breaks(i) # {} THEN Max(Breaks(i)) ELSE IF file[1] = "B" THEN 1 ELSE 0)

\* A place behind i characters that a tree names.
Place(i) == i \in 0..Len(file) /\ Len(file) > 0 /\ Behind(i) /\ (file[1] = "B" => i >= 1)

\* The offset of a place is on its line.
LEMMA InTextIs ==
    ASSUME SourceInv, NEW i \in 0..Len(file)
    PROVE  /\ LineOf(InText(i)) = Line(i)
           /\ Line(i) \in 1..(Len(file) + 1)
           /\ Line(i) = 1 <=> Breaks(i) = {}
           /\ InText(i) = Offset(text)[Became(file, i)]
           /\ line_starts[Line(i)] = Offset(text)[Became(file, Begin(i))]
           /\ Begin(i) \in 0..i /\ Became(file, Begin(i)) \in 0..Became(file, i)
           /\ Became(file, i) \in 0..Len(text)
<1>1. InText(i) = Offset(text)[Became(file, i)]
  BY DEF InText, Became
<1>2. Became(file, i) \in 0..Len(text) /\ Len(file) \in Nat
  BY TextIs, FileType
<1>3. /\ Len(StartsTo(text)[Became(file, i)]) = Line(i)
      /\ StartsTo(text)[Became(file, i)][Line(i)] = Offset(text)[Became(file, Begin(i))]
  BY LinesAre DEF Line
<1>4. LineOf(InText(i)) = Line(i) /\ line_starts[Line(i)] = Offset(text)[Became(file, Begin(i))]
  BY <1>1, <1>2, <1>3, LineOfIs
<1>5. i \in Nat /\ Cardinality(Breaks(i)) \in 0..i /\ IsFiniteSet(Breaks(i)) /\ Begin(i) \in 0..i
  BY <1>2, BreaksAre
<1>6. Cardinality(Breaks(i)) = 0 <=> Breaks(i) = {}
  BY <1>5, FS_EmptySet
<1>7. Begin(i) \in 0..Len(file) /\ Begin(i) <= i
  BY <1>2, <1>5
<1>8. Became(file, Begin(i)) \in Nat /\ Became(file, Begin(i)) <= Became(file, i)
  BY <1>7, TextIs
<1> QED
  BY <1>1, <1>2, <1>4, <1>5, <1>6, <1>8 DEF Line

LEMMA ColIs ==
    ASSUME SourceInv, NEW i \in 0..Len(file), Len(file) > 0, file[1] = "B" => i >= 1
    PROVE  /\ Col(i) \in 0..i
           /\ Col(i) = IF Breaks(i) = {} /\ file[1] = "B" THEN i - 1 ELSE i - Begin(i)
<1>1. i \in Nat
  BY FileType
<1>2. Begin(i) \in 0..i
  BY <1>1, BreaksAre
<1>3. CASE Breaks(i) = {}
  BY <1>1, <1>3 DEF Col, Begin
<1>4. CASE Breaks(i) # {}
  <2>1. Col(i) = i - Begin(i)
    BY <1>4 DEF Col, Begin
  <2> QED
    BY <1>1, <1>2, <1>4, <2>1
<1> QED
  BY <1>3, <1>4

\* The mark of the text is that of the file.
LEMMA MarkIs ==
    ASSUME SourceInv, Len(file) > 0
    PROVE  text # << >> /\ text[1] = "B" <=> file[1] = "B"
<1>1. text \in Seq(Chars) /\ Len(text) \in Nat /\ Len(file) \in Nat /\ file \in Seq(Chars)
  BY TextIs, FileType
<1>2. ASSUME text # << >>, text[1] = "B"
      PROVE  file[1] = "B"
  <2>1. 1 \in 1..Len(text)
    BY <1>1, <1>2, EmptySeq
  <2> QED
    BY <1>2, <2>1, TextIs
<1>3. ASSUME file[1] = "B"
      PROVE  text # << >> /\ text[1] = "B"
  <2>1. 1 \in 1..Len(file) /\ 1 - 1 = 0 /\ 1 \in 0..Len(file)
    BY <1>1
  <2>2. ~Dropped(file, 1) /\ Becomes(file[1]) = "B"
    BY <1>3 DEF Dropped, Becomes
  <2>3. Became(file, 1) = Became(file, 0) + 1 /\ text[Became(file, 1)] = "B" /\ Became(file, 0) = 0
    BY <2>1, <2>2, TextIs
  <2>4. Became(file, 1) = 1 /\ Became(file, 1) \in 0..Len(text)
    BY <2>1, <2>3, TextIs
  <2>5. text # << >>
    BY <1>1, <2>4
  <2> QED
    BY <2>3, <2>4, <2>5
<1> QED
  BY <1>2, <1>3

\* The line index counts as Python does, from 1.
LEMMA ColumnIs ==
    ASSUME SourceInv, NEW i, Place(i)
    PROVE  Column(InText(i)) = 1 + Col(i)
<1> DEFINE p == Became(file, i)
           b == Begin(i)
           q == Became(file, b)
           o == Offset(text)
<1>0. i \in 0..Len(file) /\ Len(file) > 0 /\ Len(file) \in Nat /\ Behind(i) /\ (file[1] = "B" => i >= 1)
  BY FileType DEF Place
<1>1. /\ InText(i) = o[p] /\ LineOf(o[p]) = Line(i) /\ line_starts[Line(i)] = o[q]
      /\ Line(i) = 1 <=> Breaks(i) = {}
      /\ b \in 0..i /\ q \in 0..p /\ p \in 0..Len(text) /\ Len(text) \in Nat
  BY <1>0, InTextIs, TextIs, SMTT(60)
<1>2. p - q = i - b
  BY <1>0, LinesAre
<1>3. text \in Seq(Chars) /\ q \in 0..Len(text) /\ q <= p
  BY <1>1, TextIs
<1>4. o[p] \in Nat /\ o[q] \in Nat
  BY <1>1, <1>3, OffsetType
<1>5. (IF Ascii(text) THEN o[p] - o[q] ELSE CharsBetween(o[q], o[p])) = i - b
  <2>1. CASE Ascii(text)
    <3>1. \A m \in (q + 1)..p : Size(text[m]) = 1
      <4>1. \A m \in (q + 1)..p : m \in 1..Len(text)
        BY <1>1
      <4> QED
        BY <2>1, <4>1 DEF Ascii
    <3>2. o[p] - o[q] = p - q
      BY <1>1, <1>3, <3>1, OffsetGrows
    <3> QED
      BY <1>2, <2>1, <3>2
  <2>2. CASE ~Ascii(text)
    <3>1. CharsBetween(o[q], o[p]) = p - q
      BY <1>1, <1>3, WidthIs
    <3> QED
      BY <1>2, <2>2, <3>1
  <2> QED
    BY <2>1, <2>2
<1>6. Column(o[p]) = IF Breaks(i) = {} /\ text # << >> /\ text[1] = "B"
                     THEN SaturatingPred(1 + (i - b)) ELSE 1 + (i - b)
  <2> DEFINE c == 1 + IF Ascii(text) THEN o[p] - o[q] ELSE CharsBetween(o[q], o[p])
  <2>1. c = 1 + (i - b)
    BY <1>5
  <2>2. Column(o[p]) = IF Line(i) = 1 /\ text # << >> /\ text[1] = "B" THEN SaturatingPred(c) ELSE c
    BY <1>1 DEF Column
  <2> HIDE DEF c
  <2> QED
    BY <1>1, <2>1, <2>2
<1>7. text # << >> /\ text[1] = "B" <=> file[1] = "B"
  BY <1>0, MarkIs
<1>8. Col(i) = IF Breaks(i) = {} /\ file[1] = "B" THEN i - 1 ELSE i - b
  BY <1>0, ColIs
<1>9. Breaks(i) = {} => b = 0
  BY DEF Begin
<1> HIDE DEF p, q, o, b
<1>10. CASE Breaks(i) = {} /\ file[1] = "B"
  <2>1. Column(o[p]) = SaturatingPred(1 + i)
    BY <1>0, <1>6, <1>7, <1>9, <1>10
  <2>2. SaturatingPred(1 + i) = i
    BY <1>0, <1>10 DEF SaturatingPred
  <2> QED
    BY <1>0, <1>1, <1>8, <1>10, <2>1, <2>2
<1>11. CASE ~(Breaks(i) = {} /\ file[1] = "B")
  BY <1>1, <1>6, <1>7, <1>8, <1>11
<1> QED
  BY <1>10, <1>11
-----------------------------------------------------------------------------
(* Conversion *)

\* Whether the columns of a line are converted.
Converted(l) == l <= Len(lines_with_non_ascii) /\ lines_with_non_ascii[l]

\* Conversion makes no column larger, and none larger than a later one's.
LEMMA ConvertBound ==
    ASSUME SourceInv, NEW i \in 0..Len(file), NEW c \in Nat, NEW d \in Nat, c <= d
    PROVE  /\ ConvertColumnToCodepoint(Line(i), c) \in 0..c
           /\ ConvertColumnToCodepoint(Line(i), c) <= ConvertColumnToCodepoint(Line(i), d)
<1> DEFINE l == Line(i)
           q == Became(file, Begin(i))
           s == Offset(text)[q]
<1>1. line_starts[l] = s /\ q \in 0..Len(text)
  <2>1. q \in 0..Became(file, i) /\ Became(file, i) \in 0..Len(text) /\ Len(text) \in Nat
    BY InTextIs, TextIs
  <2> QED
    BY <2>1, InTextIs
<1>2. /\ CharsBetween(s, s + c) \in 0..c
      /\ CharsBetween(s, s + c) <= CharsBetween(s, s + d)
  BY <1>1, FewChars
<1>3. \A e : ConvertColumnToCodepoint(l, e)
                = IF Converted(l) THEN CharsBetween(line_starts[l], line_starts[l] + e) ELSE e
  BY DEF ConvertColumnToCodepoint, Converted
<1> HIDE DEF l, q, s
<1>4. CASE Converted(l)
  <2>1. /\ ConvertColumnToCodepoint(l, c) = CharsBetween(s, s + c)
        /\ ConvertColumnToCodepoint(l, d) = CharsBetween(s, s + d)
    BY <1>1, <1>3, <1>4
  <2> QED
    BY <1>2, <2>1 DEF l
<1>5. CASE ~Converted(l)
  <2>1. ConvertColumnToCodepoint(l, c) = c /\ ConvertColumnToCodepoint(l, d) = d
    BY <1>3, <1>5
  <2> QED
    BY <2>1 DEF l
<1> QED
  BY <1>4, <1>5

LEMMA MinIs ==
    ASSUME NEW a \in Int, NEW b \in Int
    PROVE  Min({a, b}) = IF a <= b THEN a ELSE b
<1>1. CASE a <= b
  <2>1. a \in {a, b} /\ \A y \in {a, b} : a <= y
    BY <1>1
  <2>2. \A x \in {a, b} : (\A y \in {a, b} : x <= y) => x = a
    BY <1>1
  <2>3. Min({a, b}) = a
    BY <2>1, <2>2 DEF Min
  <2> QED
    BY <1>1, <2>3
<1>2. CASE ~(a <= b)
  <2>1. b \in {a, b} /\ \A y \in {a, b} : b <= y
    BY <1>2
  <2>2. \A x \in {a, b} : (\A y \in {a, b} : x <= y) => x = b
    BY <1>2
  <2>3. Min({a, b}) = b
    BY <2>1, <2>2 DEF Min
  <2> QED
    BY <1>2, <2>3
<1> QED
  BY <1>1, <1>2

\* The characters of an ASCII line take a byte each, and so does the next.
LEMMA BytesAre ==
    ASSUME SourceInv, NEW i, Place(i), AsciiUpTo(i),
           NEW m \in (Became(file, Begin(i)) + 1)..(Became(file, i) + 1), m <= Len(text)
    PROVE  Size(text[m]) = 1
<1> DEFINE N == Len(file)
           p == Became(file, i)
           b == Begin(i)
           q == Became(file, b)
<1>0. i \in 0..N /\ N \in Nat /\ N > 0 /\ Behind(i)
  BY FileType DEF Place
<1>1. /\ b \in 0..i /\ q \in 0..p /\ p \in 0..Len(text) /\ Len(text) \in Nat
      /\ p - q = i - b
      /\ \A k \in (b + 1)..i : ~IsBreak(file[k]) /\ text[q + (k - b)] = file[k]
  BY <1>0, InTextIs, TextIs, LinesAre
<1>2. \A k \in 1..N : k <= i + 1 /\ Size(file[k]) > 1 => \E e \in k..i : IsBreak(file[e])
  <2>1. Min({i + 1, N}) = IF i + 1 <= N THEN i + 1 ELSE N
    BY <1>0, MinIs
  <2>2. \A k \in 1..N : k <= i + 1 => k \in 1..Min({i + 1, N})
    BY <1>0, <2>1
  <2> QED
    BY <2>2 DEF AsciiUpTo
<1>3. \A k \in (b + 1)..(i + 1) : k <= N => Size(file[k]) = 1
  <2> TAKE k \in (b + 1)..(i + 1)
  <2> HAVE k <= N
  <2>1. k \in 1..N /\ k <= i + 1
    BY <1>0, <1>1
  <2>2. \A e \in k..i : e \in (b + 1)..i
    BY <1>0, <1>1
  <2>3. ~(Size(file[k]) > 1)
    BY <1>1, <1>2, <2>1, <2>2
  <2>4. Size(file[k]) \in 1..3
    BY SizeType
  <2> QED
    BY <2>3, <2>4
<1>4. CASE m <= p
  <2> DEFINE k == b + (m - q)
  <2>1. m \in (q + 1)..(p + 1)
    OBVIOUS
  <2> HIDE DEF q, b, p
  <2>2. k \in (b + 1)..i /\ q + (k - b) = m /\ k \in (b + 1)..(i + 1) /\ k <= N
    BY <1>0, <1>1, <1>4, <2>1
  <2>3. text[m] = file[k]
    BY <1>1, <2>2
  <2> QED
    BY <1>3, <2>2, <2>3
<1>5. CASE m = p + 1
  <2>1. i # N
    <3>1. Became(file, N) = Len(text)
      BY TextIs
    <3> QED
      BY <1>1, <1>5, <3>1
  <2>2. i + 1 \in 1..N /\ (i + 1) - 1 = i /\ i + 1 \in (b + 1)..(i + 1)
    BY <1>0, <1>1, <2>1
  <2>3. Size(file[i + 1]) = 1
    BY <1>3, <2>2
  <2>4. CASE ~Dropped(file, i + 1)
    <3>1. Became(file, i + 1) = p + 1 /\ text[Became(file, i + 1)] = Becomes(file[i + 1])
      BY <2>2, <2>4, TextIs
    <3>2. Size(Becomes(file[i + 1])) = 1
      BY <2>3, SizeType DEF Becomes
    <3> QED
      BY <1>5, <3>1, <3>2
  <2>5. CASE Dropped(file, i + 1)
    <3>1. Became(file, i + 1) = p
      BY <2>2, <2>5, TextIs
    <3>2. i + 1 < N /\ file[(i + 1) + 1] = "n"
      BY <2>5 DEF Dropped
    <3>3. (i + 1) + 1 \in 1..N /\ ((i + 1) + 1) - 1 = i + 1
      BY <1>0, <3>2
    <3>4. ~Dropped(file, (i + 1) + 1) /\ Becomes(file[(i + 1) + 1]) = "n"
      BY <3>2 DEF Dropped, Becomes
    <3>5. Became(file, (i + 1) + 1) = p + 1 /\ text[Became(file, (i + 1) + 1)] = "n"
      BY <3>1, <3>3, <3>4, TextIs
    <3> QED
      BY <1>5, <3>5, SizeType
  <2> QED
    BY <2>4, <2>5
<1> QED
  BY <1>1, <1>4, <1>5

\* Where the line is ASCII up to a place, conversion changes nothing.
LEMMA ConvertExact ==
    ASSUME SourceInv, NEW i, Place(i), AsciiUpTo(i)
    PROVE  \/ is_all_ascii
           \/ ConvertColumnToCodepoint(Line(i), 1 + Col(i)) = 1 + Col(i)
<1> SUFFICES ASSUME ~is_all_ascii, Converted(Line(i))
             PROVE  ConvertColumnToCodepoint(Line(i), 1 + Col(i)) = 1 + Col(i)
  BY DEF ConvertColumnToCodepoint, Converted
<1> DEFINE N == Len(file)
           p == Became(file, i)
           b == Begin(i)
           q == Became(file, b)
           o == Offset(text)
           l == Line(i)
<1>0. i \in 0..N /\ N \in Nat /\ N > 0 /\ Behind(i) /\ (file[1] = "B" => i >= 1)
  BY FileType DEF Place
<1>1. /\ b \in 0..i /\ q \in 0..p /\ p \in 0..Len(text) /\ Len(text) \in Nat
      /\ p - q = i - b /\ line_starts[l] = o[q] /\ l \in 1..(N + 1)
      /\ \A k \in (b + 1)..i : ~IsBreak(file[k])
      /\ text \in Seq(Chars)
  BY <1>0, InTextIs, TextIs, LinesAre
<1>2. PICK c \in 1..Len(text) : Size(text[c]) > 1 /\ o[q] < o[c]
  <2> DEFINE count == IF line_starts[Len(line_starts)] = Offset(text)[Len(text)]
                      THEN Len(line_starts) - 1 ELSE Len(line_starts)
             end(e) == IF e = Len(line_starts) THEN Offset(text)[Len(text)] ELSE line_starts[e + 1]
             Wide(e) == \E k \in 1..Len(text) : /\ Size(text[k]) > 1
                                                /\ line_starts[e] < Offset(text)[k]
                                                /\ Offset(text)[k] <= end(e)
  <2>1. lines_with_non_ascii = [e \in 1..count |-> Wide(e)]
    BY DEF SourceInv, LinesWithNonAscii
  <2>2. count \in Nat
    <3>1. Len(line_starts) \in Nat \ {0}
      <4>1. Len(text) \in 0..Len(text)
        BY <1>1
      <4>2. Len(line_starts) \in 1..(Len(text) + 1)
        BY <1>1, <4>1, StartsType DEF SourceInv, LineStarts
      <4> QED
        BY <4>2
    <3> QED
      BY <3>1
  <2> HIDE DEF count, Wide
  <2>3. Len(lines_with_non_ascii) = count
    BY <2>1, <2>2
  <2>4. l \in 1..count
    BY <1>1, <2>2, <2>3 DEF Converted
  <2>5. lines_with_non_ascii[l] = Wide(l)
    BY <2>1, <2>4
  <2>6. Wide(l)
    BY <2>5 DEF Converted
  <2> QED
    BY <1>1, <2>6 DEF Wide
<1>3. q \in 0..Len(text) /\ c \in 0..Len(text)
  BY <1>1
<1>4. q < c
  BY <1>1, <1>2, <1>3, Between
<1>5. \A m \in (q + 1)..(p + 1) : m <= Len(text) => Size(text[m]) = 1
  BY BytesAre
<1>6. p + 1 < c
  <2>1. ~(c \in (q + 1)..(p + 1))
    BY <1>1, <1>2, <1>5
  <2> QED
    BY <1>1, <1>4, <2>1
<1>7. p + 1 \in 0..Len(text) /\ q <= p + 1
  BY <1>1, <1>6
<1>8. o[p + 1] - o[q] = (p + 1) - q
  <2>1. \A m \in (q + 1)..(p + 1) : Size(text[m]) = 1
    <3>1. \A m \in (q + 1)..(p + 1) : m <= Len(text)
      BY <1>1, <1>7
    <3> QED
      BY <1>5, <3>1
  <2> QED
    BY <1>1, <1>3, <1>7, <2>1, OffsetGrows
<1>9. Col(i) = i - b
  <2>1. CASE Breaks(i) = {} /\ file[1] = "B"
    <3>1. b = 0 /\ 1 \in 1..i /\ 1 \in 1..N
      BY <1>0, <2>1 DEF Begin
    <3>2. Size(file[1]) > 1
      BY <2>1 DEF Size
    <3>3. Min({i + 1, N}) = IF i + 1 <= N THEN i + 1 ELSE N
      BY <1>0, MinIs
    <3>4. 1 \in 1..Min({i + 1, N})
      BY <1>0, <3>3
    <3>5. \E e \in 1..i : IsBreak(file[e])
      BY <3>2, <3>4 DEF AsciiUpTo
    <3> QED
      BY <1>1, <3>1, <3>5
  <2>2. CASE ~(Breaks(i) = {} /\ file[1] = "B")
    BY <1>0, <2>2, ColIs
  <2> QED
    BY <2>1, <2>2
<1>10. ConvertColumnToCodepoint(l, 1 + Col(i)) = CharsBetween(o[q], o[q] + (1 + Col(i)))
  BY <1>1 DEF ConvertColumnToCodepoint, Converted
<1>11. o[q] \in Nat /\ o[p + 1] \in Nat
  BY <1>1, <1>3, <1>7, OffsetType
<1>12. CharsBetween(o[q], o[p + 1]) = (p + 1) - q
  BY <1>3, <1>7, WidthIs
<1> HIDE DEF o, q, p, b, l
<1>13. o[q] + (1 + Col(i)) = o[p + 1] /\ (p + 1) - q = 1 + Col(i)
  <2>1. i \in Int /\ b \in Int /\ p \in Int /\ q \in Int /\ p - q = i - b
    BY <1>0, <1>1
  <2>2. (p + 1) - q = 1 + Col(i)
    BY <1>9, <2>1
  <2>3. Col(i) \in Int
    BY <1>9, <2>1
  <2> QED
    BY <1>8, <1>11, <2>2, <2>3
<1> QED
  BY <1>10, <1>12, <1>13 DEF l
-----------------------------------------------------------------------------
(* Nodes *)

\* The converted column of a place.
Conv(i) == IF is_all_ascii THEN 1 + Col(i) ELSE ConvertColumnToCodepoint(Line(i), 1 + Col(i))

\* Lines and columns in the order of the places.
LEMMA InOrder ==
    ASSUME SourceInv, NEW i \in 0..Len(file), NEW j \in 0..Len(file), i <= j
    PROVE  /\ Line(i) <= Line(j)
           /\ Line(i) = Line(j) => Breaks(i) = Breaks(j)
<1>1. i \in Nat /\ j \in Nat
  BY FileType
<1>2. Breaks(i) \in SUBSET Breaks(j)
  <2>1. \A k \in 1..i : k \in 1..j
    BY <1>1
  <2> QED
    BY <2>1 DEF Breaks
<1>3. IsFiniteSet(Breaks(j)) /\ Cardinality(Breaks(i)) \in Nat /\ Cardinality(Breaks(j)) \in Nat
  BY <1>1, BreaksAre
<1>4. /\ Cardinality(Breaks(i)) <= Cardinality(Breaks(j))
      /\ Cardinality(Breaks(j)) = Cardinality(Breaks(i)) => Breaks(j) = Breaks(i)
  BY <1>2, <1>3, FS_Subset
<1> QED
  BY <1>3, <1>4 DEF Line

LEMMA SameLine ==
    ASSUME NEW i \in Int, NEW j \in Int, Breaks(i) = Breaks(j), Col(i) \in Int
    PROVE  Col(j) = Col(i) + (j - i) /\ Line(i) = Line(j)
<1> DEFINE b == IF Breaks(i) # {} THEN Max(Breaks(i)) ELSE IF file[1] = "B" THEN 1 ELSE 0
<1>1. Col(i) = i - b /\ Col(j) = j - b
  BY DEF Col
<1>2. b \in Int
  <2>1. CASE Breaks(i) # {}
    <3>1. Breaks(i) \in SUBSET (1..i)
      BY DEF Breaks
    <3>2. i \in Nat /\ Breaks(i) \in SUBSET (0..i)
      BY <2>1, <3>1
    <3>3. Max(Breaks(i)) \in Breaks(i)
      BY <2>1, <3>2, MaxIs
    <3> QED
      BY <2>1, <3>1, <3>3
  <2>2. CASE Breaks(i) = {}
    BY <2>2
  <2> QED
    BY <2>1, <2>2
<1> HIDE DEF b
<1>3. Col(j) = Col(i) + (j - i)
  BY <1>1, <1>2
<1> QED
  BY <1>3 DEF Line

LEMMA ConvIs ==
    ASSUME SourceInv, NEW i, Place(i)
    PROVE  /\ Col(i) \in 0..i /\ Conv(i) \in 0..(1 + Col(i))
           /\ AsciiUpTo(i) => Conv(i) = 1 + Col(i)
           /\ StartColumn(InText(i)) = Conv(i) /\ EndColumn(InText(i)) = Conv(i)
           /\ LineOf(InText(i)) = Line(i)
           /\ Column(InText(i)) = 1 + Col(i)
<1>1. i \in 0..Len(file) /\ Len(file) > 0 /\ (file[1] = "B" => i >= 1) /\ Len(file) \in Nat
  BY FileType DEF Place
<1>2. Col(i) \in 0..i
  BY <1>1, ColIs
<1>3. 1 + Col(i) \in Nat
  BY <1>1, <1>2
<1>4. ConvertColumnToCodepoint(Line(i), 1 + Col(i)) \in 0..(1 + Col(i))
  BY <1>1, <1>3, ConvertBound
<1>5. LineOf(InText(i)) = Line(i) /\ Column(InText(i)) = 1 + Col(i)
  BY <1>1, InTextIs, ColumnIs
<1>6. AsciiUpTo(i) => Conv(i) = 1 + Col(i)
  BY ConvertExact DEF Conv
<1>7. StartColumn(InText(i)) = Conv(i) /\ EndColumn(InText(i)) = Conv(i)
  BY <1>5 DEF StartColumn, EndColumn, Conv
<1>8. Conv(i) \in 0..(1 + Col(i))
  BY <1>3, <1>4 DEF Conv
<1> QED
  BY <1>2, <1>5, <1>6, <1>7, <1>8

LEMMA ConvInOrder ==
    ASSUME SourceInv, NEW i, NEW j, Place(i), Place(j), i <= j, Line(i) = Line(j)
    PROVE  Conv(i) <= Conv(j) /\ Col(j) = Col(i) + (j - i)
<1>1. i \in 0..Len(file) /\ j \in 0..Len(file) /\ Len(file) \in Nat
  BY FileType DEF Place
<1>2. Breaks(i) = Breaks(j)
  BY <1>1, InOrder
<1>3. Col(i) \in 0..i /\ Col(j) \in 0..j
  BY ConvIs
<1>4. i \in Int /\ j \in Int /\ Col(i) \in Int
  BY <1>1, <1>3
<1>5. Col(j) = Col(i) + (j - i)
  BY <1>2, <1>4, SameLine
<1>6. 1 + Col(i) \in Nat /\ 1 + Col(j) \in Nat /\ 1 + Col(i) <= 1 + Col(j)
  BY <1>1, <1>3, <1>5
<1>7. ConvertColumnToCodepoint(Line(i), 1 + Col(i)) <= ConvertColumnToCodepoint(Line(i), 1 + Col(j))
  BY <1>1, <1>6, ConvertBound
<1> QED
  BY <1>5, <1>6, <1>7 DEF Conv

\* The ends of a node are places.
Named(n) == /\ Place(n.from) /\ Place(n.to) /\ n.from < n.to
            /\ n.form \in {"node", "def", "class"}

\* A decorated definition, its name and its last decorator.
Defined(n) == /\ Named(n)
              /\ Place(n.from + DefOffset) /\ n.from + DefOffset <= n.to
              /\ Line(n.from + DefOffset) = Line(n.from)
              /\ Col(n.from + DefOffset) = Col(n.from) + DefOffset
              /\ Place(n.decorator) /\ Col(n.decorator) = Col(n.from) /\ n.decorator <= n.from
              /\ AsciiUpTo(n.from)

LEMMA NodeIs ==
    ASSUME SourceInv, NEW n \in Nodes
    PROVE  Named(n) /\ n.form = "node" /\ n.from \in 0..(Len(file) - 1)
<1> DEFINE solid == {i \in 1..Len(file) : ~IsBreak(file[i]) /\ file[i] # "B"}
<1>1. PICK x \in solid, y \in solid :
         x <= y /\ n = [from |-> x - 1, to |-> y, form |-> "node", decorator |-> 0]
  BY DEF Nodes
<1>2. n.from = x - 1 /\ n.to = y /\ n.form = "node"
  BY <1>1
<1>3. Len(file) \in Nat /\ x \in 1..Len(file) /\ y \in 1..Len(file) /\ x <= y
  BY <1>1, FileType
<1>4. file[x] # "n" /\ file[x] # "B" /\ file[y] # "r"
  BY DEF IsBreak
<1>5. Place(x - 1)
  <2>1. Behind(x - 1)
    <3>1. (x - 1) + 1 = x
      BY <1>3
    <3> QED
      BY <1>4, <3>1 DEF Behind, Dropped
  <2>2. file[1] = "B" => x - 1 >= 1
    BY <1>3, <1>4
  <2>3. x - 1 \in 0..Len(file) /\ Len(file) > 0
    BY <1>3
  <2> QED
    BY <2>1, <2>2, <2>3 DEF Place
<1>6. Place(y)
  <2>1. Behind(y)
    BY <1>4 DEF Behind, Dropped
  <2>2. y \in 0..Len(file) /\ Len(file) > 0 /\ y >= 1
    BY <1>3
  <2> QED
    BY <2>1, <2>2 DEF Place
<1>7. x - 1 < y /\ x - 1 \in 0..(Len(file) - 1)
  BY <1>3
<1> QED
  BY <1>2, <1>5, <1>6, <1>7 DEF Named

LEMMA DefinitionIs ==
    ASSUME SourceInv, NEW n \in Definitions
    PROVE  Defined(n) /\ n.form \in {"def", "class"}
<1>0. DefOffset \in Nat \ {0}
  BY LocationsAssumption
<1>1. PICK m \in Nodes, form \in {"def", "class"} :
         /\ n = [m EXCEPT !.form = form, !.decorator = Max(Decorators(m))]
         /\ Decorators(m) # {}
         /\ m.from + DefOffset < m.to
         /\ AsciiUpTo(m.from + DefOffset - 1)
         /\ \A k \in m.from + 1..m.from + DefOffset + 1 : ~IsBreak(file[k])
  <2>1. PICK p \in {"def", "class"} \X Decorated :
           n = [p[2] EXCEPT !.form = p[1], !.decorator = Max(Decorators(p[2]))]
    BY DEF Definitions
  <2>2. p[1] \in {"def", "class"} /\ p[2] \in Decorated
    OBVIOUS
  <2> QED
    BY <2>1, <2>2 DEF Decorated
<1>2. n.from = m.from /\ n.to = m.to /\ n.form = form /\ n.decorator = Max(Decorators(m))
  BY <1>1 DEF Nodes
<1> DEFINE N == Len(file)
           f == m.from
           x == f + DefOffset
           d == n.decorator
<1>3. Named(m) /\ f \in 0..(N - 1)
  BY NodeIs
<1>4. N \in Nat /\ m.to \in 0..N /\ Place(f) /\ Place(m.to) /\ f < m.to /\ N > 0
  BY <1>3, FileType DEF Named, Place
<1>5. /\ x < m.to /\ AsciiUpTo(f + (DefOffset - 1)) /\ \A k \in (f + 1)..(x + 1) : ~IsBreak(file[k])
  BY <1>1, Zenon
<1> HIDE DEF N, f, x, d
<1>6. f \in 0..(N - 1) /\ x = f + DefOffset /\ x \in 1..N /\ x \in (f + 1)..(x + 1) /\ f \in Int /\ x \in Int
  BY <1>0, <1>3, <1>4, <1>5 DEF x
<1>7. Col(f) \in 0..f /\ Line(f) = Line(f)
  BY <1>4, ConvIs
<1>8. Breaks(x) = Breaks(f)
  <2>1. \A k \in 1..x : k \in 1..f \/ k \in (f + 1)..(x + 1)
    BY <1>6
  <2>2. \A k \in 1..f : k \in 1..x
    BY <1>0, <1>6
  <2>3. \A k \in (f + 1)..(x + 1) : file[k] # "n" /\ file[k] # "r"
    BY <1>5 DEF IsBreak
  <2> QED
    BY <2>1, <2>2, <2>3 DEF Breaks
<1>9. Col(x) = Col(f) + (x - f) /\ Line(f) = Line(x)
  <2>1. Col(f) \in Int
    BY <1>6, <1>7
  <2> QED
    BY <1>6, <1>8, <2>1, SameLine
<1>10. Place(x)
  <2>1. file[x] # "r"
    BY <1>5, <1>6 DEF IsBreak
  <2>2. Behind(x)
    BY <2>1 DEF Behind, Dropped
  <2>3. x \in 0..Len(file) /\ Len(file) > 0 /\ x >= 1
    BY <1>4, <1>6 DEF N
  <2> QED
    BY <2>2, <2>3 DEF Place
<1>11. AsciiUpTo(f)
  <2>1. Min({f + 1, N}) = f + 1
    BY <1>4, <1>6, MinIs
  <2>2. Min({(x - 1) + 1, N}) = x
    BY <1>4, <1>6, MinIs
  <2>4. f + (DefOffset - 1) = x - 1
    BY <1>0, <1>6
  <2>5. AsciiUpTo(x - 1)
    BY <1>5, <2>4, Zenon
  <2>3. ASSUME NEW k \in 1..(f + 1), Size(file[k]) > 1
        PROVE  \E e \in k..f : IsBreak(file[e])
    <3>1. k \in 1..x
      BY <1>0, <1>6
    <3>2. PICK e \in k..(x - 1) : IsBreak(file[e])
      BY <2>2, <2>3, <2>5, <3>1 DEF AsciiUpTo, N
    <3>3. e \notin (f + 1)..(x + 1)
      BY <1>5, <3>2
    <3>4. e \in k..f
      BY <1>6, <3>3
    <3> QED
      BY <3>2, <3>4
  <2> QED
    BY <2>1, <2>3 DEF AsciiUpTo, N
<1>12. Place(d) /\ Col(d) = Col(f) /\ d <= f
  <2>1. Decorators(m) \in SUBSET (0..f)
    <3>1. \A k \in 0..(f - 1) : k \in 0..f
      BY <1>6
    <3> QED
      BY <3>1 DEF Decorators, f
  <2>2. d \in Decorators(m)
    <3>1. f \in Nat
      BY <1>6
    <3> QED
      BY <1>1, <1>2, <2>1, <3>1, MaxIs DEF d
  <2>3. /\ d \in 0..(f - 1) /\ Indent(d) = Indent(f)
        /\ \A k \in (d - Indent(d) + 1)..(d + 1) : file[k] = "a"
    BY <2>2 DEF Decorators, f
  <2>4. Indent(d) = Col(d) /\ Indent(f) = Col(f)
    BY DEF Indent, Col
  <2>5. d + 1 \in (d - Indent(d) + 1)..(d + 1)
    <3>1. Indent(d) \in 0..f
      BY <1>7, <2>3, <2>4
    <3> QED
      BY <1>6, <2>3, <3>1
  <2>6. file[d + 1] = "a"
    BY <2>3, <2>5
  <2>7. Behind(d)
    BY <2>6 DEF Behind, Dropped
  <2>8. file[1] = "B" => d >= 1
    BY <1>6, <2>3, <2>6
  <2>9. d \in 0..Len(file) /\ Len(file) > 0
    BY <1>4, <1>6, <2>3 DEF N
  <2>10. d <= f
    BY <1>6, <2>3
  <2> QED
    BY <2>3, <2>4, <2>7, <2>8, <2>9, <2>10 DEF Place
<1>13. Named(n)
  BY <1>1, <1>2, <1>4 DEF Named, f
<1>14. /\ n.from = f /\ n.from + DefOffset = x /\ n.decorator = d /\ n.to = m.to /\ x <= m.to /\ x - f = DefOffset
  BY <1>0, <1>2, <1>4, <1>5, <1>6 DEF f, x, d
<1> QED
  BY <1>1, <1>2, <1>9, <1>10, <1>11, <1>12, <1>13, <1>14 DEF Defined
-----------------------------------------------------------------------------
(* The locations of the nodes *)

\* The column a node is written to start at, and that to end at.
FromCol(n) == IF n.form = "node" THEN Conv(n.from) - 1 ELSE Col(n.from)
ToCol(n)   == IF n.form = "node" THEN Conv(n.to) - 1 ELSE Col(n.to)
Lay(n)     == << Line(n.from), FromCol(n), Line(n.to) - Line(n.from), ToCol(n) - FromCol(n) >>

\* The nodes of a run, as far as their locations depend on it.
NodesInv ==
    nodes # << >> =>
        /\ Len(nodes) = 2
        /\ Named(nodes[1])
        /\ nodes[1].form # "node" => Defined(nodes[1])
        /\ Named(nodes[2]) /\ nodes[2].from <= nodes[1].from /\ nodes[1].to <= nodes[2].to
        /\ nodes[2].form # "node" => Defined(nodes[2])

LEMMA PlaceType ==
    ASSUME SourceInv, NEW i, Place(i)
    PROVE  /\ Line(i) \in 1..(Len(file) + 1) /\ i \in 0..Len(file) /\ Len(file) \in Nat
           /\ Col(i) \in 0..Len(file) /\ Conv(i) \in 0..(Len(file) + 1)
<1>1. i \in 0..Len(file) /\ Len(file) \in Nat
  BY FileType DEF Place
<1>2. Line(i) \in 1..(Len(file) + 1)
  BY <1>1, InTextIs
<1>3. Col(i) \in 0..i /\ Conv(i) \in 0..(1 + Col(i))
  BY ConvIs
<1> QED
  BY <1>1, <1>2, <1>3

LEMMA LayType ==
    ASSUME SourceInv, NEW n, Named(n)
    PROVE  /\ Lay(n)[1] \in -(Len(file) + 1)..(Len(file) + 1)
           /\ Lay(n)[2] \in -(Len(file) + 1)..(Len(file) + 1)
           /\ Lay(n)[3] \in -(Len(file) + 1)..(Len(file) + 1)
           /\ Lay(n)[4] \in -(Len(file) + 1)..(Len(file) + 1)
<1> DEFINE N == Len(file)
<1>1. /\ Line(n.from) \in 1..(N + 1) /\ Line(n.to) \in 1..(N + 1) /\ N \in Nat
      /\ Col(n.from) \in 0..N /\ Col(n.to) \in 0..N
      /\ Conv(n.from) \in 0..(N + 1) /\ Conv(n.to) \in 0..(N + 1)
  BY PlaceType DEF Named
<1> HIDE DEF N
<1>2. FromCol(n) \in -1..N /\ ToCol(n) \in -1..N
  BY <1>1 DEF FromCol, ToCol
<1>3. ToCol(n) - FromCol(n) \in -(N + 1)..(N + 1) /\ FromCol(n) \in -(N + 1)..(N + 1)
  BY <1>1, <1>2
<1>4. Line(n.to) - Line(n.from) \in -(N + 1)..(N + 1) /\ Line(n.from) \in -(N + 1)..(N + 1)
  BY <1>1
<1> QED
  BY <1>3, <1>4 DEF Lay, N

\* What is written for a node.
LEMMA WrittenIs ==
    ASSUME SourceInv, NEW n, Named(n), n.form # "node" => Defined(n)
    PROVE  WrittenLocation(n) = Lay(n)
<1>1. Place(n.from) /\ Place(n.to)
  BY DEF Named
<1>2. /\ LineOf(InText(n.from)) = Line(n.from) /\ LineOf(InText(n.to)) = Line(n.to)
      /\ StartColumn(InText(n.from)) = Conv(n.from) /\ EndColumn(InText(n.to)) = Conv(n.to)
      /\ Column(InText(n.to)) = 1 + Col(n.to)
  BY <1>1, ConvIs
<1>3. /\ Col(n.from) \in Nat /\ Col(n.to) \in Nat /\ Conv(n.from) \in Nat /\ Conv(n.to) \in Nat
      /\ DefOffset \in Nat
  BY <1>1, PlaceType, LocationsAssumption
<1>4. CASE n.form = "node"
  <2>1. WrittenLocation(n) = Location(n)
    BY <1>4 DEF WrittenLocation
  <2>2. Location(n) = << Line(n.from), Conv(n.from) - 1, Line(n.to) - Line(n.from), Conv(n.to) - Conv(n.from) >>
    BY <1>2 DEF Location, Start, End
  <2>3. FromCol(n) = Conv(n.from) - 1 /\ ToCol(n) = Conv(n.to) - 1
    BY <1>4 DEF FromCol, ToCol
  <2>4. ToCol(n) - FromCol(n) = Conv(n.to) - Conv(n.from)
    BY <1>3, <2>3
  <2> QED
    BY <2>1, <2>2, <2>3, <2>4 DEF Lay
<1>5. CASE n.form # "node"
  <2> DEFINE x == n.from + DefOffset
             d == n.decorator
  <2>1. /\ Place(x) /\ Line(x) = Line(n.from) /\ Col(x) = Col(n.from) + DefOffset
        /\ Place(d) /\ Col(d) = Col(n.from)
    BY <1>5 DEF Defined
  <2>2. LineOf(InText(x)) = Line(n.from) /\ Column(InText(x)) = 1 + (Col(n.from) + DefOffset)
    BY <2>1, ConvIs
  <2>3. Column(InText(d)) = 1 + Col(n.from)
    BY <2>1, ConvIs
  <2>4. FromCol(n) = Col(n.from) /\ ToCol(n) = Col(n.to)
    BY <1>5 DEF FromCol, ToCol
  <2>5. CASE n.form = "def"
    <3> DEFINE c == Column(InText(x)) - 1 - DefOffset
    <3>1. WrittenLocation(n) = DefLocation(n)
      BY <2>5 DEF WrittenLocation
    <3>2. DefLocation(n) = << LineOf(InText(x)), c,
                              LineOf(InText(n.to)) - LineOf(InText(x)), Column(InText(n.to)) - 1 - c >>
      BY DEF DefLocation, End
    <3>3. c = Col(n.from)
      BY <1>3, <2>2
    <3>4. Column(InText(n.to)) - 1 - c = Col(n.to) - Col(n.from)
      BY <1>2, <1>3, <3>3
    <3> HIDE DEF c, x
    <3> QED
      BY <1>2, <2>2, <2>4, <3>1, <3>2, <3>3, <3>4 DEF Lay
  <2>6. CASE n.form = "class"
    <3> DEFINE c == Column(InText(d)) - 1
    <3>1. WrittenLocation(n) = ClassLocation(n)
      BY <2>6 DEF WrittenLocation
    <3>2. ClassLocation(n) = << LineOf(InText(x)), c,
                                LineOf(InText(n.to)) - LineOf(InText(x)), Column(InText(n.to)) - 1 - c >>
      BY DEF ClassLocation, End
    <3>3. c = Col(n.from)
      BY <1>3, <2>3
    <3>4. Column(InText(n.to)) - 1 - c = Col(n.to) - Col(n.from)
      BY <1>2, <1>3, <3>3
    <3> HIDE DEF c, x
    <3> QED
      BY <1>2, <2>2, <2>4, <3>1, <3>2, <3>3, <3>4 DEF Lay
  <2> QED
    BY <1>5, <2>5, <2>6 DEF Named
<1> QED
  BY <1>4, <1>5

\* What mypy decodes when all is read.
Decodes ==
    AllRead => \A n \in 1..2 : /\ DecodedStart(n) = << Line(nodes[n].from), FromCol(nodes[n]) >>
                               /\ DecodedEnd(n) = << Line(nodes[n].to), ToCol(nodes[n]) >>

LEMMA ExactMeaning ==
    ASSUME SourceInv, NodesInv, Decodes
    PROVE  PositionsExact
<1> SUFFICES ASSUME AllRead PROVE PositionsExact
  BY DEF PositionsExact
<1>1. Len(nodes) = 2 /\ nodes # << >>
  BY DEF AllRead, NodesInv
<1>2. \A i : PythonPosition(i) = << Line(i), Col(i) >>
  BY DEF PythonPosition, Line, Col
<1>3. ASSUME NEW n \in 1..2
      PROVE  /\ DecodedStart(n)[1] = PythonPosition(nodes[n].from)[1]
             /\ DecodedEnd(n)[1] = PythonPosition(nodes[n].to)[1]
             /\ nodes[n].form # "node" \/ AsciiUpTo(nodes[n].from) => DecodedStart(n) = PythonPosition(nodes[n].from)
             /\ nodes[n].form # "node" \/ AsciiUpTo(nodes[n].to) => DecodedEnd(n) = PythonPosition(nodes[n].to)
  <2> DEFINE m == nodes[n]
  <2>1. Named(m)
    <3>1. n = 1 \/ n = 2
      OBVIOUS
    <3> QED
      BY <1>1, <3>1 DEF NodesInv
  <2>2. Place(m.from) /\ Place(m.to)
    BY <2>1 DEF Named
  <2>3. DecodedStart(n) = << Line(m.from), FromCol(m) >> /\ DecodedEnd(n) = << Line(m.to), ToCol(m) >>
    BY DEF Decodes
  <2>4. Col(m.from) \in Nat /\ Col(m.to) \in Nat
    BY <2>2, PlaceType
  <2> HIDE DEF m
  <2>5. ASSUME m.form # "node" \/ AsciiUpTo(m.from)
        PROVE  FromCol(m) = Col(m.from)
    <3>1. AsciiUpTo(m.from) => Conv(m.from) = 1 + Col(m.from)
      BY <2>2, ConvIs
    <3>2. m.form # "node" \/ Conv(m.from) = 1 + Col(m.from)
      BY <2>5, <3>1, Zenon
    <3> QED
      BY <2>4, <3>2 DEF FromCol
  <2>6. ASSUME m.form # "node" \/ AsciiUpTo(m.to)
        PROVE  ToCol(m) = Col(m.to)
    <3>1. AsciiUpTo(m.to) => Conv(m.to) = 1 + Col(m.to)
      BY <2>2, ConvIs
    <3>2. m.form # "node" \/ Conv(m.to) = 1 + Col(m.to)
      BY <2>6, <3>1, Zenon
    <3> QED
      BY <2>4, <3>2 DEF ToCol
  <2>7. /\ DecodedStart(n)[1] = Line(m.from) /\ PythonPosition(m.from)[1] = Line(m.from)
        /\ DecodedEnd(n)[1] = Line(m.to) /\ PythonPosition(m.to)[1] = Line(m.to)
    BY <1>2, <2>3
  <2>8. m.form # "node" \/ AsciiUpTo(m.from) => DecodedStart(n) = PythonPosition(m.from)
    BY <1>2, <2>3, <2>5, Zenon
  <2>9. m.form # "node" \/ AsciiUpTo(m.to) => DecodedEnd(n) = PythonPosition(m.to)
    BY <1>2, <2>3, <2>6, Zenon
  <2> QED
    BY <2>7, <2>8, <2>9, Zenon DEF m
<1> QED
  BY <1>1, <1>3, Zenon DEF PositionsExact

\* Nodes that lie in each other in the text do so in the lines and columns written.
LEMMA NestingMeaning ==
    ASSUME SourceInv, NodesInv, Decodes
    PROVE  NestingKept
<1> SUFFICES ASSUME AllRead PROVE NestingKept
  BY DEF NestingKept
<1> DEFINE inner == nodes[1]
           outer == nodes[2]
<1>1. /\ Named(inner) /\ (inner.form # "node" => Defined(inner))
      /\ Named(outer) /\ outer.from <= inner.from /\ inner.to <= outer.to
      /\ outer.form # "node" => Defined(outer)
  BY DEF AllRead, NodesInv
<1>2. \A n \in 1..2 : /\ DecodedStart(n) = << Line(nodes[n].from), FromCol(nodes[n]) >>
                      /\ DecodedEnd(n) = << Line(nodes[n].to), ToCol(nodes[n]) >>
  BY DEF Decodes
<1>3. /\ DecodedStart(1) = << Line(inner.from), FromCol(inner) >>
      /\ DecodedEnd(1) = << Line(inner.to), ToCol(inner) >>
      /\ DecodedStart(2) = << Line(outer.from), FromCol(outer) >>
      /\ DecodedEnd(2) = << Line(outer.to), ToCol(outer) >>
  <2>1. 1 \in 1..2 /\ 2 \in 1..2
    OBVIOUS
  <2> QED
    BY <1>2, <2>1
<1> HIDE DEF inner, outer
\* Conversion makes a column no larger and keeps the order on a line.
<1>4. ASSUME NEW i, NEW j, Place(i), Place(j), i <= j
      PROVE  \/ Line(i) < Line(j)
             \/ Line(i) = Line(j) /\ Conv(i) <= Conv(j) /\ Col(i) <= Col(j)
  <2>1. i \in 0..Len(file) /\ j \in 0..Len(file) /\ Len(file) \in Nat
    BY <1>4, PlaceType
  <2>2. Line(i) <= Line(j) /\ Line(i) \in Nat /\ Line(j) \in Nat /\ Col(i) \in Nat /\ Col(j) \in Nat
    BY <1>4, <2>1, InOrder, PlaceType
  <2>3. CASE Line(i) = Line(j)
    <3>1. Conv(i) <= Conv(j) /\ Col(j) = Col(i) + (j - i)
      BY <1>4, <2>3, ConvInOrder
    <3> QED
      BY <1>4, <2>1, <2>2, <2>3, <3>1
  <2> QED
    BY <2>2, <2>3
<1>5. \A i : Place(i) => /\ Conv(i) \in Nat /\ Col(i) \in Nat /\ Conv(i) <= 1 + Col(i) /\ Line(i) \in Nat
                         /\ i \in Nat
  <2> TAKE i
  <2> HAVE Place(i)
  <2>1. Conv(i) \in 0..(1 + Col(i)) /\ Col(i) \in 0..i
    BY ConvIs
  <2>2. Line(i) \in 1..(Len(file) + 1) /\ i \in 0..Len(file) /\ Len(file) \in Nat
    BY PlaceType
  <2> QED
    BY <2>1, <2>2
<1>6. /\ Place(inner.from) /\ Place(inner.to) /\ inner.from < inner.to
      /\ Place(outer.from) /\ Place(outer.to) /\ outer.from < outer.to
  BY <1>1 DEF Named
\* Only ASCII stands in front of a definition, so that conversion leaves its start.
<1>7. ASSUME NEW n, Named(n), n.form # "node" => Defined(n)
      PROVE  /\ FromCol(n) = Conv(n.from) - 1
             /\ \/ n.form = "node" /\ ToCol(n) = Conv(n.to) - 1
                \/ n.form # "node" /\ ToCol(n) = Col(n.to)
  <2>1. CASE n.form = "node"
    BY <2>1 DEF FromCol, ToCol
  <2>2. CASE n.form # "node"
    <3>1. AsciiUpTo(n.from) /\ Place(n.from)
      BY <1>7, <2>2 DEF Defined, Named
    <3>2. Conv(n.from) = 1 + Col(n.from) /\ Col(n.from) \in Nat
      BY <1>5, <3>1, ConvIs
    <3> QED
      BY <2>2, <3>2 DEF FromCol, ToCol
  <2> QED
    BY <2>1, <2>2
<1>8. /\ FromCol(inner) = Conv(inner.from) - 1 /\ FromCol(outer) = Conv(outer.from) - 1
      /\ \/ inner.form = "node" /\ ToCol(inner) = Conv(inner.to) - 1
         \/ inner.form # "node" /\ ToCol(inner) = Col(inner.to)
      /\ \/ outer.form = "node" /\ ToCol(outer) = Conv(outer.to) - 1
         \/ outer.form # "node" /\ ToCol(outer) = Col(outer.to)
  BY <1>1, <1>7
<1>9. NoLater(DecodedStart(2), DecodedStart(1))
  <2> DEFINE i == outer.from
             j == inner.from
  <2>1. \/ Line(i) < Line(j)
        \/ Line(i) = Line(j) /\ Conv(i) <= Conv(j) /\ Col(i) <= Col(j)
    BY <1>1, <1>4, <1>6
  <2>2. Conv(i) \in Nat /\ Conv(j) \in Nat
    BY <1>5, <1>6
  <2>3. Line(i) < Line(j) \/ (Line(i) = Line(j) /\ FromCol(outer) <= FromCol(inner))
    BY <1>8, <2>1, <2>2
  <2> QED
    BY <1>3, <2>3 DEF NoLater
<1> DEFINE a == inner.to
           b == outer.to
<1>10. \/ Line(a) < Line(b)
       \/ Line(a) = Line(b) /\ Conv(a) <= Conv(b) /\ Col(a) <= Col(b)
  BY <1>1, <1>4, <1>6
<1>11. DecodedEnd(1)[1] <= DecodedEnd(2)[1]
  <2>1. Line(a) \in Nat /\ Line(b) \in Nat
    BY <1>5, <1>6
  <2>2. Line(a) <= Line(b)
    BY <1>10, <2>1
  <2> QED
    BY <1>3, <2>2
<1>12. ASSUME inner.form = "node" \/ outer.form # "node" \/ AsciiUpTo(inner.to)
       PROVE  NoLater(DecodedEnd(1), DecodedEnd(2))
  <2>1. Conv(a) \in Nat /\ Col(a) \in Nat /\ Conv(b) \in Nat /\ Col(b) \in Nat /\ Conv(a) <= 1 + Col(a)
    BY <1>5, <1>6
  <2>2. \/ inner.form = "node" \/ outer.form # "node"
        \/ Conv(a) = 1 + Col(a)
    <3>1. AsciiUpTo(inner.to) => Conv(inner.to) = 1 + Col(inner.to)
      BY <1>6, ConvIs
    <3> QED
      BY <1>12, <3>1, Zenon DEF a
  <2> HIDE DEF a, b
  <2>3. Line(a) < Line(b) \/ (Line(a) = Line(b) /\ ToCol(inner) <= ToCol(outer))
    <3>1. /\ \/ inner.form = "node" /\ ToCol(inner) = Conv(a) - 1
             \/ inner.form # "node" /\ ToCol(inner) = Col(a)
          /\ \/ outer.form = "node" /\ ToCol(outer) = Conv(b) - 1
             \/ outer.form # "node" /\ ToCol(outer) = Col(b)
      BY <1>8 DEF a, b
    <3> QED
      BY <1>10, <2>1, <2>2, <3>1
  <2> QED
    BY <1>3, <2>3 DEF NoLater, a, b
<1>14. ASSUME NEW n, Named(n), n.form # "node" => Defined(n)
       PROVE  NoLater(<< Line(n.from), FromCol(n) >>, << Line(n.to), ToCol(n) >>)
  <2>1. Place(n.from) /\ Place(n.to) /\ n.from < n.to
    BY <1>14 DEF Named
  <2>2. n.from <= n.to
    BY <1>5, <2>1
  <2>3. \/ Line(n.from) < Line(n.to)
        \/ /\ Line(n.from) = Line(n.to) /\ Conv(n.from) <= Conv(n.to)
           /\ Col(n.from) <= Col(n.to)
    BY <1>4, <2>1, <2>2
  <2>4. Conv(n.from) \in Nat /\ Conv(n.to) \in Nat /\ Col(n.to) \in Nat /\ Conv(n.to) <= 1 + Col(n.to)
    BY <1>5, <2>1
  <2>5. FromCol(n) = Conv(n.from) - 1 /\ (ToCol(n) = Conv(n.to) - 1 \/ ToCol(n) = Col(n.to))
    BY <1>7, <1>14
  <2>6. \/ Line(n.from) < Line(n.to)
        \/ Line(n.from) = Line(n.to) /\ FromCol(n) <= ToCol(n)
    BY <2>3, <2>4, <2>5
  <2> QED
    BY <2>6 DEF NoLater
<1>15. NoLater(DecodedStart(1), DecodedEnd(1)) /\ NoLater(DecodedStart(2), DecodedEnd(2))
  BY <1>1, <1>3, <1>14
<1>13. \A n \in 1..2 : n = 1 \/ n = 2
  OBVIOUS
<1> QED
  BY <1>9, <1>11, <1>12, <1>13, <1>15, Zenon DEF NestingKept, inner, outer
-----------------------------------------------------------------------------
(* The machine *)

LEMMA Four ==
    ASSUME NEW w \in Seq(I64), NEW x1 \in I64, NEW x2 \in I64, NEW x3 \in I64, NEW x4 \in I64,
           NEW l, l = << x1, x2, x3, x4 >>
    PROVE  /\ w \o l = Append(Append(Append(Append(w, x1), x2), x3), x4)
           /\ Len(w \o l) = Len(w) + 4
           /\ \A k \in 1..Len(w) : (w \o l)[k] = w[k]
           /\ \A k \in 1..4 : (w \o l)[Len(w) + k] = l[k]
<1> DEFINE T == I64
<1>0. /\ w \in Seq(T)
      /\ x1 \in T /\ x2 \in T /\ x3 \in T /\ x4 \in T
  OBVIOUS
<1> HIDE DEF T
<1>1. /\ l \in Seq(T) /\ Len(l) = 4
      /\ l[1] = x1 /\ l[2] = x2 /\ l[3] = x3 /\ l[4] = x4
  BY <1>0
<1>2. Len(w) \in Nat
  BY LenProperties
<1>3. /\ Len(w \o l) = Len(w) + Len(l) /\ w \o l \in Seq(T)
      /\ \A k \in 1..Len(w) : (w \o l)[k] = w[k]
      /\ \A k \in 1..Len(l) : (w \o l)[Len(w) + k] = l[k]
  BY <1>0, <1>1, Concat
<1> DEFINE a == Append(w, x1)
           b == Append(a, x2)
           c == Append(b, x3)
           d == Append(c, x4)
           n == Len(w)
<1>4. a \in Seq(T) /\ Len(a) = n + 1 /\ a[n + 1] = x1 /\ \A k \in 1..n : a[k] = w[k]
  BY <1>0, AppendProperties
<1> HIDE DEF a
<1>5. b \in Seq(T) /\ Len(b) = n + 2 /\ b[n + 2] = x2 /\ \A k \in 1..(n + 1) : b[k] = a[k]
  <2>1. Len(b) = Len(a) + 1 /\ b \in Seq(T) /\ b[Len(a) + 1] = x2 /\ \A k \in 1..Len(a) : b[k] = a[k]
    BY <1>0, <1>4, AppendProperties
  <2>2. Len(a) + 1 = n + 2 /\ Len(a) = n + 1
    BY <1>2, <1>4
  <2> HIDE DEF b, n
  <2> QED
    BY <2>1, <2>2
<1> HIDE DEF b
<1>6. c \in Seq(T) /\ Len(c) = n + 3 /\ c[n + 3] = x3 /\ \A k \in 1..(n + 2) : c[k] = b[k]
  <2>1. Len(c) = Len(b) + 1 /\ c \in Seq(T) /\ c[Len(b) + 1] = x3 /\ \A k \in 1..Len(b) : c[k] = b[k]
    BY <1>0, <1>5, AppendProperties
  <2>2. Len(b) + 1 = n + 3 /\ Len(b) = n + 2
    BY <1>2, <1>5
  <2> HIDE DEF c, n
  <2> QED
    BY <2>1, <2>2
<1> HIDE DEF c
<1>7. d \in Seq(T) /\ Len(d) = n + 4 /\ d[n + 4] = x4 /\ \A k \in 1..(n + 3) : d[k] = c[k]
  <2>1. Len(d) = Len(c) + 1 /\ d \in Seq(T) /\ d[Len(c) + 1] = x4 /\ \A k \in 1..Len(c) : d[k] = c[k]
    BY <1>0, <1>6, AppendProperties
  <2>2. Len(c) + 1 = n + 4 /\ Len(c) = n + 3
    BY <1>2, <1>6
  <2> HIDE DEF d, n
  <2> QED
    BY <2>1, <2>2
<1> DEFINE e == w \o l
<1>8. /\ Len(e) = n + 4 /\ e \in Seq(T) /\ n \in Nat
      /\ \A k \in 1..n : e[k] = w[k]
      /\ e[n + 1] = x1 /\ e[n + 2] = x2 /\ e[n + 3] = x3 /\ e[n + 4] = x4
  <2>1. 1 \in 1..4 /\ 2 \in 1..4 /\ 3 \in 1..4 /\ 4 \in 1..4
    OBVIOUS
  <2> QED
    BY <1>1, <1>2, <1>3, <2>1
<1> HIDE DEF d, e, n
<1>9. \A k \in 1..(n + 4) : e[k] = d[k]
  <2> TAKE k \in 1..(n + 4)
  <2>1. k \in 1..n \/ k = n + 1 \/ k = n + 2 \/ k = n + 3 \/ k = n + 4
    BY <1>8
  <2>2. CASE k \in 1..n
    <3>1. k \in 1..(n + 1) /\ k \in 1..(n + 2) /\ k \in 1..(n + 3)
      BY <1>8, <2>2
    <3> QED
      BY <1>4, <1>5, <1>6, <1>7, <1>8, <2>2, <3>1
  <2>3. CASE k = n + 1
    <3>1. k \in 1..(n + 1) /\ k \in 1..(n + 2) /\ k \in 1..(n + 3)
      BY <1>8, <2>3
    <3> QED
      BY <1>4, <1>5, <1>6, <1>7, <1>8, <2>3, <3>1
  <2>4. CASE k = n + 2
    <3>1. k \in 1..(n + 2) /\ k \in 1..(n + 3)
      BY <1>8, <2>4
    <3> QED
      BY <1>5, <1>6, <1>7, <1>8, <2>4, <3>1
  <2>5. CASE k = n + 3
    <3>1. k \in 1..(n + 3)
      BY <1>8, <2>5
    <3> QED
      BY <1>6, <1>7, <1>8, <2>5, <3>1
  <2>6. CASE k = n + 4
    BY <1>7, <1>8, <2>6
  <2> QED
    BY <2>1, <2>2, <2>3, <2>4, <2>5, <2>6
<1>10. e = d
  BY <1>7, <1>8, <1>9, SeqEqual
<1> QED
  BY <1>1, <1>3, <1>10 DEF e, d, c, b, a

\* The locations fit.
LEMMA LayFits ==
    ASSUME SourceInv, NEW n, Named(n)
    PROVE  Lay(n)[1] \in I64 /\ Lay(n)[2] \in I64 /\ Lay(n)[3] \in I64 /\ Lay(n)[4] \in I64
<1> DEFINE h == Power[Width] \div 2
           N == Len(file)
<1>1. h \in Int
  <2>1. Power[Width] \in Int
    BY PowerType, CodecAssumption
  <2> QED
    BY <2>1, Divides
<1>2. N \in Nat /\ N + 1 \in I64
  BY FileType
<1>3. I64 = -h..(h - 1)
  BY DEF I64
<1> HIDE DEF h, N
<1>4. \A x \in -(N + 1)..(N + 1) : x \in I64
  BY <1>1, <1>2, <1>3
<1> QED
  BY <1>4, LayType DEF N

\* The locations of the first nodes are written.
WriteInv ==
    nodes # << >> =>
        /\ file # << >> /\ Len(written) \in {0, 4, 8}
        /\ \A n \in 1..2 : 4 * n <= Len(written) =>
              \A k \in 1..4 : written[4 * (n - 1) + k] = Lay(nodes[n])[k]

LInv == CodecInv /\ SourceInv /\ NodesInv /\ WriteInv

LEMMA LocationsInit == LInit => LInv
<1> SUFFICES ASSUME LInit PROVE LInv
  OBVIOUS
<1>1. CodecInv
  BY CodecInit DEF LInit
<1>2. SourceInv
  BY DEF LInit, SourceInv
<1>3. CASE nodes = << >>
  BY <1>1, <1>2, <1>3 DEF LInv, NodesInv, WriteInv
<1>4. CASE nodes # << >>
  <2>1. PICK inner \in Nodes \cup Definitions, outer \in Nodes \cup Definitions :
           Within(inner, outer) /\ nodes = <<inner, outer>>
    BY <1>4 DEF LInit
  <2>2. ASSUME NEW n \in Nodes \cup Definitions
        PROVE  Named(n) /\ (n.form # "node" => Defined(n))
    <3>1. CASE n \in Nodes
      BY <1>2, <3>1, NodeIs
    <3>2. CASE n \in Definitions
      BY <1>2, <3>2, DefinitionIs DEF Defined
    <3> QED
      BY <3>1, <3>2
  <2>3. inner.to <= outer.to
    BY <2>1 DEF Within
  <2>4. outer.from <= inner.from
    <3>1. outer.from \in Nat /\ inner.from \in Nat
      BY <1>2, <2>2, PlaceType, SMTT(60) DEF Named
    <3>2. DefOffset \in Nat
      BY LocationsAssumption
    <3>3. outer.from <= Inside(outer)
      BY <3>1, <3>2 DEF Inside
    <3>4. BeginsAt(inner) <= inner.from /\ BeginsAt(inner) \in Int
      <4>1. CASE inner.form = "node"
        BY <3>1, <4>1 DEF BeginsAt
      <4>2. CASE inner.form # "node"
        <5>1. inner.decorator <= inner.from /\ Place(inner.decorator)
          BY <2>2, <4>2 DEF Defined
        <5>2. inner.decorator \in Nat
          BY <1>2, <5>1, PlaceType
        <5> QED
          BY <4>2, <5>1, <5>2 DEF BeginsAt
      <4> QED
        BY <4>1, <4>2
    <3>5. Inside(outer) <= BeginsAt(inner) /\ Inside(outer) \in Int
      BY <2>1, <3>1, <3>2 DEF Within, Inside
    <3> QED
      BY <3>1, <3>3, <3>4, <3>5
  <2>5. nodes[1] = inner /\ nodes[2] = outer /\ Len(nodes) = 2
    BY <2>1
  <2>6. NodesInv
    <3>1. Named(inner) /\ (inner.form # "node" => Defined(inner))
      BY <2>2
    <3>2. Named(outer) /\ (outer.form # "node" => Defined(outer))
      BY <2>2
    <3> QED
      BY <2>3, <2>4, <2>5, <3>1, <3>2, Zenon DEF NodesInv
  <2>7. file # << >> /\ Len(written) = 0
    <3>1. Len(file) > 0
      BY <2>1, <2>2 DEF Named, Place
    <3> QED
      BY <3>1 DEF LInit, Init
  <2>8. WriteInv
    BY <2>7 DEF WriteInv
  <2> QED
    BY <1>1, <1>2, <2>6, <2>8 DEF LInv
<1> QED
  BY <1>3, <1>4

\* What depends on the source stays.
LEMMA Frozen ==
    ASSUME UNCHANGED Source
    PROVE  /\ SourceInv => SourceInv'
           /\ NodesInv => NodesInv'
           /\ \A n : Lay(n)' = Lay(n)
<1>1. /\ file' = file /\ text' = text /\ line_starts' = line_starts
      /\ is_all_ascii' = is_all_ascii /\ lines_with_non_ascii' = lines_with_non_ascii
      /\ nodes' = nodes
  BY DEF Source
<1>2. SourceInv => SourceInv'
  BY <1>1 DEF SourceInv
<1>3. \A i : Breaks(i)' = Breaks(i) /\ Line(i)' = Line(i) /\ Col(i)' = Col(i)
  BY <1>1 DEF Breaks, Line, Col
<1>4. \A i : (Place(i)' <=> Place(i)) /\ (AsciiUpTo(i)' <=> AsciiUpTo(i))
  BY <1>1 DEF Place, Behind, AsciiUpTo
<1>5. \A i, c : ConvertColumnToCodepoint(i, c)' = ConvertColumnToCodepoint(i, c)
  BY <1>1 DEF ConvertColumnToCodepoint, CharsBetween
<1>6. \A i : Conv(i)' = Conv(i)
  BY <1>1, <1>3, <1>5 DEF Conv
<1>7. \A n : Lay(n)' = Lay(n)
  BY <1>3, <1>6 DEF Lay, FromCol, ToCol
<1>8. \A n : (Named(n)' <=> Named(n)) /\ (Defined(n)' <=> Defined(n))
  BY <1>3, <1>4, Zenon DEF Named, Defined
<1>9. NodesInv => NodesInv'
  BY <1>1, <1>8, Zenon DEF NodesInv
<1> QED
  BY <1>2, <1>7, <1>9

\* How many integers there are says which node is next.
LEMMA WhichNode ==
    /\ \A u, v : (u = 0 \/ u = 4) /\ v = u + 4 => v = 4 \/ v = 8
    /\ \A n \in 1..2 : \A m, u :
          /\ (u = 0 /\ m = 1) \/ (u = 4 /\ m = 2)
          /\ 4 * n <= u + 4 /\ ~(4 * n <= u)
          => n = m /\ 4 * (n - 1) = u
  OBVIOUS

\* The next location goes behind the others.
LEMMA LocationStep ==
    ASSUME LInv, WriteLocation
    PROVE  LInv'
<1> DEFINE m == Len(written) \div 4 + 1
           node == nodes[m]
           l == Lay(node)
<1>1. /\ CodecInv /\ SourceInv /\ NodesInv /\ WriteInv
      /\ nodes # << >> /\ read = << >> /\ UNCHANGED Source
      /\ WriteAll(WrittenLocation(node)) /\ Len(written) < 4 * Len(nodes)
  BY DEF LInv, WriteLocation
<1>2. Len(nodes) = 2 /\ Len(written) \in {0, 4, 8}
  BY <1>1 DEF NodesInv, WriteInv
<1>3. (Len(written) = 0 /\ m = 1) \/ (Len(written) = 4 /\ m = 2)
  BY <1>1, <1>2
<1>4. Named(node) /\ (node.form # "node" => Defined(node))
  <2>1. m = 1 \/ m = 2
    BY <1>3
  <2> HIDE DEF m
  <2> QED
    BY <1>1, <2>1 DEF NodesInv
<1>5. WrittenLocation(node) = l
  BY <1>1, <1>4, WrittenIs
<1>6. l = << l[1], l[2], l[3], l[4] >>
  BY DEF Lay
<1>7. l[1] \in I64 /\ l[2] \in I64 /\ l[3] \in I64 /\ l[4] \in I64
  BY <1>1, <1>4, LayFits
<1>8. /\ written' = written \o l
      /\ bytes' = (((bytes \o WriteInt(l[1])) \o WriteInt(l[2])) \o WriteInt(l[3])) \o WriteInt(l[4])
      /\ cursor' = cursor /\ read' = read
  BY <1>1, <1>5 DEF WriteAll
<1>9. InRow(written, bytes) /\ written \in Seq(I64)
  BY <1>1, Unread DEF InRow
<1> HIDE DEF l, node
<1>10. /\ written' = Append(Append(Append(Append(written, l[1]), l[2]), l[3]), l[4])
       /\ Len(written') = Len(written) + 4
       /\ \A k \in 1..Len(written) : written'[k] = written[k]
       /\ \A k \in 1..4 : written'[Len(written) + k] = l[k]
  <2>1. /\ written \o l = Append(Append(Append(Append(written, l[1]), l[2]), l[3]), l[4])
        /\ Len(written \o l) = Len(written) + 4
        /\ \A k \in 1..Len(written) : (written \o l)[k] = written[k]
        /\ \A k \in 1..4 : (written \o l)[Len(written) + k] = l[k]
    <3> DEFINE x1 == l[1]
               x2 == l[2]
               x3 == l[3]
               x4 == l[4]
    <3>1. l = << x1, x2, x3, x4 >> /\ x1 \in I64 /\ x2 \in I64 /\ x3 \in I64 /\ x4 \in I64
      BY <1>6, <1>7, Zenon
    <3> HIDE DEF x1, x2, x3, x4
    <3>2. /\ written \o l = Append(Append(Append(Append(written, x1), x2), x3), x4)
          /\ Len(written \o l) = Len(written) + 4
          /\ \A k \in 1..Len(written) : (written \o l)[k] = written[k]
          /\ \A k \in 1..4 : (written \o l)[Len(written) + k] = l[k]
      BY <1>9, <3>1, Four
    <3> QED
      BY <3>2, Zenon DEF x1, x2, x3, x4
  <2> QED
    BY <1>8, <2>1, Zenon
<1>11. InRow(written', bytes')
  <2> DEFINE w1 == Append(written, l[1])
             b1 == bytes \o WriteInt(l[1])
             w2 == Append(w1, l[2])
             b2 == b1 \o WriteInt(l[2])
             w3 == Append(w2, l[3])
             b3 == b2 \o WriteInt(l[3])
  <2>1. InRow(w1, b1)
    BY <1>7, <1>9, OneMore
  <2> HIDE DEF w1, b1
  <2>2. InRow(w2, b2)
    BY <1>7, <2>1, OneMore
  <2> HIDE DEF w2, b2
  <2>3. InRow(w3, b3)
    BY <1>7, <2>2, OneMore
  <2> HIDE DEF w3, b3
  <2>4. InRow(Append(w3, l[4]), b3 \o WriteInt(l[4]))
    BY <1>7, <2>3, OneMore
  <2>5. written' = Append(w3, l[4]) /\ bytes' = b3 \o WriteInt(l[4])
    BY <1>8, <1>10, Zenon DEF w1, w2, w3, b1, b2, b3
  <2> QED
    BY <2>4, <2>5, Zenon
<1>12. CodecInv'
  <2>1. (InRow(written, bytes) /\ read = << >> /\ cursor = 0 => CodecInv)'
    BY Unread, PTL
  <2>2. InRow(written, bytes)'
    BY <1>11 DEF InRow, Laid
  <2>3. read' = << >> /\ cursor' = 0
    BY <1>1, <1>8, AtStart
  <2> QED
    BY <2>1, <2>2, <2>3, Zenon
<1>13. SourceInv' /\ NodesInv' /\ (\A n : Lay(n)' = Lay(n)) /\ nodes' = nodes /\ file' = file
  BY <1>1, Frozen DEF Source
<1>14. WriteInv'
  <2>1. file # << >> /\ Len(written') \in {0, 4, 8}
    <3>1. file # << >>
      BY <1>1 DEF WriteInv
    <3>2. Len(written) = 0 \/ Len(written) = 4
      BY <1>3
    <3>3. Len(written') = 4 \/ Len(written') = 8
      <4>1. Len(written') = Len(written) + 4
        BY <1>10, Zenon
      <4> QED
        BY <3>2, <4>1, WhichNode
    <3> QED
      BY <3>1, <3>3
  <2>2. ASSUME NEW n \in 1..2, 4 * n <= Len(written'), NEW k \in 1..4
        PROVE  written'[4 * (n - 1) + k] = Lay(nodes[n])[k]
    <3>1. CASE 4 * n <= Len(written)
      <4>1. written[4 * (n - 1) + k] = Lay(nodes[n])[k]
        BY <1>1, <3>1 DEF WriteInv
      <4>2. 4 * (n - 1) + k \in 1..Len(written)
        BY <1>3, <3>1
      <4> QED
        BY <1>10, <4>1, <4>2
    <3>2. CASE ~(4 * n <= Len(written))
      <4>1. n = m /\ 4 * (n - 1) + k = Len(written) + k
        <5>1. Len(written') = Len(written) + 4
          BY <1>10, Zenon
        <5>2. 4 * n <= Len(written) + 4
          BY <2>2, <5>1, Zenon
        <5> HIDE DEF m
        <5>3. n = m /\ 4 * (n - 1) = Len(written)
          BY <1>3, <3>2, <5>2, WhichNode
        <5> QED
          BY <5>3
      <4>2. written'[Len(written) + k] = l[k]
        BY <1>10
      <4> QED
        BY <4>1, <4>2 DEF l, node
    <3> QED
      BY <3>1, <3>2
  <2>3. \A n \in 1..2 : 4 * n <= Len(written') =>
           \A k \in 1..4 : written'[4 * (n - 1) + k] = Lay(nodes[n])'[k]
    BY <1>13, <2>2
  <2> QED
    BY <1>13, <2>1, <2>3 DEF WriteInv
<1> QED
  BY <1>12, <1>13, <1>14 DEF LInv

LEMMA LocationsStep == LInv /\ [LNext]_lvars => LInv'
<1> SUFFICES ASSUME LInv, [LNext]_lvars
             PROVE  LInv'
  OBVIOUS
<1>0. CodecInv /\ SourceInv /\ NodesInv /\ WriteInv
  BY DEF LInv
<1>1. CASE WriteLocation
  BY <1>1, LocationStep
<1>2. ASSUME UNCHANGED Source, UNCHANGED written, CodecInv'
      PROVE  LInv'
  <2>1. SourceInv' /\ NodesInv' /\ \A n : Lay(n)' = Lay(n)
    BY <1>0, <1>2, Frozen
  <2>2. nodes' = nodes /\ file' = file /\ written' = written
    BY <1>2 DEF Source
  <2>3. WriteInv'
    BY <1>0, <2>1, <2>2 DEF WriteInv
  <2> QED
    BY <1>2, <2>1, <2>3 DEF LInv
<1>3. CASE UNCHANGED vars /\ UNCHANGED Source
  <2>1. CodecInv'
    BY <1>0, <1>3, CodecStep
  <2>2. UNCHANGED written
    BY <1>3 DEF vars
  <2> QED
    BY <1>2, <1>3, <2>1, <2>2
<1>4. CASE AddError
  BY <1>3, <1>4 DEF AddError
<1>5. CASE WriteNumber
  <2>1. PICK i \in Values : Write(i)
    BY <1>5 DEF WriteNumber
  <2>2. CodecInv'
    BY <1>0, <2>1, WriteStep
  <2>3. UNCHANGED Source /\ file = << >>
    BY <1>5 DEF WriteNumber
  <2>4. SourceInv' /\ NodesInv'
    BY <1>0, <2>3, Frozen
  <2>5. nodes = << >> /\ nodes' = nodes
    BY <1>0, <2>3 DEF WriteInv, Source
  <2>6. WriteInv'
    BY <2>5 DEF WriteInv
  <2> QED
    BY <2>2, <2>4, <2>6 DEF LInv
<1>6. CASE ReadNumber
  <2>1. Read /\ UNCHANGED Source
    BY <1>6 DEF ReadNumber
  <2>2. CodecInv'
    BY <1>0, <2>1, ReadStep
  <2> QED
    BY <1>2, <2>1, <2>2 DEF Read
<1>7. CASE LDone
  BY <1>3, <1>7 DEF LDone, lvars, Source
<1>8. CASE UNCHANGED lvars
  BY <1>3, <1>8 DEF lvars, Source
<1> QED
  BY <1>1, <1>4, <1>5, <1>6, <1>7, <1>8 DEF LNext

\* Once all is read, what is decoded is what the lemmas above say.
LEMMA LocationsDecoded == LInv => Decodes
<1> SUFFICES ASSUME LInv, AllRead, NEW n \in 1..2
             PROVE  /\ DecodedStart(n) = << Line(nodes[n].from), FromCol(nodes[n]) >>
                    /\ DecodedEnd(n) = << Line(nodes[n].to), ToCol(nodes[n]) >>
  BY DEF Decodes
<1>1. CodecInv /\ SourceInv /\ NodesInv /\ WriteInv
  BY DEF LInv
<1>2. nodes # << >> /\ Len(read) = 4 * Len(nodes) /\ Len(nodes) = 2
  BY <1>1 DEF AllRead, NodesInv
<1>3. Len(read) = 8 /\ Len(read) <= Len(written) /\ \A j \in 1..Len(read) : read[j] = written[j]
  BY <1>1, <1>2 DEF CodecInv
<1>4. Len(written) = 8
  BY <1>1, <1>2, <1>3 DEF WriteInv
<1> DEFINE m == nodes[n]
           l == Lay(m)
<1>5. \A k \in 1..4 : written[4 * (n - 1) + k] = l[k]
  BY <1>1, <1>2, <1>4 DEF WriteInv
<1>6. \A k \in 1..4 : 4 * (n - 1) + k \in 1..Len(read)
  BY <1>3
<1>7. \A k \in 1..4 : read[4 * (n - 1) + k] = l[k]
  BY <1>3, <1>5, <1>6
<1>8. 1 \in 1..4 /\ 2 \in 1..4 /\ 3 \in 1..4 /\ 4 \in 1..4
  OBVIOUS
<1> HIDE DEF l, m
<1>9. /\ 4 * (n - 1) + 1 = 4 * n - 3 /\ 4 * (n - 1) + 2 = 4 * n - 2
      /\ 4 * (n - 1) + 3 = 4 * n - 1 /\ 4 * (n - 1) + 4 = 4 * n
  OBVIOUS
<1>10. /\ read[4 * (n - 1) + 1] = l[1] /\ read[4 * (n - 1) + 2] = l[2]
       /\ read[4 * (n - 1) + 3] = l[3] /\ read[4 * (n - 1) + 4] = l[4]
  BY <1>7, <1>8
<1>11. read[4 * n - 3] = l[1] /\ read[4 * n - 2] = l[2] /\ read[4 * n - 1] = l[3] /\ read[4 * n] = l[4]
  BY <1>9, <1>10, Zenon
<1>12. DecodedStart(n) = << l[1], l[2] >> /\ DecodedEnd(n) = << l[1] + l[3], l[2] + l[4] >>
  BY <1>11, Zenon DEF DecodedStart, DecodedEnd
<1>13. /\ l[1] = Line(m.from) /\ l[2] = FromCol(m) /\ l[3] = Line(m.to) - Line(m.from)
       /\ l[4] = ToCol(m) - FromCol(m)
  BY DEF l, Lay
<1>14. Named(m)
  <2>1. n = 1 \/ n = 2
    OBVIOUS
  <2> QED
    BY <1>1, <1>2, <2>1 DEF NodesInv, m
<1>15. Line(m.from) \in Int /\ Line(m.to) \in Int /\ FromCol(m) \in Int /\ ToCol(m) \in Int
  <2>1. /\ Line(m.from) \in Int /\ Line(m.to) \in Int /\ Col(m.from) \in Int /\ Col(m.to) \in Int
        /\ Conv(m.from) \in Int /\ Conv(m.to) \in Int
    BY <1>1, <1>14, PlaceType DEF Named
  <2> QED
    BY <2>1 DEF FromCol, ToCol
<1>16. l[1] + l[3] = Line(m.to) /\ l[2] + l[4] = ToCol(m)
  BY <1>13, <1>15
<1> QED
  BY <1>12, <1>13, <1>16 DEF m

LEMMA LocationsInvariant == LSpec => []LInv
  BY LocationsInit, LocationsStep, PTL DEF LSpec

\* For every text, the integers of the locations, and all others, are read back
\* as they were written (write_location, write_int).
THEOREM LocationsReadBack == LSpec => []ReadsBack
<1>1. LInv => ReadsBack
  BY CodecMeaning DEF LInv
<1> QED
  BY <1>1, LocationsInvariant, PTL

\* For every text, what mypy reads of a node is Python's position of its ends
\* whenever only ASCII stands on the line up to there, and of a decorated def or class
\* in any case; the lines are always Python's (write_location, LineIndex::line_column,
\* convert_column_to_codepoint).
THEOREM PositionsAreExact == LSpec => []PositionsExact
<1>1. LInv => PositionsExact
  BY LocationsDecoded, ExactMeaning DEF LInv
<1> QED
  BY <1>1, LocationsInvariant, PTL

\* For every text, ASCII or not, what stands in a node starts within it for mypy and
\* ends on one of its lines, and within it as well unless it is a decorated
\* definition with more than ASCII on its last line inside a node that is none; and
\* no node ends before its start (write_location, Stmt::FunctionDef, Stmt::ClassDef).
THEOREM NestingIsKept == LSpec => []NestingKept
<1>1. LInv => NestingKept
  BY LocationsDecoded, NestingMeaning DEF LInv
<1> QED
  BY <1>1, LocationsInvariant, PTL
=============================================================================
