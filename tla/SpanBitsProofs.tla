------------------------------ MODULE SpanBitsProofs ------------------------------
(******************************************************************************)
(* Theorems about SpanBits, for every number of objects and every size of     *)
(* words and bytes.                                                           *)
(******************************************************************************)
EXTENDS SpanBitsInvariant, FiniteSetTheorems, WellFoundedInduction, TLAPS

(* A quotient and a remainder that fit are the quotient and the remainder.    *)
LEMMA Division ==
  ASSUME NEW a \in Nat, NEW b \in Nat \ {0}
  PROVE  /\ a \div b \in Nat /\ a % b \in 0 .. b - 1
         /\ a = b * (a \div b) + (a % b)
BY SMT

LEMMA DivisionUnique ==
  ASSUME NEW b \in Nat \ {0}, NEW q1 \in Int, NEW q2 \in Int,
         NEW r1 \in 0 .. b - 1, NEW r2 \in 0 .. b - 1,
         b * q1 + r1 = b * q2 + r2
  PROVE  q1 = q2 /\ r1 = r2
<1>1. b * (q1 - q2) = r2 - r1
  BY SMT
<1>2. CASE q1 > q2
  <2>1. b * (q1 - q2) >= b
    BY <1>2, SMT
  <2> QED BY <1>1, <2>1, SMT
<1>3. CASE q1 < q2
  <2>1. b * (q1 - q2) <= -b
    BY <1>3, SMT
  <2> QED BY <1>1, <2>1, SMT
<1>4. CASE q1 = q2
  BY <1>4, SMT
<1> QED BY <1>2, <1>3, <1>4, SMT

(* trailing_zeros: the lowest bit of a word that is not zero.                 *)
LEMMA LowestBit ==
  ASSUME NEW S \in SUBSET Nat, S # {}
  PROVE  Min(S) \in S /\ \A y \in S : Min(S) <= y
<1>1. PICK x \in S : \A y \in S : ~ (<<y, x>> \in OpToRel(<, Nat))
  BY NatLessThanWellFounded, WFMin
<1>2. \A y \in S : x <= y
  <2> TAKE y \in S
  <2>1. <<y, x>> \notin OpToRel(<, Nat)
    BY <1>1
  <2>2. ~ (y < x)
    BY <2>1 DEF OpToRel
  <2> QED BY <2>2, SMT
<1> QED BY <1>2, Zenon DEF Min

-------------------------------------------------------------------------------
(* count_allocations                                                          *)

(* The bits of byte i.                                                        *)
InByte(bits, i) == {n \in bits : n \div ByteBits = i}

(* The bits of the bytes S.                                                   *)
InBytes(bits, S) == {n \in bits : n \div ByteBits \in S}

(* The ones of a byte below bit k are as many as the positions they stand     *)
(* for.                                                                       *)
LEMMA ByteCounted ==
  ASSUME NEW bits \in SUBSET Nat, IsFiniteSet(bits), NEW i \in Nat,
         NEW k \in 0 .. ByteBits
  PROVE  Cardinality({b \in 0 .. k - 1 : i * ByteBits + b \in bits})
           = Cardinality({n \in InByte(bits, i) : n < i * ByteBits + k})
<1> DEFINE B == ByteBits
           S == {b \in 0 .. k - 1 : i * B + b \in bits}
           T == {n \in InByte(bits, i) : n < i * B + k}
           f == [b \in S |-> i * B + b]
<1>1. B \in Nat \ {0} /\ k \in Nat /\ k <= B
  BY SpanAssumption
<1>2. i * B \in Nat
  BY <1>1, SMT
<1>3. \A b \in S : b \in 0 .. B - 1 /\ i * B + b \in Nat
  BY <1>1, <1>2, SMT
<1>4. \A b \in S : (i * B + b) \div B = i
  <2> TAKE b \in S
  <2> DEFINE m == i * B + b
  <2>1. m \in Nat /\ b \in 0 .. B - 1 /\ m = B * i + b
    BY <1>1, <1>3, SMT
  <2> HIDE DEF m
  <2>2. m \div B \in Nat /\ m % B \in 0 .. B - 1 /\ m = B * (m \div B) + (m % B)
    BY <1>1, <2>1, Division
  <2>3. m \div B = i
    BY <1>1, <2>1, <2>2, DivisionUnique
  <2> QED BY <2>3 DEF m
<1>5. f \in [S -> T]
  <2> SUFFICES ASSUME NEW b \in S PROVE i * B + b \in T
    OBVIOUS
  <2>1. i * B + b \in bits /\ (i * B + b) \div B = i
    BY <1>4
  <2>2. b \in Int /\ b < k
    BY <1>1, SMT
  <2>3. i * B + b < i * B + k
    BY <1>1, <1>2, <2>2, SMT
  <2> QED BY <2>1, <2>3 DEF InByte
<1>6. f \in Injection(S, T)
  <2>1. \A b, c \in S : f[b] = f[c] => b = c
    BY <1>1, <1>2, <1>3, SMT
  <2> QED BY <1>5, <2>1, Zenon DEF Injection, IsInjective
<1>7. f \in Surjection(S, T)
  <2> SUFFICES ASSUME NEW n \in T PROVE \E b \in S : f[b] = n
    BY <1>5, Zenon DEF Surjection
  <2>1. n \in bits /\ n \in Nat /\ n \div B = i /\ n < i * B + k
    BY DEF InByte
  <2>2. n % B \in 0 .. B - 1 /\ n = B * i + (n % B)
    BY <1>1, <2>1, Division
  <2>3. n = i * B + (n % B) /\ n % B \in 0 .. k - 1
    BY <1>1, <1>2, <2>1, <2>2, SMT
  <2>4. n % B \in S /\ f[n % B] = n
    BY <2>1, <2>3
  <2> QED BY <2>4
<1>8. f \in Bijection(S, T)
  BY <1>6, <1>7 DEF Bijection
<1>9. IsFiniteSet(S)
  <2>1. IsFiniteSet(0 .. k - 1)
    BY <1>1, FS_Interval
  <2>2. S \in SUBSET (0 .. k - 1)
    OBVIOUS
  <2> QED BY <2>1, <2>2, FS_Subset
<1> QED BY <1>8, <1>9, FS_Bijection DEF ExistsBijection

(* The fold of count_allocations adds up the ones of its bytes, in whatever   *)
(* order it takes them: the count of the bits in a set of bytes solves the    *)
(* recursion of the fold, and no other function does.                         *)
LEMMA BytesCounted ==
  ASSUME NEW bits \in SUBSET Nat, IsFiniteSet(bits),
         NEW S \in SUBSET Nat, IsFiniteSet(S)
  PROVE  MapThenSumSet(LAMBDA i : OnesInByte(bits, i), S)
           = Cardinality(InBytes(bits, S))
<1> DEFINE x(s) == CHOOSE i \in s : TRUE
           Step(it) == [s \in SUBSET S |->
                          IF s = {} THEN 0
                          ELSE OnesInByte(bits, x(s)) + it[s \ {x(s)}]]
           fold == CHOOSE it : it = Step(it)
           count == [s \in SUBSET S |-> Cardinality(InBytes(bits, s))]
<1>1. MapThenSumSet(LAMBDA i : OnesInByte(bits, i), S) = fold[S]
  BY DEF MapThenSumSet, MapThenFoldSet
<1>2. \A s \in SUBSET S : IsFiniteSet(InBytes(bits, s)) /\ Cardinality(InBytes(bits, s)) \in Nat
  BY FS_Subset, FS_CardinalityType DEF InBytes
<1>3. ASSUME NEW s \in SUBSET S, NEW i \in s
      PROVE  Cardinality(InBytes(bits, s))
               = OnesInByte(bits, i) + Cardinality(InBytes(bits, s \ {i}))
  <2>1. i \in Nat /\ ByteBits \in Nat \ {0}
    BY SpanAssumption
  <2>2. OnesInByte(bits, i) = Cardinality(InByte(bits, i))
    <3> DEFINE T == {n \in InByte(bits, i) : n < i * ByteBits + ByteBits}
    <3>1. T = InByte(bits, i)
      <4> SUFFICES ASSUME NEW n \in InByte(bits, i) PROVE n < i * ByteBits + ByteBits
        OBVIOUS
      <4>1. n \in Nat /\ n \div ByteBits = i
        BY DEF InByte
      <4>2. n % ByteBits \in 0 .. ByteBits - 1 /\ n = ByteBits * i + (n % ByteBits)
        BY <2>1, <4>1, Division
      <4> QED BY <2>1, <4>1, <4>2, SMT
    <3>2. ByteBits \in 0 .. ByteBits
      BY <2>1
    <3>3. OnesInByte(bits, i) = Cardinality(T)
      BY <2>1, <3>2, ByteCounted DEF OnesInByte
    <3> QED BY <3>1, <3>3
  <2>3. InByte(bits, i) \cup InBytes(bits, s \ {i}) = InBytes(bits, s)
    BY DEF InByte, InBytes
  <2>4. InByte(bits, i) \cap InBytes(bits, s \ {i}) = {}
    BY DEF InByte, InBytes
  <2>5. IsFiniteSet(InByte(bits, i))
    BY FS_Subset DEF InByte
  <2>6. IsFiniteSet(InBytes(bits, s \ {i}))
    BY <1>2
  <2>7. Cardinality({}) = 0
    BY FS_EmptySet
  <2>8. Cardinality(InByte(bits, i) \cup InBytes(bits, s \ {i}))
          = Cardinality(InByte(bits, i)) + Cardinality(InBytes(bits, s \ {i})) - 0
    BY <2>4, <2>5, <2>6, <2>7, FS_Union
  <2>9. Cardinality(InByte(bits, i)) \in Nat /\ Cardinality(InBytes(bits, s \ {i})) \in Nat
    BY <1>2, <2>5, FS_CardinalityType
  <2>10. \A a, b \in Nat : a + b - 0 = a + b
    BY SMT
  <2>11. Cardinality(InBytes(bits, s))
           = Cardinality(InByte(bits, i)) + Cardinality(InBytes(bits, s \ {i}))
    BY <2>3, <2>8, <2>9, <2>10, Zenon
  <2> QED BY <2>2, <2>11, Zenon
<1>4. \A s \in SUBSET S : s # {} => x(s) \in s /\ s \ {x(s)} \in SUBSET S
  OBVIOUS
<1>5. count = Step(count)
  <2> SUFFICES ASSUME NEW s \in SUBSET S
               PROVE  count[s] = IF s = {} THEN 0
                                 ELSE OnesInByte(bits, x(s)) + count[s \ {x(s)}]
    OBVIOUS
  <2>1. CASE s = {}
    BY <2>1, FS_EmptySet DEF InBytes
  <2>2. CASE s # {}
    <3>1. Cardinality(InBytes(bits, s))
            = OnesInByte(bits, x(s)) + Cardinality(InBytes(bits, s \ {x(s)}))
      BY <1>3, <1>4, <2>2
    <3>2. count[s \ {x(s)}] = Cardinality(InBytes(bits, s \ {x(s)}))
      BY <1>4, <2>2
    <3> QED BY <2>2, <3>1, <3>2
  <2> QED BY <2>1, <2>2
<1>6. fold = Step(fold)
  <2> HIDE DEF Step, count
  <2> QED BY <1>5 DEF fold
<1> HIDE DEF fold
<1>7. ASSUME NEW s \in SUBSET S
      PROVE  fold[s] = IF s = {} THEN 0
                       ELSE OnesInByte(bits, x(s)) + fold[s \ {x(s)}]
  <2>1. Step(fold)[s] = IF s = {} THEN 0
                        ELSE OnesInByte(bits, x(s)) + fold[s \ {x(s)}]
    OBVIOUS
  <2> QED BY <1>6, <2>1
<1>8. ASSUME NEW s \in SUBSET S
      PROVE  count[s] = IF s = {} THEN 0
                        ELSE OnesInByte(bits, x(s)) + count[s \ {x(s)}]
  <2>1. Step(count)[s] = IF s = {} THEN 0
                         ELSE OnesInByte(bits, x(s)) + count[s \ {x(s)}]
    OBVIOUS
  <2> QED BY <1>5, <2>1
<1>9. \A s \in SUBSET S : fold[s] = count[s]
  <2> DEFINE bad == {s \in SUBSET S : fold[s] # count[s]}
  <2> SUFFICES ASSUME bad # {} PROVE FALSE
    OBVIOUS
  <2>1. IsWellFoundedOn(StrictSubsetOrdering(S), SUBSET S)
    BY FS_StrictSubsetOrderingWellFounded, FS_FiniteSubsetsOfFinite
  <2>2. PICK s \in bad : \A t \in bad : ~ (<<t, s>> \in StrictSubsetOrdering(S))
    <3>1. bad \subseteq SUBSET S
      OBVIOUS
    <3> HIDE DEF bad
    <3> QED BY <2>1, <3>1, WFMin
  <2>3. s # {}
    BY <1>7, <1>8
  <2> DEFINE t == s \ {x(s)}
  <2>4. t \in SUBSET S /\ s \in SUBSET S /\ t \subseteq s /\ t # s
    BY <1>4, <2>3
  <2> HIDE DEF t
  <2>5. <<t, s>> \in StrictSubsetOrdering(S)
    BY <2>4 DEF StrictSubsetOrdering
  <2>6. fold[t] = count[t]
    BY <2>2, <2>4, <2>5, Zenon
  <2>7. fold[s] = OnesInByte(bits, x(s)) + fold[t]
    BY <1>7, <2>3 DEF t
  <2>8. count[s] = OnesInByte(bits, x(s)) + count[t]
    BY <1>8, <2>3 DEF t
  <2> HIDE DEF count
  <2> QED BY <2>6, <2>7, <2>8
<1> QED BY <1>1, <1>9

(* The bitmaps are finite.                                                    *)
LEMMA BitmapsFinite ==
  ASSUME NEW bits \in SUBSET Positions
  PROVE  /\ bits \in SUBSET Nat /\ IsFiniteSet(bits)
         /\ IsFiniteSet(bits \cap Objects) /\ Cardinality(bits \cap Objects) \in Nat
         /\ Cardinality(bits \cap Objects) <= number_of_elements
<1> DEFINE N == number_of_elements
           words == (N + WordBits - 1) \div WordBits
<1>1. N \in Nat \ {0} /\ WordBits \in Nat \ {0}
  BY SpanAssumption
<1>2. words \in Nat
  BY <1>1, Division
<1>3. words * WordBits \in Nat
  <2> HIDE DEF words
  <2> QED BY <1>1, <1>2, SMT
<1>4. IsFiniteSet(Positions) /\ Positions \in SUBSET Nat
  <2> HIDE DEF words
  <2>1. Positions = 0 .. words * WordBits - 1
    BY DEF Positions, words
  <2>2. words * WordBits - 1 \in Int /\ 0 \in Int
    BY <1>3
  <2> QED BY <2>1, <2>2, FS_Interval
<1>5. IsFiniteSet(bits)
  BY <1>4, FS_Subset
<1>6. IsFiniteSet(Objects) /\ Cardinality(Objects) = N
  <2>1. 0 \in Int /\ N - 1 \in Int /\ ~ (0 > N - 1) /\ N - 1 - 0 + 1 = N
    BY <1>1
  <2> QED BY <2>1, FS_Interval DEF Objects
<1>7. bits \cap Objects \in SUBSET Objects
  OBVIOUS
<1>8. IsFiniteSet(bits \cap Objects) /\ Cardinality(bits \cap Objects) <= N
  BY <1>6, <1>7, FS_Subset
<1> QED BY <1>4, <1>5, <1>8, FS_CardinalityType

(* count_allocations counts the marked objects and no undefined bits: the     *)
(* bytes below the last, and the masked last one.                             *)
THEOREM CountIsExact ==
  ASSUME gc_mark_bits \in SUBSET Positions
  PROVE  CountExact
<1> DEFINE bits == gc_mark_bits
           N == number_of_elements
           B == ByteBits
           m == N \div B
           r == N % B
           low == InBytes(bits, 0 .. m - 1)
           high == {n \in InByte(bits, m) : n < m * B + r}
<1>1. bits \in SUBSET Nat /\ IsFiniteSet(bits)
  BY BitmapsFinite
<1>2. B \in Nat \ {0} /\ N \in Nat
  BY SpanAssumption
<1>3. m \in Nat /\ r \in 0 .. B - 1 /\ N = B * m + r
  BY <1>2, Division
<1>4. MapThenSumSet(LAMBDA i : OnesInByte(bits, i), 0 .. m - 1) = Cardinality(low)
  <2>1. 0 .. m - 1 \in SUBSET Nat /\ IsFiniteSet(0 .. m - 1)
    <3> HIDE DEF m
    <3>1. 0 \in Int /\ m - 1 \in Int /\ 0 .. m - 1 \in SUBSET Nat
      BY <1>3
    <3> QED BY <3>1, FS_Interval
  <2> QED BY <1>1, <2>1, BytesCounted
<1>5. Cardinality({b \in 0 .. r - 1 : m * B + b \in bits}) = Cardinality(high)
  <2>1. r \in 0 .. B
    BY <1>2, <1>3
  <2> HIDE DEF m, r
  <2> QED BY <1>1, <1>3, <2>1, ByteCounted
<1>6. ASSUME NEW n \in bits
      PROVE  /\ n \in low <=> n < B * m
             /\ n \in high <=> n < N /\ ~ (n < B * m)
  <2> DEFINE q == n \div B
             t == n % B
  <2>1. n \in Nat /\ q \in Nat /\ t \in 0 .. B - 1 /\ n = B * q + t
    BY <1>1, <1>2, Division
  <2>2. n \in low <=> q < m
    BY <1>3, <2>1 DEF InBytes
  <2>3. n \in high <=> q = m /\ n < m * B + r
    BY DEF InByte
  <2> HIDE DEF q, t, m, r, low, high
  <2>4. B * m \in Nat /\ m * B = B * m /\ B * (m + 1) = B * m + B
    BY <1>2, <1>3, SMT
  <2>5. q < m => B * (q + 1) <= B * m
    BY <1>2, <1>3, <2>1, SMT
  <2>6. q > m => B * (m + 1) <= B * q
    BY <1>2, <1>3, <2>1, SMT
  <2>7. B * q \in Nat /\ B * (q + 1) = B * q + B
    BY <1>2, <2>1, SMT
  <2> DEFINE bm == B * m
             bq == B * q
  <2>8. /\ q \in Nat /\ m \in Nat /\ n \in Nat /\ bm \in Nat /\ bq \in Nat
        /\ n = bq + t /\ t \in 0 .. B - 1 /\ N = bm + r /\ r \in 0 .. B - 1
        /\ q < m => bq + B <= bm
        /\ q > m => bm + B <= bq
        /\ q = m => bq = bm
        /\ m * B = bm /\ B \in Nat
    BY <1>2, <1>3, <2>1, <2>4, <2>5, <2>6, <2>7
  <2> HIDE DEF bm, bq
  <2>9. n < bm <=> q < m
    BY <2>8, SMT
  <2>10. n < N /\ ~ (n < bm) <=> q = m /\ n < bm + r
    BY <2>8, SMT
  <2> QED BY <2>2, <2>3, <2>8, <2>9, <2>10 DEF bm
<1>7. count_allocations = Cardinality(low) + Cardinality(high)
  <2>1. high = {} \/ r # 0
    <3> SUFFICES ASSUME r = 0, NEW n \in high PROVE FALSE
      OBVIOUS
    <3>1. n \in bits /\ n < N /\ ~ (n < B * m)
      BY <1>6 DEF InByte
    <3> DEFINE bm == B * m
    <3>2. N = bm + r /\ ~ (n < bm) /\ n < N
      BY <1>3, <3>1
    <3>3. bm \in Nat /\ n \in Nat
      BY <1>1, <1>2, <1>3, <3>1, SMT
    <3> HIDE DEF bm, m, r
    <3> QED BY <3>2, <3>3, SMT
  <2>2. Cardinality({}) = 0
    BY FS_EmptySet
  <2>3. Cardinality(low) \in Nat
    BY <1>1, FS_Subset, FS_CardinalityType DEF InBytes
  <2>4. count_allocations =
          MapThenSumSet(LAMBDA i : OnesInByte(bits, i), 0 .. m - 1)
          + IF r # 0 THEN Cardinality({b \in 0 .. r - 1 : m * B + b \in bits}) ELSE 0
    BY Zenon DEF count_allocations
  <2>5. count_allocations = Cardinality(low) + IF r # 0 THEN Cardinality(high) ELSE 0
    <3> HIDE DEF low, high, m, r, bits
    <3> QED BY <1>4, <1>5, <2>4, Zenon
  <2> HIDE DEF low, high, r
  <2> QED BY <2>1, <2>2, <2>3, <2>5
<1>8. low \cup high = bits \cap Objects /\ low \cap high = {}
  <2>1. low \subseteq bits /\ high \subseteq bits
    BY DEF InBytes, InByte
  <2>2. \A n \in bits : n \in Objects <=> n < N
    BY <1>1, <1>2 DEF Objects
  <2>3. B * m <= N /\ \A n \in bits : n \in Nat
    BY <1>1, <1>2, <1>3, SMT
  <2> DEFINE bm == B * m
  <2>4. bm \in Int /\ bm <= N /\ \A n \in bits : /\ n \in low <=> n < bm
                                                 /\ n \in high <=> n < N /\ ~ (n < bm)
    BY <1>2, <1>3, <1>6, <2>3
  <2> HIDE DEF low, high, bm
  <2> QED BY <1>2, <2>1, <2>2, <2>3, <2>4
<1>9. /\ IsFiniteSet(low) /\ IsFiniteSet(high)
      /\ Cardinality(low) \in Nat /\ Cardinality(high) \in Nat
  <2>1. low \in SUBSET bits /\ high \in SUBSET bits
    BY DEF InBytes, InByte
  <2> HIDE DEF low, high
  <2> QED BY <1>1, <2>1, FS_Subset, FS_CardinalityType
<1>10. Cardinality(low \cup high) = Cardinality(low) + Cardinality(high) - 0
  <2> HIDE DEF low, high
  <2>1. Cardinality(low \cup high)
          = Cardinality(low) + Cardinality(high) - Cardinality(low \cap high)
    BY <1>9, FS_Union
  <2>2. Cardinality(low \cap high) = 0
    BY <1>8, FS_EmptySet
  <2> QED BY <2>1, <2>2
<1>11. \A a, b \in Nat : a + b - 0 = a + b
  BY SMT
<1> HIDE DEF low, high
<1>12. count_allocations = Cardinality(low \cup high)
  BY <1>7, <1>9, <1>10, <1>11
<1> QED BY <1>8, <1>12, Zenon DEF CountExact

-------------------------------------------------------------------------------
(* The words of the bitmaps.                                                  *)

(* Positions up to the end of a word have the word's remainders in turn, and  *)
(* the next position begins a word.                                           *)
LEMMA WithinWord ==
  ASSUME NEW i \in Nat, NEW b \in Nat
  PROVE  /\ i % WordBits \in 0 .. WordBits - 1
         /\ (i % WordBits) + b < WordBits => (i + b) % WordBits = (i % WordBits) + b
         /\ (i % WordBits) + b = WordBits => (i + b) % WordBits = 0
<1> DEFINE W == WordBits
           q == i \div W
           r == i % W
           p == (i + b) \div W
           t == (i + b) % W
<1>1. W \in Nat \ {0}
  BY SpanAssumption
<1>2. q \in Nat /\ r \in 0 .. W - 1 /\ i = W * q + r
  BY <1>1, Division
<1>3. p \in Nat /\ t \in 0 .. W - 1 /\ i + b = W * p + t
  <2>1. i + b \in Nat
    OBVIOUS
  <2> DEFINE n == i + b
  <2> HIDE DEF n
  <2>2. n \in Nat => n \div W \in Nat /\ n % W \in 0 .. W - 1 /\ n = W * (n \div W) + (n % W)
    BY <1>1, Division
  <2> QED BY <2>1, <2>2 DEF n
<1> HIDE DEF q, r, p, t
<1>4. ASSUME r + b < W PROVE t = r + b
  <2>1. r + b \in 0 .. W - 1 /\ q \in Int /\ p \in Int
    <3>1. r \in Nat /\ q \in Int /\ p \in Int
      BY <1>2, <1>3
    <3>2. r + b \in 0 .. W - 1
      BY <1>1, <1>4, <3>1, SMT
    <3> QED BY <3>1, <3>2
  <2>2. W * p + t = W * q + (r + b)
    <3> DEFINE u == W * q
               v == W * p
    <3>1. u \in Int /\ v \in Int
      BY <1>1, <1>2, <1>3, SMT
    <3>2. i = u + r /\ i + b = v + t
      BY <1>2, <1>3
    <3> HIDE DEF u, v
    <3>3. r \in Int /\ t \in Int /\ b \in Int
      BY <1>2, <1>3
    <3>4. v + t = u + (r + b)
      BY <3>1, <3>2, <3>3, SMT
    <3> QED BY <3>4 DEF u, v
  <2>3. \A c1, c2 \in Int : \A r1, r2 \in 0 .. W - 1 : W * c1 + r1 = W * c2 + r2 => r1 = r2
    BY <1>1, DivisionUnique
  <2>4. t \in 0 .. W - 1
    BY <1>3
  <2> QED BY <2>1, <2>2, <2>3, <2>4, Zenon
<1>5. ASSUME r + b = W PROVE t = 0
  <2>1. 0 \in 0 .. W - 1 /\ q + 1 \in Int /\ p \in Int
    BY <1>1, <1>2, <1>3
  <2>2. W * p + t = W * (q + 1) + 0
    <3> DEFINE u == W * q
               v == W * p
    <3>1. u \in Int /\ v \in Int /\ W * (q + 1) = u + W
      BY <1>1, <1>2, <1>3, SMT
    <3>2. i = u + r /\ i + b = v + t
      BY <1>2, <1>3
    <3> HIDE DEF u, v
    <3>3. v + t = (u + W) + 0
      BY <1>1, <1>2, <1>3, <1>5, <3>1, <3>2, SMT
    <3> QED BY <3>1, <3>3 DEF v
  <2>3. \A c1, c2 \in Int : \A r1, r2 \in 0 .. W - 1 : W * c1 + r1 = W * c2 + r2 => r1 = r2
    BY <1>1, DivisionUnique
  <2>4. t \in 0 .. W - 1
    BY <1>3
  <2> QED BY <2>1, <2>2, <2>3, <2>4, Zenon
<1> QED BY <1>2, <1>4, <1>5 DEF r, t

(* A word begins with a whole byte, so a refill shows the word.               *)
LEMMA RefillShows ==
  ASSUME NEW bits, NEW i \in Nat, i % WordBits = 0
  PROVE  Refill(bits, i \div ByteBits)
           = {b \in Word : (i % WordBits) + b < WordBits /\ i + b \notin bits}
<1> DEFINE W == WordBits
           B == ByteBits
           k == W \div B
           q == i \div W
           j == i \div B
           t == i % B
<1>1. W \in Nat \ {0} /\ B \in Nat \ {0} /\ W % B = 0
  BY SpanAssumption
<1>2. k \in Nat /\ W = B * k
  <2>1. k \in Nat /\ W % B \in 0 .. B - 1 /\ W = B * k + (W % B)
    BY <1>1, Division
  <2>2. B * k \in Nat
    <3> HIDE DEF k
    <3> QED BY <1>1, <2>1, SMT
  <2> QED BY <1>1, <2>1, <2>2
<1>3. q \in Nat /\ i = W * q
  <2>1. q \in Nat /\ i % W \in 0 .. W - 1 /\ i = W * q + (i % W)
    BY <1>1, Division
  <2>2. W * q \in Nat
    <3> HIDE DEF q
    <3> QED BY <1>1, <2>1, SMT
  <2> QED BY <2>1, <2>2
<1>4. j \in Nat /\ t \in 0 .. B - 1 /\ i = B * j + t
  BY <1>1, Division
<1> HIDE DEF k, q, j, t
<1>5. i = B * (k * q) /\ k * q \in Int
  <2>1. (B * k) * q = B * (k * q) /\ k * q \in Int
    BY <1>1, <1>2, <1>3, SMT
  <2> QED BY <1>2, <1>3, <2>1
<1>6. t = 0
  <2> DEFINE m == k * q
  <2>1. m \in Int /\ i = B * m
    BY <1>5
  <2> HIDE DEF m
  <2>2. B * m \in Int
    BY <1>1, <2>1, SMT
  <2>3. B * m + 0 = B * j + t /\ 0 \in 0 .. B - 1 /\ j \in Int
    BY <1>1, <1>4, <2>1, <2>2
  <2>4. \A c1, c2 \in Int : \A r1, r2 \in 0 .. B - 1 : B * c1 + r1 = B * c2 + r2 => r1 = r2
    BY <1>1, DivisionUnique
  <2> QED BY <1>4, <2>1, <2>3, <2>4, Zenon
<1>7. j * B = i
  <2>1. B * j \in Int /\ j * B = B * j
    BY <1>1, <1>4, SMT
  <2> QED BY <1>4, <1>6, <2>1
<1>8. Refill(bits, j) = {b \in Word : i + b \notin bits}
  BY <1>7 DEF Refill
<1>9. \A b \in Word : (i % W) + b < W
  BY <1>1 DEF Word
<1> QED BY <1>8, <1>9 DEF j

(* The first word.                                                            *)
LEMMA RefillFirst ==
  ASSUME NEW bits
  PROVE  Refill(bits, 0) = {b \in Word : (0 % WordBits) + b < WordBits /\ 0 + b \notin bits}
<1>1. WordBits \in Nat \ {0} /\ ByteBits \in Nat \ {0}
  BY SpanAssumption
<1>2. 0 % WordBits = 0 /\ 0 * ByteBits = 0
  BY <1>1, SMT
<1>3. \A b \in Word : b \in Int /\ 0 + b = b /\ b < WordBits
  BY <1>1 DEF Word
<1> QED BY <1>2, <1>3 DEF Refill

(* NextWord is the end of the word that the search is in.                     *)
LEMMA NextWordIs ==
  ASSUME scan \in Nat
  PROVE  /\ NextWord \in Nat /\ NextWord % WordBits = 0
         /\ NextWord = scan + (WordBits - (scan % WordBits))
         /\ scan < NextWord
<1> DEFINE W == WordBits
           q == scan \div W
           r == scan % W
           p == (scan + W) \div W
           t == (scan + W) % W
<1>1. W \in Nat \ {0}
  BY SpanAssumption
<1>2. q \in Nat /\ r \in 0 .. W - 1 /\ scan = W * q + r
  BY <1>1, Division
<1>3. p \in Nat /\ t \in 0 .. W - 1 /\ scan + W = W * p + t
  <2> DEFINE n == scan + W
  <2>1. n \in Nat
    BY <1>1
  <2> HIDE DEF n
  <2>2. n \div W \in Nat /\ n % W \in 0 .. W - 1 /\ n = W * (n \div W) + (n % W)
    BY <1>1, <2>1, Division
  <2> QED BY <2>2 DEF n
<1>4. NextWord = p * W
  BY DEF NextWord
<1> HIDE DEF q, r, p, t
<1>5. W * (q + 1) = W * q + W /\ W * q \in Nat /\ p * W = W * p /\ W * p \in Nat
  BY <1>1, <1>2, <1>3, SMT
<1>6. p = q + 1
  <2>1. W * p + t = W * (q + 1) + r
    <3> DEFINE u == W * q
               v == W * p
    <3>1. u \in Int /\ v \in Int /\ W * (q + 1) = u + W /\ scan = u + r /\ scan + W = v + t
      BY <1>2, <1>3, <1>5
    <3> HIDE DEF u, v
    <3>2. v + t = (u + W) + r
      BY <1>1, <1>2, <1>3, <3>1, SMT
    <3> QED BY <3>1, <3>2 DEF v
  <2>2. p \in Int /\ q + 1 \in Int
    BY <1>2, <1>3
  <2> QED BY <1>1, <1>2, <1>3, <2>1, <2>2, DivisionUnique
<1>7. NextWord = W * q + W /\ NextWord \in Nat
  BY <1>1, <1>4, <1>5, <1>6
<1>8. NextWord = scan + (W - r) /\ scan < NextWord
  <2> DEFINE u == W * q
  <2>1. u \in Nat /\ NextWord = u + W /\ scan = u + r
    BY <1>2, <1>5, <1>7
  <2> HIDE DEF u
  <2> QED BY <1>1, <1>2, <2>1
<1>9. NextWord % W = 0
  <2>1. W - r \in Nat /\ r + (W - r) = W
    BY <1>1, <1>2
  <2>2. (scan + (W - r)) % W = 0
    BY <2>1, WithinWord DEF r
  <2> QED BY <1>8, <2>2
<1> QED BY <1>7, <1>8, <1>9 DEF r

-------------------------------------------------------------------------------
(* One turn of the loop of next_free_index.                                   *)

(* An empty cache: all objects up to the end of the word are in use.          *)
LEMMA WordUsedUp ==
  ASSUME TypeOK, ScanSound, pc = "scan", alloc_cache = {}
  PROVE  free_index .. NextWord - 1 \subseteq alloc_bits
<1> SUFFICES ASSUME NEW n \in free_index .. NextWord - 1 PROVE n \in alloc_bits
  OBVIOUS
<1> DEFINE b == n - scan
           r == scan % WordBits
<1>1. /\ scan \in Nat /\ free_index \in Nat /\ WordBits \in Nat \ {0}
      /\ free_index .. scan - 1 \subseteq alloc_bits
      /\ CacheShows(scan)
  BY SpanAssumption DEF TypeOK, ScanSound
<1>2. /\ r \in 0 .. WordBits - 1
      /\ NextWord \in Nat /\ NextWord = scan + (WordBits - r)
  BY <1>1, NextWordIs, WithinWord
<1> HIDE DEF r
<1>3. n \in Nat /\ n < NextWord
  BY <1>1, <1>2
<1>4. CASE n < scan
  BY <1>1, <1>3, <1>4
<1>5. CASE n >= scan
  <2>1. b \in 0 .. WordBits - 1 /\ r + b < WordBits /\ scan + b = n
    BY <1>1, <1>2, <1>3, <1>5
  <2>2. b \in Word
    BY <2>1 DEF Word
  <2> HIDE DEF b
  <2> QED BY <1>1, <2>1, <2>2 DEF CacheShows, r
<1> QED BY <1>1, <1>3, <1>4, <1>5

(* A cache that is not empty: its lowest bit is the first free object.        *)
LEMMA FoundFirst ==
  ASSUME TypeOK, ScanSound, pc = "scan", alloc_cache # {}
  PROVE  /\ Min(alloc_cache) \in Word
         /\ free_index <= scan + Min(alloc_cache)
         /\ free_index .. scan + Min(alloc_cache) - 1 \subseteq alloc_bits
         /\ scan + Min(alloc_cache) \notin alloc_bits
         /\ (scan % WordBits) + Min(alloc_cache) < WordBits
<1> DEFINE m == Min(alloc_cache)
           r == scan % WordBits
<1>1. /\ scan \in Nat /\ free_index \in Nat /\ WordBits \in Nat \ {0}
      /\ alloc_cache \subseteq Word /\ free_index <= scan
      /\ free_index .. scan - 1 \subseteq alloc_bits
      /\ CacheShows(scan)
  BY SpanAssumption DEF TypeOK, ScanSound
<1>2. r \in 0 .. WordBits - 1
  BY <1>1, WithinWord
<1>3. m \in alloc_cache /\ \A y \in alloc_cache : m <= y
  <2>1. alloc_cache \in SUBSET Nat
    BY <1>1 DEF Word
  <2> QED BY <2>1, LowestBit
<1> HIDE DEF m, r
<1>4. m \in Word /\ r + m < WordBits /\ scan + m \notin alloc_bits
  BY <1>1, <1>3 DEF CacheShows, r
<1>5. m \in Nat /\ m < WordBits
  BY <1>1, <1>4 DEF Word
<1>6. ASSUME NEW n \in free_index .. scan + m - 1 PROVE n \in alloc_bits
  <2>1. n \in Nat /\ n < scan + m /\ n >= free_index
    BY <1>1, <1>5
  <2>2. CASE n < scan
    BY <1>1, <2>1, <2>2
  <2>3. CASE n >= scan
    <3> DEFINE b == n - scan
    <3>1. b \in Nat /\ b < m /\ scan + b = n /\ b < WordBits /\ r + b < WordBits
      BY <1>1, <1>2, <1>4, <1>5, <2>1, <2>3
    <3> HIDE DEF b
    <3>2. b \in Word
      BY <1>1, <3>1 DEF Word
    <3>3. b \notin alloc_cache
      BY <1>3, <1>5, <3>1
    <3> QED BY <1>1, <3>1, <3>2, <3>3 DEF CacheShows, r
  <2> QED BY <1>1, <2>1, <2>2, <2>3
<1>7. free_index <= scan + m
  BY <1>1, <1>5
<1> QED BY <1>4, <1>6, <1>7 DEF m, r

(* What the cache shows after an object was found in it: the bits above it,   *)
(* or the word that begins with the next object.                              *)
LEMMA CacheMovesOn ==
  ASSUME TypeOK, ScanSound, pc = "scan", alloc_cache # {},
         NEW next \in Nat, next = scan + Min(alloc_cache) + 1
  PROVE  /\ next % WordBits = 0 =>
              Refill(alloc_bits, next \div ByteBits)
                = {b \in Word : (next % WordBits) + b < WordBits /\ next + b \notin alloc_bits}
         /\ next % WordBits # 0 =>
              /\ Min(alloc_cache) + 1 # WordBits
              /\ {b \in Word : b + Min(alloc_cache) + 1 \in alloc_cache}
                   = {b \in Word : (next % WordBits) + b < WordBits /\ next + b \notin alloc_bits}
<1>1. next % WordBits = 0 =>
        Refill(alloc_bits, next \div ByteBits)
          = {b \in Word : (next % WordBits) + b < WordBits /\ next + b \notin alloc_bits}
  BY RefillShows
<1>2. ASSUME next % WordBits # 0
      PROVE  /\ Min(alloc_cache) + 1 # WordBits
             /\ {b \in Word : b + Min(alloc_cache) + 1 \in alloc_cache}
                  = {b \in Word : (next % WordBits) + b < WordBits /\ next + b \notin alloc_bits}
  <2> DEFINE m == Min(alloc_cache)
             r == scan % WordBits
             t == next % WordBits
  <2>1. /\ scan \in Nat /\ WordBits \in Nat \ {0} /\ CacheShows(scan)
    BY SpanAssumption DEF TypeOK, ScanSound
  <2>2. m \in Word /\ r + m < WordBits
    BY FoundFirst
  <2>3. r \in 0 .. WordBits - 1
    BY <2>1, WithinWord
  <2>4. m + 1 \in Nat /\ m \in Nat /\ next = scan + (m + 1)
    <3>1. m \in Nat
      BY <2>1, <2>2 DEF Word
    <3> HIDE DEF m
    <3> QED BY <2>1, <3>1 DEF m
  <2>5. /\ r + (m + 1) < WordBits => t = r + (m + 1)
        /\ r + (m + 1) = WordBits => t = 0
    <3> DEFINE c == m + 1
    <3>1. c \in Nat /\ next = scan + c
      BY <2>4
    <3> HIDE DEF c
    <3>2. /\ r + c < WordBits => (scan + c) % WordBits = r + c
          /\ r + c = WordBits => (scan + c) % WordBits = 0
      BY <2>1, <3>1, WithinWord
    <3> QED BY <3>1, <3>2 DEF c
  <2> HIDE DEF m, r
  <2>6. t = r + m + 1 /\ r + m + 1 < WordBits
    <3>1. r + (m + 1) <= WordBits
      BY <2>1, <2>2, <2>3, <2>4
    <3>2. r + (m + 1) # WordBits
      BY <1>2, <2>5
    <3>3. r + (m + 1) < WordBits
      BY <2>1, <2>3, <2>4, <3>1, <3>2
    <3> QED BY <2>3, <2>4, <2>5, <3>3
  <2>7. m + 1 # WordBits
    BY <2>1, <2>3, <2>4, <2>6
  <2>8. ASSUME NEW b \in Word
        PROVE  b + m + 1 \in alloc_cache
                 <=> t + b < WordBits /\ next + b \notin alloc_bits
    <3> DEFINE c == b + m + 1
    <3>1. b \in Nat /\ c \in Nat /\ r + c = t + b /\ scan + c = next + b
      <4>1. b \in Nat
        BY <2>1 DEF Word
      <4> HIDE DEF t
      <4> QED BY <2>1, <2>3, <2>4, <2>6, <4>1
    <3>2. t + b < WordBits => c \in Word
      <4>1. t + b < WordBits => c < WordBits
        <5> HIDE DEF c, t
        <5> QED BY <2>1, <2>3, <3>1
      <4> HIDE DEF t, c
      <4> QED BY <2>1, <3>1, <4>1 DEF Word
    <3> HIDE DEF c, t
    <3>3. c \in alloc_cache <=> c \in Word /\ r + c < WordBits /\ scan + c \notin alloc_bits
      BY <2>1 DEF CacheShows, r
    <3>4. c \in alloc_cache <=> t + b < WordBits /\ next + b \notin alloc_bits
      BY <3>1, <3>2, <3>3
    <3> QED BY <3>4 DEF c
  <2> QED BY <2>7, <2>8 DEF m
<1> QED BY <1>1, <1>2

-------------------------------------------------------------------------------
(* The steps.                                                                 *)

(* What a search may return: the first free object from free_index on, with   *)
(* the index moved behind it, or that there is none.                          *)
Finds(r) ==
  \/ /\ r \in free_index .. number_of_elements - 1 /\ r \notin alloc_bits
     /\ free_index .. r - 1 \subseteq alloc_bits
     /\ free_index' = r + 1
  \/ /\ r = number_of_elements
     /\ free_index .. number_of_elements - 1 \subseteq alloc_bits
     /\ free_index' = number_of_elements

(* The sets of objects that are counted.                                      *)
LEMMA ObjectsCounted ==
  ASSUME NEW S \in SUBSET Objects
  PROVE  IsFiniteSet(S) /\ Cardinality(S) \in 0 .. number_of_elements
<1>1. number_of_elements \in Nat \ {0}
  BY SpanAssumption
<1>2. IsFiniteSet(Objects) /\ Cardinality(Objects) = number_of_elements
  <2>1. /\ 0 \in Int /\ number_of_elements - 1 \in Int /\ ~ (0 > number_of_elements - 1)
        /\ number_of_elements - 1 - 0 + 1 = number_of_elements
    BY <1>1
  <2> QED BY <2>1, FS_Interval DEF Objects
<1>3. IsFiniteSet(S) /\ Cardinality(S) <= number_of_elements
  BY <1>2, FS_Subset
<1>4. Cardinality(S) \in Nat
  BY <1>3, FS_CardinalityType
<1> QED BY <1>1, <1>3, <1>4

(* A search that returns leaves the span as its caller needs it.              *)
LEMMA ReturnStep ==
  ASSUME IInv, Searching, NEW r, Return(r), Finds(r),
         UNCHANGED <<alloc_bits, gc_mark_bits>>,
         alloc_cache' \subseteq Word,
         free_index' < number_of_elements => CacheShows(free_index)'
  PROVE  IInv'
<1> DEFINE N == number_of_elements
<1>1. /\ N \in Nat \ {0} /\ free_index \in 0 .. N /\ taken \subseteq Objects
      /\ alloc_bits \subseteq Positions /\ gc_mark_bits \subseteq Positions
      /\ allocations_count \in 0 .. N /\ caller \in {"allocate", "sweep"}
  BY SpanAssumption DEF IInv, TypeOK, CallerKnown
<1>2. r \in 0 .. N /\ free_index' \in 0 .. N
  BY <1>1 DEF Finds
<1>3. /\ result' = r /\ caller' = "none" /\ scan' = 0
      /\ alloc_bits' = alloc_bits /\ gc_mark_bits' = gc_mark_bits
  BY DEF Return
<1>4. CASE caller = "allocate"
  <2>1. /\ pc' = "idle" /\ taken' = taken \cup ({r} \cap Objects)
        /\ allocations_count' = allocations_count + IF r \in Objects THEN 1 ELSE 0
    BY <1>4 DEF Return
  <2>2. /\ InUse = {n \in Objects : n < free_index \/ n \in alloc_bits}
        /\ taken \cap alloc_bits = {}
        /\ allocations_count = Cardinality(InUse)
        /\ gc_mark_bits \cap Objects \subseteq InUse
    BY <1>4 DEF IInv, Counted, Allocating
  <2>3. InUse' = InUse \cup ({r} \cap Objects)
    BY <1>3, <2>1 DEF InUse, Objects
  <2>4. InUse \in SUBSET Objects /\ InUse' \in SUBSET Objects
    BY <1>1, <2>3 DEF InUse
  <2>5. CASE r \in Objects
    <3>1. /\ r \in free_index .. N - 1 /\ r \notin alloc_bits
          /\ free_index .. r - 1 \subseteq alloc_bits /\ free_index' = r + 1
      BY <1>1, <2>5 DEF Finds, Objects
    <3>2. r \notin InUse
      BY <1>1, <2>2, <3>1
    <3>3. \A n \in Objects : n < r + 1 \/ n \in alloc_bits
                               <=> n = r \/ n < free_index \/ n \in alloc_bits
      <4> SUFFICES ASSUME NEW n \in Objects
                   PROVE  n < r + 1 \/ n \in alloc_bits
                            <=> n = r \/ n < free_index \/ n \in alloc_bits
        OBVIOUS
      <4>1. n \in Nat /\ r \in Nat /\ free_index \in Nat
        BY <1>1, <3>1 DEF Objects
      <4>2. n < r + 1 => n < free_index \/ n \in free_index .. r - 1 \/ n = r
        BY <4>1
      <4>3. n < free_index \/ n = r => n < r + 1
        BY <3>1, <4>1
      <4> QED BY <3>1, <4>2, <4>3
    <3>4. InUse' = {n \in Objects : n < r + 1 \/ n \in alloc_bits}
      <4>1. InUse' = InUse \cup {r}
        BY <2>3, <2>5
      <4> QED BY <2>2, <2>5, <3>3, <4>1
    <3>5. taken' \cap alloc_bits = {}
      BY <2>1, <2>2, <3>1
    <3>6. Cardinality(InUse') = Cardinality(InUse) + 1
      <4>1. InUse' = InUse \cup {r} /\ IsFiniteSet(InUse)
        BY <2>3, <2>4, <2>5, ObjectsCounted
      <4> QED BY <3>2, <4>1, FS_AddElement
    <3>7. allocations_count' = Cardinality(InUse') /\ allocations_count' \in 0 .. N
      BY <2>1, <2>2, <2>4, <2>5, <3>6, ObjectsCounted
    <3>8. Counted'
      BY <1>3, <2>2, <2>3, <3>1, <3>4, <3>5, <3>7, Zenon DEF Counted, Objects
    <3>9. TypeOK'
      BY <1>1, <1>2, <1>3, <2>1, <3>7 DEF TypeOK, Positions, Objects, Word
    <3> QED BY <1>3, <2>1, <3>8, <3>9
            DEF IInv, CallerKnown, Searching, CacheCoherent, ScanSound, SweepCounted, Sweeping
  <2>6. CASE r \notin Objects
    <3>1. /\ r = N /\ free_index .. N - 1 \subseteq alloc_bits /\ free_index' = N
      BY <1>1, <2>6 DEF Finds, Objects
    <3>2. taken' = taken /\ InUse' = InUse /\ allocations_count' = allocations_count
      BY <1>1, <2>1, <2>3, <2>6
    <3>3. \A n \in Objects : /\ n < N
                             /\ n < free_index \/ n \in alloc_bits
      BY <1>1, <3>1 DEF Objects
    <3>4. InUse' = {n \in Objects : n < N \/ n \in alloc_bits}
      BY <2>2, <3>2, <3>3
    <3>5. Counted'
      BY <1>3, <2>2, <3>1, <3>2, <3>4, Zenon DEF Counted, Objects
    <3>6. TypeOK'
      BY <1>1, <1>2, <1>3, <2>1, <3>2 DEF TypeOK, Positions, Objects, Word
    <3> QED BY <1>3, <2>1, <3>5, <3>6
            DEF IInv, CallerKnown, Searching, CacheCoherent, ScanSound, SweepCounted, Sweeping
  <2> QED BY <2>5, <2>6
<1>5. CASE caller = "sweep"
  <2>1. pc' = "reset" /\ taken' = taken /\ allocations_count' = allocations_count
    BY <1>5 DEF Return
  <2>2. allocations_count = Cardinality(gc_mark_bits \cap Objects)
    BY <1>5 DEF IInv, SweepCounted, Sweeping
  <2>3. SweepCounted'
    BY <1>3, <2>1, <2>2 DEF SweepCounted, Objects
  <2>4. TypeOK'
    BY <1>1, <1>2, <1>3, <2>1 DEF TypeOK, Positions, Objects, Word
  <2> QED BY <1>3, <2>1, <2>3, <2>4
          DEF IInv, CallerKnown, Searching, CacheCoherent, ScanSound, Counted, Allocating
<1> QED BY <1>1, <1>4, <1>5

(* A step of the search answers, or leaves what an answer is about alone.     *)
Answers == \E r : Finds(r) /\ result' = r /\ alloc_bits' = alloc_bits

Goes == Answers \/ UNCHANGED <<alloc_bits, free_index, result>>

(* Only the shift of a whole word can panic, and only where it is checked.    *)
Safe == ShiftChecks \/ pc' # "panicked"

(* A return is an answer, and no panic.                                       *)
LEMMA ReturnAnswers ==
  ASSUME NEW r, Return(r), Finds(r), UNCHANGED alloc_bits
  PROVE  Goes /\ Safe
BY DEF Return, Goes, Answers, Safe

(* next_free_index begins.                                                    *)
LEMMA EnterStep ==
  ASSUME IInv, Enter
  PROVE  IInv' /\ Goes /\ Safe
<1> DEFINE N == number_of_elements
<1>1. /\ N \in Nat \ {0} /\ free_index \in 0 .. N /\ TypeOK /\ pc = "enter"
      /\ free_index < N => CacheShows(free_index)
  BY SpanAssumption DEF IInv, TypeOK, CacheCoherent, Enter
<1>2. /\ free_index' = free_index /\ alloc_bits' = alloc_bits
      /\ alloc_cache' = alloc_cache /\ gc_mark_bits' = gc_mark_bits
  BY DEF Enter
<1>3. CASE free_index = N
  <2>1. Return(free_index)
    BY <1>3 DEF Enter
  <2>2. Finds(free_index)
    BY <1>1, <1>2, <1>3 DEF Finds
  <2>3. ~ (free_index' < N) /\ alloc_cache' \subseteq Word /\ Searching
    BY <1>1, <1>2, <1>3 DEF TypeOK, Word, Searching
  <2> QED BY <1>2, <2>1, <2>2, <2>3, ReturnStep, ReturnAnswers
<1>4. CASE free_index # N
  <2>1. /\ pc' = "scan" /\ scan' = free_index
        /\ UNCHANGED <<allocations_count, taken, caller, result>>
    BY <1>1, <1>4 DEF Enter
  <2>2. CacheShows(free_index)
    BY <1>1, <1>4
  <2>3. ScanSound'
    <3>1. scan' = free_index /\ free_index' = free_index /\ free_index < N /\ free_index \in Nat
      BY <1>1, <1>2, <1>4, <2>1
    <3>2. CacheShows(scan)'
      BY <1>2, <2>1, <2>2 DEF CacheShows
    <3>3. free_index .. free_index - 1 = {}
      BY <3>1
    <3> QED BY <1>2, <3>1, <3>2, <3>3 DEF ScanSound
  <2>4. TypeOK'
    BY <1>1, <1>2, <2>1 DEF TypeOK, Word, Positions, Objects
  <2>5. Counted' /\ SweepCounted' /\ CallerKnown'
    <3>1. Searching /\ Searching' /\ caller' = caller /\ caller \in {"allocate", "sweep"}
      BY <1>1, <2>1 DEF IInv, CallerKnown, Searching
    <3>2. InUse' = InUse
      BY <1>2, <2>1 DEF InUse, Objects
    <3>3. Counted /\ SweepCounted
      BY DEF IInv
    <3>4. Counted'
      BY <1>1, <1>2, <2>1, <3>1, <3>2, <3>3 DEF Counted, Allocating, Searching, Objects
    <3> QED BY <1>1, <1>2, <2>1, <3>1, <3>3, <3>4
            DEF SweepCounted, Sweeping, Searching, Objects, CallerKnown
  <2>6. CacheCoherent'
    BY <2>1 DEF CacheCoherent
  <2> QED BY <1>2, <2>1, <2>3, <2>4, <2>5, <2>6 DEF IInv, Goes, Safe
<1> QED BY <1>3, <1>4

(* A word without a free object is skipped.                                   *)
LEMMA SkipStep ==
  ASSUME IInv, SkipWord
  PROVE  IInv' /\ Goes /\ Safe
<1> DEFINE N == number_of_elements
<1>1. /\ N \in Nat \ {0} /\ free_index \in 0 .. N /\ TypeOK /\ pc = "scan" /\ ScanSound
      /\ alloc_cache = {} /\ alloc_bits' = alloc_bits /\ gc_mark_bits' = gc_mark_bits
      /\ scan \in Nat /\ free_index <= scan /\ Searching
  BY SpanAssumption DEF IInv, TypeOK, SkipWord, ScanSound, Searching
<1>2. free_index .. NextWord - 1 \subseteq alloc_bits
  BY <1>1, WordUsedUp
<1>3. /\ NextWord \in Nat /\ NextWord % WordBits = 0 /\ scan < NextWord
  BY <1>1, NextWordIs
<1>4. CASE NextWord >= N
  <2>1. free_index' = N /\ Return(N) /\ alloc_cache' = alloc_cache
    BY <1>1, <1>3, <1>4 DEF SkipWord
  <2>2. Finds(N)
    <3>1. free_index .. N - 1 \subseteq free_index .. NextWord - 1
      BY <1>1, <1>3, <1>4
    <3> QED BY <1>2, <2>1, <3>1 DEF Finds
  <2>3. ~ (free_index' < N) /\ alloc_cache' \subseteq Word
    BY <1>1, <2>1 DEF Word
  <2> QED BY <1>1, <2>1, <2>2, <2>3, ReturnStep, ReturnAnswers
<1>5. CASE NextWord < N
  <2>1. /\ scan' = NextWord /\ alloc_cache' = Refill(alloc_bits, NextWord \div ByteBits)
        /\ UNCHANGED <<free_index, allocations_count, taken, pc, caller, result>>
    BY <1>1, <1>3, <1>5 DEF SkipWord
  <2>2. CacheShows(scan)'
    <3> DEFINE n == NextWord
    <3>1. n \in Nat /\ n % WordBits = 0 /\ scan' = n
          /\ alloc_cache' = Refill(alloc_bits, n \div ByteBits)
      BY <1>3, <2>1
    <3> HIDE DEF n
    <3>2. alloc_cache' = {b \in Word : (n % WordBits) + b < WordBits /\ n + b \notin alloc_bits}
      BY <3>1, RefillShows
    <3> QED BY <1>1, <3>1, <3>2, Zenon DEF CacheShows, Word
  <2>3. ScanSound'
    <3>1. free_index <= NextWord /\ NextWord < N
      BY <1>1, <1>3, <1>5
    <3> QED BY <1>1, <1>2, <2>1, <2>2, <3>1, Zenon DEF ScanSound
  <2>4. TypeOK'
    <3>1. alloc_cache' \subseteq Word
      BY <2>1 DEF Refill
    <3> QED BY <1>1, <1>3, <2>1, <3>1 DEF TypeOK, Word, Positions, Objects
  <2>5. Counted' /\ SweepCounted' /\ CallerKnown'
    <3>1. Searching' /\ caller' = caller /\ pc' = pc
      BY <1>1, <2>1 DEF Searching
    <3>2. InUse' = InUse
      BY <1>1, <2>1 DEF InUse, Objects
    <3>3. Counted /\ SweepCounted /\ CallerKnown
      BY DEF IInv
    <3>4. Counted'
      BY <1>1, <2>1, <3>1, <3>2, <3>3 DEF Counted, Allocating, Searching, Objects
    <3> QED BY <1>1, <2>1, <3>1, <3>3, <3>4
            DEF SweepCounted, Sweeping, Searching, Objects, CallerKnown
  <2>6. CacheCoherent'
    BY <1>1, <2>1 DEF CacheCoherent
  <2>7. Goes /\ Safe
    BY <1>1, <2>1 DEF Goes, Safe
  <2> QED BY <2>3, <2>4, <2>5, <2>6, <2>7 DEF IInv
<1> QED BY <1>1, <1>3, <1>4, <1>5

(* The lowest bit of the cache is beyond the objects.                         *)
LEMMA BeyondStep ==
  ASSUME IInv, FoundBeyond
  PROVE  IInv' /\ Goes /\ Safe
<1> DEFINE N == number_of_elements
           m == Min(alloc_cache)
<1>1. /\ N \in Nat \ {0} /\ free_index \in 0 .. N /\ TypeOK /\ pc = "scan" /\ ScanSound
      /\ alloc_cache # {} /\ alloc_bits' = alloc_bits /\ gc_mark_bits' = gc_mark_bits
      /\ scan \in Nat /\ Searching /\ alloc_cache' = alloc_cache
      /\ free_index' = N /\ Return(N) /\ scan + m >= N
  BY SpanAssumption DEF IInv, TypeOK, FoundBeyond, Searching
<1>2. m \in Word /\ free_index .. scan + m - 1 \subseteq alloc_bits
  BY <1>1, FoundFirst
<1> HIDE DEF m
<1>3. m \in Nat
  BY <1>2, SpanAssumption DEF Word
<1>4. free_index .. N - 1 \subseteq free_index .. scan + m - 1
  BY <1>1, <1>3
<1>5. Finds(N)
  BY <1>1, <1>2, <1>4 DEF Finds
<1>6. ~ (free_index' < N) /\ alloc_cache' \subseteq Word
  BY <1>1 DEF TypeOK, Word
<1> QED BY <1>1, <1>5, <1>6, ReturnStep, ReturnAnswers

(* A free object is found and shifted out.                                    *)
LEMMA ObjectStep ==
  ASSUME IInv, FoundObject
  PROVE  IInv' /\ Goes /\ Safe
<1> DEFINE N == number_of_elements
           m == Min(alloc_cache)
           object == scan + m
           next == object + 1
           shifted == {b \in Word : b + m + 1 \in alloc_cache}
<1>1. /\ N \in Nat \ {0} /\ free_index \in 0 .. N /\ TypeOK /\ pc = "scan" /\ ScanSound
      /\ alloc_cache # {} /\ alloc_bits' = alloc_bits /\ gc_mark_bits' = gc_mark_bits
      /\ scan \in Nat /\ Searching /\ object < N
  BY SpanAssumption DEF IInv, TypeOK, FoundObject, Searching
<1>2. /\ m \in Word /\ free_index <= object /\ object \notin alloc_bits
      /\ free_index .. object - 1 \subseteq alloc_bits
  <2>1. /\ m \in Word /\ free_index <= scan + m /\ scan + m \notin alloc_bits
        /\ free_index .. scan + m - 1 \subseteq alloc_bits
    BY <1>1, FoundFirst, Zenon
  <2> HIDE DEF m
  <2>2. m \in Nat
    BY <2>1, SpanAssumption DEF Word
  <2>3. (scan + m) - 1 = scan + m - 1
    BY <1>1, <2>2
  <2> QED BY <2>1, <2>3
<1>3. m \in Nat
  BY <1>2, SpanAssumption DEF Word
<1>4. object \in Nat /\ next \in Nat /\ object \in free_index .. N - 1
  <2> HIDE DEF m
  <2> QED BY <1>1, <1>2, <1>3
<1>5. CASE /\ ShiftChecks
           /\ pc' = "panicked"
           /\ UNCHANGED <<free_index, alloc_cache, allocations_count, taken, caller, scan, result>>
  <2>1. TypeOK'
    BY <1>1, <1>5 DEF TypeOK, Word, Positions, Objects
  <2> QED BY <1>1, <1>5, <2>1
          DEF IInv, CallerKnown, CacheCoherent, ScanSound, Counted, SweepCounted,
              Searching, Allocating, Sweeping, Goes, Safe
<1>6. CASE /\ free_index' = next
           /\ alloc_cache' = IF next % WordBits = 0 /\ next # N
                             THEN Refill(alloc_bits, next \div ByteBits)
                             ELSE IF m + 1 = WordBits THEN alloc_cache ELSE shifted
           /\ Return(object)
  <2>1. Finds(object)
    BY <1>2, <1>4, <1>6 DEF Finds
  <2>2. alloc_cache' \subseteq Word
    BY <1>1, <1>6 DEF TypeOK, Refill, Word
  <2>3. ASSUME free_index' < N PROVE CacheShows(free_index)'
    <3> DEFINE rest == {b \in Word : (next % WordBits) + b < WordBits /\ next + b \notin alloc_bits}
    <3>1. /\ next % WordBits = 0 => Refill(alloc_bits, next \div ByteBits) = rest
          /\ next % WordBits # 0 => m + 1 # WordBits /\ shifted = rest
      BY <1>1, <1>4, CacheMovesOn
    <3>2. next # N
      BY <1>1, <1>4, <1>6, <2>3
    <3> HIDE DEF rest, shifted, next, m
    <3>3. alloc_cache' = rest
      BY <1>6, <3>1, <3>2
    <3> QED BY <1>1, <1>6, <3>3, Zenon DEF CacheShows, rest, Word
  <2> HIDE DEF object
  <2> QED BY <1>1, <1>6, <2>1, <2>2, <2>3, ReturnStep, ReturnAnswers
<1>7. \/ /\ ShiftChecks
         /\ pc' = "panicked"
         /\ UNCHANGED <<free_index, alloc_cache, allocations_count, taken, caller, scan, result>>
      \/ /\ free_index' = next
         /\ alloc_cache' = IF next % WordBits = 0 /\ next # N
                           THEN Refill(alloc_bits, next \div ByteBits)
                           ELSE IF m + 1 = WordBits THEN alloc_cache ELSE shifted
         /\ Return(object)
  BY Zenon DEF FoundObject
<1> QED BY <1>5, <1>6, <1>7, Zenon

(* An allocation begins: only who searches changes.                           *)
LEMMA AllocateStep ==
  ASSUME IInv, Allocate
  PROVE  IInv' /\ Goes /\ Safe
<1>1. /\ pc = "idle" /\ pc' = "enter" /\ caller' = "allocate"
      /\ UNCHANGED <<free_index, alloc_cache, alloc_bits, gc_mark_bits, allocations_count,
                     taken, scan, result>>
  BY DEF Allocate, spanVars
<1>2. TypeOK'
  BY <1>1 DEF IInv, TypeOK, Word, Positions, Objects
<1>3. CacheCoherent'
  <2>1. CacheCoherent
    BY DEF IInv
  <2> QED BY <1>1, <2>1 DEF CacheCoherent, CacheShows, Word
<1>4. Counted'
  <2>1. Counted /\ InUse' = InUse
    BY <1>1 DEF IInv, InUse, Objects
  <2> QED BY <1>1, <2>1 DEF Counted, Allocating, Objects
<1> QED BY <1>1, <1>2, <1>3, <1>4
        DEF IInv, CallerKnown, Searching, ScanSound, SweepCounted, Sweeping, Goes, Safe

(* An object in use is marked.                                                *)
LEMMA MarkStep ==
  ASSUME IInv, NEW n \in Objects, Mark(n)
  PROVE  IInv' /\ Goes /\ Safe
<1>1. /\ pc = "idle" /\ n \in InUse /\ gc_mark_bits' = gc_mark_bits \cup {n}
      /\ UNCHANGED <<free_index, alloc_cache, alloc_bits, allocations_count, taken,
                     pc, caller, scan, result>>
  BY DEF Mark
<1>2. n \in Positions
  <2> DEFINE N == number_of_elements
             W == WordBits
             q == (N + W - 1) \div W
             r == (N + W - 1) % W
  <2>1. N \in Nat \ {0} /\ W \in Nat \ {0}
    BY SpanAssumption
  <2>2. q \in Nat /\ r \in 0 .. W - 1 /\ N + W - 1 = W * q + r
    <3> DEFINE k == N + W - 1
    <3>1. k \in Nat
      BY <2>1
    <3> HIDE DEF k
    <3>2. k \div W \in Nat /\ k % W \in 0 .. W - 1 /\ k = W * (k \div W) + (k % W)
      BY <2>1, <3>1, Division
    <3> QED BY <3>2 DEF k
  <2>3. Positions = 0 .. q * W - 1
    BY DEF Positions
  <2> HIDE DEF q, r
  <2>4. q * W = W * q /\ W * q \in Nat
    BY <2>1, <2>2, SMT
  <2> DEFINE u == W * q
  <2>5. u \in Nat /\ N + W - 1 = u + r /\ Positions = 0 .. u - 1
    BY <2>2, <2>3, <2>4
  <2> HIDE DEF u
  <2>6. N <= u
    BY <2>1, <2>2, <2>5
  <2> QED BY <2>1, <2>5, <2>6 DEF Objects
<1>3. TypeOK'
  BY <1>1, <1>2 DEF IInv, TypeOK, Word, Positions, Objects
<1>4. CacheCoherent'
  <2>1. CacheCoherent
    BY DEF IInv
  <2> QED BY <1>1, <2>1 DEF CacheCoherent, CacheShows, Word
<1>5. Counted'
  <2>1. Counted /\ InUse' = InUse
    BY <1>1 DEF IInv, InUse, Objects
  <2> QED BY <1>1, <2>1 DEF Counted, Allocating, Objects
<1> QED BY <1>1, <1>3, <1>4, <1>5
        DEF IInv, CallerKnown, Searching, ScanSound, SweepCounted, Sweeping, Goes, Safe

(* sweep counts the marks; they are no more than what was counted before, so  *)
(* that "sweep increased allocation count" is out of reach.                   *)
LEMMA SweepCountStep ==
  ASSUME IInv, SweepCount
  PROVE  IInv' /\ Goes /\ Safe
<1>1. /\ pc = "idle"
      /\ UNCHANGED <<free_index, alloc_cache, alloc_bits, gc_mark_bits, taken, scan, result>>
  BY DEF SweepCount
<1>2. /\ gc_mark_bits \in SUBSET Positions /\ taken \subseteq Objects
      /\ allocations_count = Cardinality(InUse) /\ gc_mark_bits \cap Objects \subseteq InUse
  BY <1>1 DEF IInv, TypeOK, Counted, Allocating
<1>3. count_allocations = Cardinality(gc_mark_bits \cap Objects)
  BY <1>2, CountIsExact DEF CountExact
<1>4. /\ Cardinality(gc_mark_bits \cap Objects) \in 0 .. number_of_elements
      /\ Cardinality(InUse) \in 0 .. number_of_elements
      /\ Cardinality(gc_mark_bits \cap Objects) <= Cardinality(InUse)
  <2>1. InUse \in SUBSET Objects
    BY <1>2 DEF InUse
  <2> QED BY <1>2, <2>1, ObjectsCounted, FS_Subset
<1>5. Counted16 = count_allocations /\ ~ (Counted16 > allocations_count)
  <2>1. number_of_elements \in Nat /\ CountMod \in Nat /\ number_of_elements < CountMod
    BY SpanAssumption, CountAssumption
  <2>2. Counted16 = count_allocations
    BY <1>3, <1>4, <2>1 DEF Counted16
  <2> QED BY <1>2, <1>3, <1>4, <2>1, <2>2
<1>6. pc' = "enter" /\ caller' = "sweep" /\ allocations_count' = count_allocations
  BY <1>5 DEF SweepCount
<1>7. TypeOK'
  BY <1>1, <1>3, <1>4, <1>6 DEF IInv, TypeOK, Word, Positions, Objects
<1>8. CacheCoherent'
  <2>1. CacheCoherent
    BY DEF IInv
  <2> QED BY <1>1, <1>6, <2>1 DEF CacheCoherent, CacheShows, Word
<1>9. SweepCounted'
  BY <1>1, <1>3, <1>6 DEF SweepCounted, Objects
<1> QED BY <1>1, <1>6, <1>7, <1>8, <1>9
        DEF IInv, CallerKnown, Searching, ScanSound, Counted, Allocating, Goes, Safe

(* sweep turns the marks into allocation bits and starts the search over.     *)
LEMMA SweepResetStep ==
  ASSUME IInv, SweepReset
  PROVE  IInv' /\ Free!Renew /\ Safe
<1>1. /\ pc = "reset" /\ pc' = "idle" /\ free_index' = 0 /\ alloc_bits' = gc_mark_bits
      /\ gc_mark_bits' \in FreshBits /\ alloc_cache' = Refill(gc_mark_bits, 0) /\ taken' = {}
      /\ UNCHANGED <<allocations_count, caller, scan, result>>
  BY DEF SweepReset
<1>2. TypeOK /\ caller = "none" /\ allocations_count = Cardinality(gc_mark_bits \cap Objects)
  BY <1>1 DEF IInv, CallerKnown, SweepCounted, Sweeping
<1>3. gc_mark_bits' \subseteq Positions /\ gc_mark_bits' \cap Objects = {}
  BY <1>1 DEF FreshBits
<1>4. number_of_elements \in Nat \ {0}
  BY SpanAssumption
<1>5. TypeOK'
  <2>1. alloc_cache' \subseteq Word
    BY <1>1 DEF Refill
  <2> QED BY <1>1, <1>2, <1>3, <1>4, <2>1 DEF TypeOK, Word, Positions, Objects
<1>6. CacheCoherent'
  <2>1. Refill(gc_mark_bits, 0)
          = {b \in Word : (0 % WordBits) + b < WordBits /\ 0 + b \notin gc_mark_bits}
    BY RefillFirst
  <2>2. CacheShows(free_index)'
    BY <1>1, <2>1, Zenon DEF CacheShows, Word
  <2> QED BY <2>2 DEF CacheCoherent
<1>7. Counted'
  <2>1. InUse' = gc_mark_bits \cap Objects
    BY <1>1 DEF InUse, Objects
  <2>2. gc_mark_bits \cap Objects = {n \in Objects : n < 0 \/ n \in gc_mark_bits}
    BY <1>4 DEF Objects
  <2>3. allocations_count' = Cardinality(InUse')
    BY <1>1, <1>2, <2>1
  <2>4. InUse' = {n \in Objects : n < free_index' \/ n \in alloc_bits'}
    BY <1>1, <2>1, <2>2, Zenon
  <2> QED BY <1>1, <1>3, <2>3, <2>4 DEF Counted, Objects
<1>8. Free!Renew
  BY <1>1 DEF Free!Renew, Objects
<1> QED BY <1>1, <1>2, <1>5, <1>6, <1>7, <1>8
        DEF IInv, CallerKnown, Searching, ScanSound, SweepCounted, Sweeping, Safe

(* A new span, with its cache filled.                                         *)
LEMMA InitInvariant == Init => IInv
<1> SUFFICES ASSUME Init PROVE IInv
  OBVIOUS
<1>1. /\ free_index = 0 /\ alloc_bits \in SUBSET Positions /\ alloc_cache = Refill(alloc_bits, 0)
      /\ gc_mark_bits \in FreshBits /\ allocations_count = Cardinality(alloc_bits \cap Objects)
      /\ taken = {} /\ pc = "idle" /\ caller = "none" /\ scan = 0 /\ result = 0
  BY DEF Init
<1>2. number_of_elements \in Nat \ {0}
  BY SpanAssumption
<1>3. gc_mark_bits \subseteq Positions /\ gc_mark_bits \cap Objects = {}
  BY <1>1 DEF FreshBits
<1>4. TypeOK
  <2>1. alloc_cache \subseteq Word
    BY <1>1 DEF Refill
  <2>2. allocations_count \in 0 .. number_of_elements
    BY <1>1, ObjectsCounted
  <2> QED BY <1>1, <1>2, <1>3, <2>1, <2>2 DEF TypeOK
<1>5. CacheCoherent
  <2>1. Refill(alloc_bits, 0)
          = {b \in Word : (0 % WordBits) + b < WordBits /\ 0 + b \notin alloc_bits}
    BY RefillFirst
  <2> QED BY <1>1, <2>1, Zenon DEF CacheCoherent, CacheShows
<1>6. Counted
  <2>1. InUse = alloc_bits \cap Objects
    BY <1>1 DEF InUse
  <2>2. alloc_bits \cap Objects = {n \in Objects : n < 0 \/ n \in alloc_bits}
    BY <1>2 DEF Objects
  <2>3. InUse = {n \in Objects : n < free_index \/ n \in alloc_bits}
    BY <1>1, <2>1, <2>2, Zenon
  <2> QED BY <1>1, <1>3, <2>1, <2>3 DEF Counted
<1> QED BY <1>1, <1>4, <1>5, <1>6
        DEF IInv, CallerKnown, Searching, ScanSound, SweepCounted, Sweeping

(* An answer is the one the abstract search gives.                            *)
LEMMA AnswerIsFree ==
  ASSUME IInv, Goes
  PROVE  [Free!NextFree \/ Free!Renew]_(Free!freeVars)
<1> DEFINE N == number_of_elements
<1>1. CASE Answers
  <2>1. PICK r : Finds(r) /\ result' = r /\ alloc_bits' = alloc_bits
    BY <1>1 DEF Answers
  <2>2. N \in Nat \ {0} /\ free_index \in 0 .. N
    BY SpanAssumption DEF IInv, TypeOK
  <2>3. (alloc_bits \cap Objects)' = alloc_bits \cap Objects
    BY <2>1 DEF Objects
  <2>4. CASE /\ r \in free_index .. N - 1 /\ r \notin alloc_bits
             /\ free_index .. r - 1 \subseteq alloc_bits
             /\ free_index' = r + 1
    <3>1. free_index .. r - 1 \subseteq Objects
      BY <2>2, <2>4 DEF Objects
    <3> QED BY <2>1, <2>3, <2>4, <3>1 DEF Free!NextFree
  <2>5. CASE /\ r = N
             /\ free_index .. N - 1 \subseteq alloc_bits
             /\ free_index' = N
    <3>1. free_index .. N - 1 \subseteq Objects
      BY <2>2 DEF Objects
    <3> QED BY <2>1, <2>3, <2>5, <3>1 DEF Free!NextFree
  <2> QED BY <2>1, <2>4, <2>5 DEF Finds
<1>2. CASE UNCHANGED <<alloc_bits, free_index, result>>
  BY <1>2 DEF Free!freeVars, Objects
<1> QED BY <1>1, <1>2 DEF Goes

(* Each step keeps the invariant, is a step of the abstract search or none of *)
(* its business, and panics only in a checked shift.                          *)
LEMMA NextStep ==
  ASSUME IInv, [Next]_vars
  PROVE  /\ IInv' /\ [Free!NextFree \/ Free!Renew]_(Free!freeVars)
         /\ pc # "panicked" => Safe
<1>1. CASE \E n \in Objects : Mark(n)
  BY <1>1, MarkStep, AnswerIsFree
<1>2. CASE Allocate
  BY <1>2, AllocateStep, AnswerIsFree
<1>3. CASE Enter
  BY <1>3, EnterStep, AnswerIsFree
<1>4. CASE SkipWord
  BY <1>4, SkipStep, AnswerIsFree
<1>5. CASE FoundBeyond
  BY <1>5, BeyondStep, AnswerIsFree
<1>6. CASE FoundObject
  BY <1>6, ObjectStep, AnswerIsFree
<1>7. CASE SweepCount
  BY <1>7, SweepCountStep, AnswerIsFree
<1>8. CASE SweepReset
  BY <1>8, SweepResetStep
<1>9. CASE UNCHANGED vars
  <2>1. UNCHANGED <<free_index, alloc_cache, alloc_bits, gc_mark_bits, allocations_count,
                    taken, pc, caller, scan, result>>
    BY <1>9 DEF vars, spanVars
  <2>2. TypeOK'
    BY <2>1 DEF IInv, TypeOK, Word, Positions, Objects
  <2>3. CacheCoherent' /\ ScanSound' /\ CallerKnown'
    <3>1. CacheCoherent /\ ScanSound /\ CallerKnown
      BY DEF IInv
    <3> QED BY <2>1, <3>1 DEF CacheCoherent, ScanSound, CacheShows, CallerKnown, Searching, Word
  <2>4. Counted' /\ SweepCounted'
    <3>1. Counted /\ SweepCounted /\ InUse' = InUse
      BY <2>1 DEF IInv, InUse, Objects
    <3> QED BY <2>1, <3>1
            DEF Counted, SweepCounted, Allocating, Sweeping, Searching, Objects
  <2>5. [Free!NextFree \/ Free!Renew]_(Free!freeVars)
    BY <2>1, AnswerIsFree DEF Goes
  <2> QED BY <2>1, <2>2, <2>3, <2>4, <2>5 DEF IInv, Safe
<1> QED BY <1>1, <1>2, <1>3, <1>4, <1>5, <1>6, <1>7, <1>8, <1>9 DEF Next

-------------------------------------------------------------------------------
(* What the steps add up to.                                                  *)

(* The invariant of the span holds through every sequence of marks,           *)
(* allocations and sweeps, and at each step of a search.                      *)
THEOREM InvariantHolds == Spec => []IInv
<1>1. IInv /\ [Next]_vars => IInv'
  BY NextStep
<1> QED BY <1>1, InitInvariant, PTL DEF Spec

(* The variables stay within their types.                                     *)
THEOREM TypeCorrect == Spec => []TypeOK
<1>1. IInv => TypeOK
  BY DEF IInv
<1> QED BY <1>1, InvariantHolds, PTL

(* alloc_cache shows the complemented bits from free_index on whenever        *)
(* next_free_index begins, after any shifts and refills, whether the word is  *)
(* shifted out as a whole or not.                                             *)
THEOREM CacheStaysCoherent == Spec => []CacheCoherent
<1>1. IInv => CacheCoherent
  BY DEF IInv
<1> QED BY <1>1, InvariantHolds, PTL

(* Between the calls, allocations_count is the number of objects in use, and  *)
(* these are the ones before free_index or with their bit set.                *)
THEOREM UseIsCounted == Spec => []InUseCounted
<1>1. IInv => InUseCounted
  BY DEF IInv, Counted, Allocating, InUseCounted
<1> QED BY <1>1, InvariantHolds, PTL

(* count_allocations is exact in every state.                                 *)
THEOREM CountStaysExact == Spec => []CountExact
<1>1. IInv => CountExact
  BY CountIsExact DEF IInv, TypeOK
<1> QED BY <1>1, InvariantHolds, PTL

(* In a release build neither of the panics of next_free_index is reached,    *)
(* nor is the one of sweep, "sweep increased allocation count".               *)
THEOREM ReleaseNeverPanics ==
  ~ ShiftChecks => (Spec => [](pc # "panicked"))
<1> SUFFICES ASSUME ~ ShiftChecks PROVE Spec => [](pc # "panicked")
  OBVIOUS
<1>1. Init => pc # "panicked"
  BY DEF Init
<1>2. IInv /\ pc # "panicked" /\ [Next]_vars => (pc # "panicked")'
  BY NextStep DEF Safe
<1> QED BY <1>1, <1>2, InvariantHolds, PTL DEF Spec

(* next_free_index, with its words and its cache, implements the search for   *)
(* the first free object; sweep starts it over.                               *)
THEOREM FirstFreeIsFound == Spec => FindsFirstFree
<1>1. Init => Free!FreeInit
  BY SpanAssumption DEF Init, Free!FreeInit, Objects
<1>2. IInv /\ [Next]_vars => [Free!NextFree \/ Free!Renew]_(Free!freeVars)
  BY NextStep
<1> QED BY <1>1, <1>2, InvariantHolds, PTL DEF Spec, FindsFirstFree, Free!FreeSpec
===============================================================================
