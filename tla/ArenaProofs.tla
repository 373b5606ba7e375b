------------------------------- MODULE ArenaProofs -------------------------------
(******************************************************************************)
(* Theorems about Arenas, for every size of pages, arenas and address space:  *)
(* the map of pages to spans keeps pages apart, the second level index does   *)
(* not, and physical_page_bounds reaches past the end of a span.              *)
(******************************************************************************)
EXTENDS Arenas, TLAPS

(* A quotient and a remainder that fit are the quotient and the remainder.    *)
LEMMA Division ==
  ASSUME NEW a \in Nat, NEW b \in Nat \ {0}
  PROVE  /\ a \div b \in Nat /\ a % b \in 0 .. b - 1
         /\ a = b * (a \div b) + (a % b)
BY SMT

LEMMA DivisionUnique ==
  ASSUME NEW b \in Nat \ {0}, NEW q1 \in Int, NEW q2 \in Int,
         NEW r1 \in 0 .. b - 1, NEW r2 \in 0 .. b - 1,
         b * q1 + r1 = b * q2 + r2
  PROVE  q1 = q2 /\ r1 = r2
<1>1. b * (q1 - q2) = r2 - r1
  BY SMT
<1>2. CASE q1 > q2
  <2>1. b * (q1 - q2) >= b
    BY <1>2, SMT
  <2> QED BY <1>1, <2>1, SMT
<1>3. CASE q1 < q2
  <2>1. b * (q1 - q2) <= -b
    BY <1>3, SMT
  <2> QED BY <1>1, <2>1, SMT
<1>4. CASE q1 = q2
  BY <1>4, SMT
<1> QED BY <1>2, <1>3, <1>4, SMT

(* Pages of an arena are whole: the arena of an address is that of its page.  *)
LEMMA DivisionTwice ==
  ASSUME NEW p \in Nat, NEW size \in Nat \ {0}, NEW n \in Nat \ {0}
  PROVE  p \div (n * size) = (p \div size) \div n
<1> DEFINE u == p \div size
           r == p % size
           v == u \div n
           w == u % n
           A == n * size
<1>1. u \in Nat /\ r \in 0 .. size - 1 /\ p = size * u + r
  BY Division
<1>2. v \in Nat /\ w \in 0 .. n - 1 /\ u = n * v + w
  BY <1>1, Division
<1>3. A \in Nat \ {0}
  BY SMT
<1>4. p \div A \in Nat /\ p % A \in 0 .. A - 1 /\ p = A * (p \div A) + (p % A)
  BY <1>3, Division
<1> HIDE DEF u, r, v, w
<1>5. p = A * v + (size * w + r)
  <2>1. size * (n * v + w) = A * v + size * w
    BY <1>2, SMT
  <2> QED BY <1>1, <1>2, <2>1, SMT
<1>6. size * w + r \in 0 .. A - 1
  <2>1. size * w \in Nat /\ size * w <= size * (n - 1)
    BY <1>2, SMT
  <2>2. size * (n - 1) = A - size
    BY SMT
  <2> QED BY <1>1, <2>1, <2>2, SMT
<1>7. p \div A = v
  <2> DEFINE q == p \div A
             t == p % A
             x == size * w + r
  <2>1. q \in Int /\ v \in Int /\ t \in 0 .. A - 1 /\ x \in 0 .. A - 1
    BY <1>2, <1>4, <1>6, SMT
  <2>2. A * q + t = A * v + x
    BY <1>4, <1>5
  <2> HIDE DEF q, t, x, A
  <2>3. q = v
    BY <1>3, <2>1, <2>2, DivisionUnique
  <2> QED BY <2>3 DEF q, A
<1> QED BY <1>7 DEF u, v

(* The index of an arena counts arenas from the offset.                       *)
LEMMA ArenaIndexOf ==
  ASSUME NEW p \in HeapAddresses
  PROVE  arena_index(p) = (p \div PAGE_SIZE) \div PAGES_PER_ARENA
                            + ARENA_BASE_OFFSET \div HEAP_ARENA_BYTES
<1> DEFINE A == HEAP_ARENA_BYTES
           o == ARENA_BASE_OFFSET \div A
           q == p \div A
           r == p % A
           sum == p + ARENA_BASE_OFFSET
           i == sum \div A
           j == sum % A
<1>1. A \in Nat \ {0} /\ ARENA_BASE_OFFSET \in Nat /\ ARENA_BASE_OFFSET % A = 0
  BY GeometryAssumption
<1>2. p \in Nat /\ sum \in 0 .. AddressMod - 1
  BY <1>1, GeometryAssumption, SMT DEF HeapAddresses
<1>3. sum % AddressMod = sum
  BY <1>2, GeometryAssumption, SMT
<1>4. o \in Nat /\ ARENA_BASE_OFFSET = A * o + (ARENA_BASE_OFFSET % A)
  BY <1>1, Division
<1>5. q \in Nat /\ r \in 0 .. A - 1 /\ p = A * q + r
  BY <1>1, <1>2, Division
<1>6. i \in Nat /\ j \in 0 .. A - 1 /\ sum = A * i + j
  <2>1. sum \in Nat
    BY <1>2
  <2> HIDE DEF sum
  <2> QED BY <1>1, <2>1, Division
<1>7. p \div A = (p \div PAGE_SIZE) \div PAGES_PER_ARENA
  <2>1. p \in Nat /\ PAGE_SIZE \in Nat \ {0} /\ PAGES_PER_ARENA \in Nat \ {0}
    BY <1>2, GeometryAssumption
  <2>2. A = PAGES_PER_ARENA * PAGE_SIZE
    BY GeometryAssumption
  <2>3. p \div (PAGES_PER_ARENA * PAGE_SIZE) = (p \div PAGE_SIZE) \div PAGES_PER_ARENA
    BY <2>1, DivisionTwice
  <2> HIDE DEF A
  <2> QED BY <2>2, <2>3, Zenon
<1>8. arena_index(p) = i
  BY <1>3 DEF arena_index
<1> HIDE DEF o, q, r, i, j, A
<1>9. sum = A * (q + o) + r
  <2>1. A * (q + o) = A * q + A * o
    BY <1>1, <1>4, <1>5, SMT
  <2>2. ARENA_BASE_OFFSET = A * o
    <3> HIDE DEF sum
    <3> QED BY <1>1, <1>4, SMT
  <2>3. A * q \in Int /\ A * o \in Int /\ A * (q + o) \in Int
    BY <1>1, <1>4, <1>5, SMT
  <2> QED BY <1>5, <2>1, <2>2, <2>3, SMT
<1>10. i = q + o
  <2>1. A * i + j = A * (q + o) + r
    BY <1>6, <1>9
  <2>2. q + o \in Int /\ i \in Int
    BY <1>4, <1>5, <1>6, SMT
  <2> HIDE DEF sum
  <2> QED BY <1>1, <1>5, <1>6, <2>1, <2>2, DivisionUnique
<1> QED BY <1>7, <1>8, <1>10 DEF q, o, A

(* With a map of one level, two addresses have the same place in it exactly   *)
(* if they lie in the same page: set_span never overwrites the entry of       *)
(* another page, and a span is found from every address of a page set for it. *)
THEOREM PlaceIsPage ==
  ASSUME ARENA_LEVEL_1_BITS = 0, NEW p \in HeapAddresses, NEW q \in HeapAddresses
  PROVE  Entry(p) = Entry(q) /\ SpanIndex(p) = SpanIndex(q)
           <=> p \div PAGE_SIZE = q \div PAGE_SIZE
<1> DEFINE u == p \div PAGE_SIZE
           v == q \div PAGE_SIZE
           n == PAGES_PER_ARENA
           o == ARENA_BASE_OFFSET \div HEAP_ARENA_BYTES
<1>1. p \in Nat /\ q \in Nat /\ PAGE_SIZE \in Nat \ {0} /\ n \in Nat \ {0}
  BY GeometryAssumption DEF HeapAddresses
<1>2. u \in Nat /\ v \in Nat
  BY <1>1, Division
<1>3. o \in Nat
  BY GeometryAssumption, Division
<1>4. Entry(p) = <<0, u \div n + o>> /\ Entry(q) = <<0, v \div n + o>>
  BY ArenaIndexOf, Zenon DEF Entry, arena_level_1, arena_level_2
<1>5. SpanIndex(p) = u % n /\ SpanIndex(q) = v % n
  BY DEF SpanIndex
<1> HIDE DEF u, v, n, o
<1>6. /\ u \div n \in Nat /\ u % n \in 0 .. n - 1 /\ u = n * (u \div n) + (u % n)
      /\ v \div n \in Nat /\ v % n \in 0 .. n - 1 /\ v = n * (v \div n) + (v % n)
  BY <1>1, <1>2, Division
<1>7. Entry(p) = Entry(q) <=> u \div n = v \div n
  <2>1. u \div n + o = v \div n + o <=> u \div n = v \div n
    BY <1>3, <1>6, SMT
  <2>2. \A x, y : <<0, x>> = <<0, y>> <=> x = y
    BY SMT
  <2> QED BY <1>4, <2>1, <2>2, Zenon
<1>8. u = v <=> u \div n = v \div n /\ u % n = v % n
  BY <1>6, Zenon
<1> QED BY <1>5, <1>7, <1>8 DEF u, v

(* physical_page_bounds and released of a scavenged span, on a system whose   *)
(* physical pages are no larger than the heap's: shifting the sum scales the  *)
(* start address too, and released counts more bytes than the span has.       *)
THEOREM ReleasedTooMuch ==
  ASSUME PhysicalPageSize <= PAGE_SIZE, PAGE_SIZE > 1,
         NEW start \in Nat \ {0}, NEW n \in Nat \ {0},
         (start + n) * PAGE_SIZE < AddressMod
  PROVE  released(start, n, TRUE) > n * PAGE_SIZE
<1> DEFINE P == PAGE_SIZE
           end == (start + n) * P
<1>1. P \in Nat \ {0} /\ P > 1 /\ AddressMod \in Nat \ {0} /\ PhysicalPageSize \in Nat
  BY GeometryAssumption
<1>2. ~(PhysicalPageSize > P)
  BY <1>1, SMT
<1>3. end \in 0 .. AddressMod - 1
  <2>1. end \in Nat
    BY <1>1, SMT
  <2> QED BY <1>1, <2>1, SMT
<1>4. physical_page_bounds(start, n) = <<start, end % AddressMod>>
  BY <1>2, Zenon DEF physical_page_bounds
<1>5. end % AddressMod = end
  <2> HIDE DEF end
  <2> QED BY <1>1, <1>3, SMT
<1>6. released(start, n, TRUE) = (end - start) % AddressMod
  BY <1>4, <1>5, SMT DEF released
<1>7. end - start > n * P /\ n * P \in Nat
  <2>1. end = start * P + n * P
    BY <1>1, SMT
  <2>2. start * P > start /\ start * P \in Nat /\ n * P \in Nat
    BY <1>1, SMT
  <2> QED BY <2>1, <2>2, SMT
<1>8. (end - start) % AddressMod = end - start
  <2> HIDE DEF end, P
  <2>1. end - start \in 0 .. AddressMod - 1
    BY <1>1, <1>3, <1>7, SMT
  <2> QED BY <1>1, <2>1, SMT
<1> QED BY <1>6, <1>7, <1>8

(* With a first level the second level index has two values only, whatever    *)
(* the arena: `1 << ARENA_LEVEL_2_BITS - 1' is not a mask.                    *)
THEOREM SecondLevelOfTwo ==
  ASSUME ARENA_LEVEL_1_BITS # 0, NEW i \in Nat, Level2Bit \in Nat \ {0}
  PROVE  arena_level_2(i) \in {0, Level2Bit}
<1> DEFINE k == i \div Level2Bit
<1>1. k \in Nat
  BY Division
<1> HIDE DEF k
<1>2. k % 2 = 0 \/ k % 2 = 1
  BY <1>1, SMT
<1>3. arena_level_2(i) = Level2Bit * (k % 2)
  BY DEF arena_level_2, k
<1>4. Level2Bit * 0 = 0 /\ Level2Bit * 1 = Level2Bit
  BY SMT
<1> QED BY <1>2, <1>3, <1>4
===============================================================================
