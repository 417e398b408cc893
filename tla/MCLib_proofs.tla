---------------------------- MODULE MCLib_proofs ----------------------------
(***************************************************************************)
(* Proofs about the pure functions, for all arguments: memcpy(), memset()  *)
(* and the strings, what cpio-strip rewrites, the boot page tables, what   *)
(* is hashed and what printf() prints.                                     *)
(***************************************************************************)
EXTENDS MCLib, SequenceTheorems, WellFoundedInduction, TLAPS

(***************************************************************************)
(* memcpy() and memset(): every byte of the destination once, none beyond, *)
(* and never an access that is not aligned at both ends                    *)
(***************************************************************************)
UnitSize == {1, 2, 4, 8}

(* The bytes before the first unit end where the pointer is aligned.       *)
LEMMA HeadAligned ==
  ASSUME NEW d \in Nat, NEW n \in Nat, NEW u \in UnitSize
  PROVE  /\ HeadBytes(d, n, u) \in 0..n
         /\ n > HeadBytes(d, n, u) => (d + HeadBytes(d, n, u)) % u = 0
  <1>1. CASE u = 1
    BY <1>1 DEF HeadBytes, Smaller
  <1>2. CASE u = 2
    BY <1>2 DEF HeadBytes, Smaller
  <1>3. CASE u = 4
    BY <1>3 DEF HeadBytes, Smaller
  <1>4. CASE u = 8
    BY <1>4 DEF HeadBytes, Smaller
  <1> QED
    BY <1>1, <1>2, <1>3, <1>4 DEF UnitSize

(* Whole units fit in what is left, and less than a unit remains.          *)
LEMMA UnitsFit ==
  ASSUME NEW d \in Nat, NEW n \in Nat, NEW u \in UnitSize
  PROVE  /\ Units(d, n, u) \in Nat
         /\ HeadBytes(d, n, u) + u * Units(d, n, u) <= n
         /\ n < HeadBytes(d, n, u) + u * Units(d, n, u) + u
  <1>1. HeadBytes(d, n, u) \in 0..n
    BY HeadAligned
  <1>2. CASE u = 1
    BY <1>1, <1>2 DEF Units
  <1>3. CASE u = 2
    BY <1>1, <1>3 DEF Units
  <1>4. CASE u = 4
    BY <1>1, <1>4 DEF Units
  <1>5. CASE u = 8
    BY <1>1, <1>5 DEF Units
  <1> QED
    BY <1>2, <1>3, <1>4, <1>5 DEF UnitSize

(* The k-th unit that holds byte a, of a region that starts at byte h.     *)
LEMMA UnitOf ==
  ASSUME NEW u \in UnitSize, NEW m \in Nat, NEW b \in 0 .. u * m - 1
  PROVE  /\ b \div u \in 0 .. m - 1
         /\ u * (b \div u) <= b /\ b < u * (b \div u) + u
         /\ \A k \in 0 .. m - 1 : u * k <= b /\ b < u * k + u => k = b \div u
  <1>1. CASE u = 1
    BY <1>1
  <1>2. CASE u = 2
    BY <1>2
  <1>3. CASE u = 4
    BY <1>3
  <1>4. CASE u = 8
    BY <1>4
  <1> QED
    BY <1>1, <1>2, <1>3, <1>4 DEF UnitSize

(* Multiples of a unit.                                                    *)
LEMMA Multiples ==
  ASSUME NEW u \in UnitSize, NEW k \in Nat, NEW m \in Nat
  PROVE  u * k \in Nat /\ (k < m => u * k + u <= u * m)
  <1>1. CASE u = 1
    BY <1>1
  <1>2. CASE u = 2
    BY <1>2
  <1>3. CASE u = 4
    BY <1>3
  <1>4. CASE u = 8
    BY <1>4
  <1> QED
    BY <1>1, <1>2, <1>3, <1>4 DEF UnitSize

(* The three parts lie behind each other and fill 0 to n - 1.              *)
LEMMA PartsCover ==
  ASSUME NEW d \in Nat, NEW n \in Nat, NEW u \in UnitSize
  PROVE  Covers(Accesses(d, n, u), n)
  <1> DEFINE h == HeadBytes(d, n, u)
             m == Units(d, n, u)
             A == Accesses(d, n, u)
             InUnits == {[at |-> h + u * k, size |-> u] : k \in 0 .. m - 1}
  <1>0. h \in 0..n /\ m \in Nat /\ h + u * m <= n
    BY HeadAligned, UnitsFit
  <1>1. h \in 0..n /\ m \in Nat /\ u * m \in Nat /\ h + u * m <= n /\ u \in Nat
    <2> HIDE DEF h, m
    <2>1. u * m \in Nat
      BY <1>0, Multiples
    <2> QED
      BY <1>0, <2>1 DEF UnitSize
  <1>2. A = Bytes(0, h) \union InUnits \union Bytes(h + u * m, n)
    BY DEF Accesses
  <1> HIDE DEF h, m, A
  <1>3. \A k \in 0 .. m - 1 : u * k \in Nat /\ u * k + u <= u * m
    BY <1>1, Multiples
  <1>4. ASSUME NEW w \in A PROVE w.at >= 0 /\ w.at + w.size <= n
    <2>1. CASE w \in Bytes(0, h) \union Bytes(h + u * m, n)
      BY <1>1, <2>1 DEF Bytes
    <2>2. CASE w \in InUnits
      <3>1. PICK k \in 0 .. m - 1 : w = [at |-> h + u * k, size |-> u]
        BY <2>2
      <3>2. u * k \in Nat /\ u * k + u <= u * m
        BY <1>3
      <3> QED
        BY <1>1, <3>1, <3>2
    <2> QED
      BY <1>2, <1>4, <2>1, <2>2
  <1>5. ASSUME NEW a \in 0 .. n - 1
        PROVE \E w \in A : /\ w.at <= a /\ a < w.at + w.size
                           /\ \A v \in A : v.at <= a /\ a < v.at + v.size => v = w
    <2>1. CASE a < h
      <3> DEFINE w == [at |-> a, size |-> 1]
      <3>1. w \in A
        BY <1>1, <1>2, <2>1 DEF Bytes
      <3>2. ASSUME NEW v \in A, v.at <= a, a < v.at + v.size PROVE v = w
        <4>1. CASE v \in Bytes(0, h)
          BY <3>2, <4>1 DEF Bytes
        <4>2. v \notin InUnits
          BY <1>1, <1>3, <2>1, <3>2
        <4>3. v \notin Bytes(h + u * m, n)
          BY <1>1, <2>1, <3>2 DEF Bytes
        <4> QED
          BY <1>2, <4>1, <4>2, <4>3
      <3> QED
        BY <3>1, <3>2
    <2>2. CASE a >= h /\ a < h + u * m
      <3> DEFINE b == a - h
                 q == b \div u
                 w == [at |-> h + u * q, size |-> u]
      <3>0. b \in 0 .. u * m - 1
        BY <1>1, <2>2
      <3>1. /\ q \in 0 .. m - 1 /\ u * q <= b /\ b < u * q + u
            /\ \A k \in 0 .. m - 1 : u * k <= b /\ b < u * k + u => k = q
        BY <1>1, <3>0, UnitOf
      <3>2. w \in A /\ w.at <= a /\ a < w.at + w.size
        <4>1. w \in InUnits
          BY <3>1
        <4>2. w.at = h + u * q /\ w.size = u
          OBVIOUS
        <4>3. u * q \in Nat
          BY <1>3, <3>1
        <4> HIDE DEF q, w
        <4> QED
          BY <1>1, <1>2, <3>1, <4>1, <4>2, <4>3
      <3>3. ASSUME NEW v \in A, v.at <= a, a < v.at + v.size PROVE v = w
        <4>1. CASE v \in InUnits
          <5>1. PICK k \in 0 .. m - 1 : v = [at |-> h + u * k, size |-> u]
            BY <4>1
          <5>2. u * k <= b /\ b < u * k + u
            BY <1>1, <1>3, <3>3, <5>1
          <5> QED
            BY <3>1, <5>1, <5>2
        <4>2. v \notin Bytes(0, h)
          BY <1>1, <2>2, <3>3 DEF Bytes
        <4>3. v \notin Bytes(h + u * m, n)
          BY <1>1, <2>2, <3>3 DEF Bytes
        <4> QED
          BY <1>2, <4>1, <4>2, <4>3
      <3> QED
        BY <3>2, <3>3
    <2>3. CASE a >= h + u * m
      <3> DEFINE w == [at |-> a, size |-> 1]
      <3>1. w \in A
        BY <1>1, <1>2, <2>3 DEF Bytes
      <3>2. ASSUME NEW v \in A, v.at <= a, a < v.at + v.size PROVE v = w
        <4>1. CASE v \in Bytes(h + u * m, n)
          BY <1>1, <3>2, <4>1 DEF Bytes
        <4>2. v \notin InUnits
          BY <1>1, <1>3, <2>3, <3>2
        <4>3. v \notin Bytes(0, h)
          BY <1>1, <2>3, <3>2 DEF Bytes
        <4> QED
          BY <1>2, <4>1, <4>2, <4>3
      <3> QED
        BY <3>1, <3>2
    <2> QED
      BY <1>1, <2>1, <2>2, <2>3
  <1> QED
    BY <1>4, <1>5 DEF Covers, A

(* Every unit is aligned at a pointer congruent to the destination.        *)
LEMMA PartsAligned ==
  ASSUME NEW d \in Nat, NEW n \in Nat, NEW u \in UnitSize, NEW p \in Nat, p % u = d % u
  PROVE  AlignedAt(Accesses(d, n, u), p)
  <1> DEFINE h == HeadBytes(d, n, u)
             m == Units(d, n, u)
  <1>1. h \in 0..n /\ m \in Nat /\ h + u * m <= n /\ u \in Nat
    <2>1. h \in 0..n /\ m \in Nat /\ h + u * m <= n
      BY HeadAligned, UnitsFit
    <2>2. u \in Nat
      BY DEF UnitSize
    <2> QED
      BY <2>1, <2>2
  <1>2. ASSUME NEW k \in 0 .. m - 1 PROVE (p + (h + u * k)) % u = 0
    <2>1. n > h
      <3>1. u * m >= 1
        BY <1>1, <1>2 DEF UnitSize
      <3> QED
        BY <1>1, <3>1
    <2>2. (d + h) % u = 0
      BY <2>1, HeadAligned
    <2> HIDE DEF h, m
    <2>3. CASE u = 1
      BY <1>1, <2>3
    <2>4. CASE u = 2
      BY <1>1, <2>2, <2>4
    <2>5. CASE u = 4
      BY <1>1, <2>2, <2>5
    <2>6. CASE u = 8
      BY <1>1, <2>2, <2>6
    <2> QED
      BY <2>3, <2>4, <2>5, <2>6 DEF UnitSize
  <1>3. \A k \in Nat : (p + k) % 1 = 0
    OBVIOUS
  <1> HIDE DEF h, m
  <1>4. ASSUME NEW w \in Accesses(d, n, u) PROVE (p + w.at) % w.size = 0
    <2>1. \/ w \in Bytes(0, h) \union Bytes(h + u * m, n)
          \/ w \in {[at |-> h + u * k, size |-> u] : k \in 0 .. m - 1}
      BY DEF Accesses, h, m
    <2>2. CASE w \in Bytes(0, h) \union Bytes(h + u * m, n)
      <3>1. w.size = 1 /\ w.at \in Nat
        BY <1>1, <2>2 DEF Bytes, UnitSize
      <3> QED
        BY <1>3, <3>1
    <2>3. CASE w \in {[at |-> h + u * k, size |-> u] : k \in 0 .. m - 1}
      BY <1>2, <2>3
    <2> QED
      BY <2>1, <2>2, <2>3
  <1> QED
    BY <1>4 DEF AlignedAt

(* The halving of the copy unit ends at one both pointers agree on.        *)
LEMMA CopyUnitAgrees ==
  ASSUME NEW d \in Nat, NEW s \in Nat
  PROVE  CopyUnit(d, s) \in UnitSize /\ d % CopyUnit(d, s) = s % CopyUnit(d, s)
  <1> DEFINE Fits(u) == /\ u <= BytePerWord
                        /\ u = 1 \/ d % u = s % u
                        /\ \A v \in {2, 4, 8} : u < v /\ v <= BytePerWord => d % v # s % v
  <1>1. \E u \in {1, 2, 4, 8} : Fits(u)
    BY MemAssumption
  <1>2. CopyUnit(d, s) \in {1, 2, 4, 8} /\ Fits(CopyUnit(d, s))
    BY <1>1 DEF CopyUnit
  <1>3. d % 1 = s % 1
    OBVIOUS
  <1> QED
    BY <1>2, <1>3 DEF UnitSize

(* memcpy() writes every byte of the destination once and nothing else,    *)
(* and each access is aligned at the destination and at the source, which  *)
(* strongly ordered memory (the MMU is off) requires.                      *)
THEOREM MemcpyRight ==
  \A d, s, n \in Nat :
    /\ Covers(MemcpyAccesses(d, s, n), n)
    /\ AlignedAt(MemcpyAccesses(d, s, n), d)
    /\ AlignedAt(MemcpyAccesses(d, s, n), s)
  <1> SUFFICES ASSUME NEW d \in Nat, NEW s \in Nat, NEW n \in Nat
               PROVE  /\ Covers(MemcpyAccesses(d, s, n), n)
                      /\ AlignedAt(MemcpyAccesses(d, s, n), d)
                      /\ AlignedAt(MemcpyAccesses(d, s, n), s)
    OBVIOUS
  <1>1. CopyUnit(d, s) \in UnitSize /\ d % CopyUnit(d, s) = s % CopyUnit(d, s)
    BY CopyUnitAgrees
  <1> QED
    BY <1>1, PartsCover, PartsAligned DEF MemcpyAccesses

(* The same of memset() and its destination.                               *)
THEOREM MemsetRight ==
  \A d, n \in Nat : /\ Covers(MemsetAccesses(d, n), n)
                    /\ AlignedAt(MemsetAccesses(d, n), d)
  <1> SUFFICES ASSUME NEW d \in Nat, NEW n \in Nat
               PROVE  Covers(MemsetAccesses(d, n), n) /\ AlignedAt(MemsetAccesses(d, n), d)
    OBVIOUS
  <1>1. BytePerWord \in UnitSize
    BY MemAssumption DEF UnitSize
  <1> QED
    BY <1>1, PartsCover, PartsAligned DEF MemsetAccesses

(***************************************************************************)
(* cpio-strip, for any alignment and any size of a header                  *)
(***************************************************************************)
(* CPIO_ALIGNMENT is added to at most a place less than once.              *)
LEMMA AlignedUp ==
  ASSUME NEW a \in Nat
  PROVE  /\ AlignUp(a) \in Nat /\ AlignUp(a) % CPIO_ALIGNMENT = 0
         /\ AlignUp(a) - a \in 0 .. CPIO_ALIGNMENT - 1
<1> DEFINE A == CPIO_ALIGNMENT
<1>1. A \in Nat \ {0}
  BY CpioAssumption
<1>2. (-a) % A \in 0 .. A - 1 /\ -a = A * ((-a) \div A) + ((-a) % A) /\ (-a) \div A \in Int
  BY <1>1
<1>3. AlignUp(a) = A * (-((-a) \div A))
  BY <1>1, <1>2 DEF AlignUp
<1>4. \A q \in Int : (A * q) % A = 0
  BY <1>1
<1>5. AlignUp(a) % A = 0
  BY <1>2, <1>3, <1>4
<1> QED BY <1>1, <1>2, <1>5 DEF AlignUp

(* From the data of an entry get_header() comes back to its header, for    *)
(* every length of the name (cpio-strip.c:54), and the header behind the   *)
(* data is aligned as the first one is.                                    *)
THEOREM HeaderFound ==
  ASSUME NEW header \in Nat, header % CPIO_ALIGNMENT = 0, NEW n \in Nat, NEW size \in Nat
  PROVE  /\ GetHeader(DataAt(header, n), n) = header
         /\ NextHeader(DataAt(header, n), size) % CPIO_ALIGNMENT = 0
         /\ NextHeader(DataAt(header, n), size) > header
<1> DEFINE A == CPIO_ALIGNMENT
           data == DataAt(header, n)
           r == data - (header + HeaderSize + n + 1)
<1>1. A \in Nat \ {0} /\ HeaderSize \in Nat
  BY CpioAssumption
<1>2. data \in Nat /\ r \in 0 .. A - 1
  BY <1>1, AlignedUp DEF DataAt
<1>3. data - n - 1 - HeaderSize = header + r
  BY <1>1, <1>2
<1>4. (header + r) % A = r
  <2>1. header = A * (header \div A) /\ header \div A \in Int
    BY <1>1
  <2>2. \A q \in Int, t \in 0 .. A - 1 : (A * q + t) % A = t
    BY <1>1
  <2> HIDE DEF r
  <2> QED BY <1>2, <2>1, <2>2
<1>5. GetHeader(data, n) = header
  <2>1. GetHeader(data, n) = (header + r) - ((header + r) % A)
    BY <1>3 DEF GetHeader
  <2> HIDE DEF r
  <2> QED BY <1>2, <1>4, <2>1
<1>6. /\ NextHeader(data, size) % A = 0
      /\ NextHeader(data, size) \in Nat
      /\ NextHeader(data, size) >= data + size
  <2>1. data + size \in Nat
    BY <1>2
  <2>2. /\ AlignUp(data + size) % A = 0 /\ AlignUp(data + size) \in Nat
        /\ AlignUp(data + size) - (data + size) \in 0 .. A - 1
    BY <2>1, AlignedUp
  <2> HIDE DEF data
  <2> QED BY <1>1, <2>1, <2>2 DEF NextHeader
<1>7. data > header
  BY <1>1, <1>2
<1>8. NextHeader(data, size) > header
  <2>1. data \in Nat
    BY <1>2
  <2> HIDE DEF data
  <2> QED BY <2>1, <1>6, <1>7
<1> QED BY <1>5, <1>6, <1>8

(***************************************************************************)
(* The boot page tables: multiples of a span                               *)
(***************************************************************************)
Positive == Nat \ {0}

(* A number is its quotient and its remainder.                             *)
LEMMA Split ==
  ASSUME NEW s \in Nat \ {0}, NEW a \in Nat
  PROVE  a \div s \in Nat /\ a % s \in 0 .. s - 1 /\ a = s * (a \div s) + (a % s)
OBVIOUS

(* Products of naturals keep the order and distribute.                     *)
LEMMA Times ==
  ASSUME NEW s \in Nat \ {0}, NEW a \in Nat, NEW b \in Nat
  PROVE  /\ s * a \in Nat
         /\ a < b => s * a + s <= s * b
         /\ a <= b => s * a <= s * b /\ b - a \in Nat /\ s * (b - a) = s * b - s * a
         /\ s * (a + b) = s * a + s * b
         /\ (s * a) * b = s * (a * b) /\ a * b \in Nat
<1>1. s * a \in Nat /\ a * b \in Nat
  OBVIOUS
<1>2. ASSUME a < b PROVE s * a + s <= s * b
  <2>1. PICK c \in Nat : b = a + 1 + c
    <3>1. b - a - 1 \in Nat /\ b = a + 1 + (b - a - 1)
      BY <1>2
    <3> QED BY <3>1
  <2>2. s * b = s * a + s + s * c
    BY <2>1
  <2>3. s * c \in Nat
    OBVIOUS
  <2> QED BY <1>1, <2>2, <2>3
<1>3. ASSUME a <= b PROVE s * a <= s * b /\ b - a \in Nat /\ s * (b - a) = s * b - s * a
  <2>1. b - a \in Nat
    BY <1>3
  <2>2. s * (b - a) = s * b - s * a
    BY <2>1
  <2>3. s * (b - a) \in Nat
    BY <2>1
  <2> QED BY <1>1, <2>1, <2>2, <2>3
<1>4. s * (a + b) = s * a + s * b
  OBVIOUS
<1>5. (s * a) * b = s * (a * b)
  OBVIOUS
<1> QED BY <1>1, <1>2, <1>3, <1>4, <1>5

(* Quotient and remainder of a sum built from them.                        *)
LEMMA Unsplit ==
  ASSUME NEW s \in Nat \ {0}, NEW q \in Nat, NEW r \in 0 .. s - 1
  PROVE  (s * q + r) \div s = q /\ (s * q + r) % s = r
<1> DEFINE a == s * q + r
           d == a \div s
           m == a % s
<1>1. a \in Nat
  BY Times
<1>2. d \in Nat /\ m \in 0 .. s - 1 /\ a = s * d + m
  BY <1>1, Split
<1>3. d = q
  <2>1. s * d \in Nat /\ s * q \in Nat
    BY <1>2, Times
  <2>2. ~(d < q)
    <3>1. d < q => s * d + s <= s * q
      BY <1>2, Times
    <3> HIDE DEF d, m
    <3> QED BY <1>2, <2>1, <3>1
  <2>3. ~(q < d)
    <3>1. q < d => s * q + s <= s * d
      BY <1>2, Times
    <3> HIDE DEF d, m
    <3> QED BY <1>2, <2>1, <3>1
  <2> HIDE DEF d
  <2> QED BY <1>2, <2>2, <2>3
<1>4. m = r
  <2> HIDE DEF d, m
  <2>1. s * d = s * q /\ s * q \in Nat
    BY <1>3, Times
  <2> QED BY <1>2, <2>1
<1> QED BY <1>3, <1>4

(* Two levels of tables at once: the entry of the upper one and the entry  *)
(* below it.                                                               *)
LEMMA Nested ==
  ASSUME NEW s \in Positive, NEW e \in Positive, NEW j \in Nat, NEW r \in 0 .. s - 1
  PROVE  /\ (s * j + r) \div (e * s) = j \div e
         /\ (s * j + r) % (e * s) = s * (j % e) + r
         /\ e * s \in Nat \ {0}
<1> USE DEF Positive
<1> DEFINE g == j \div e
           h == j % e
<1>1. g \in Nat /\ h \in 0 .. e - 1 /\ j = e * g + h
  BY Split
<1> HIDE DEF g, h
<1>2. e * s \in Nat \ {0} /\ e * s = s * e
  <2>1. e * s \in Nat /\ e * s = s * e /\ s * e \in Nat
    BY Times
  <2>2. s * e >= s
    <3>1. 0 < e => s * 0 + s <= s * e
      BY Times
    <3>2. s * 0 = 0
      OBVIOUS
    <3> QED BY <2>1, <3>1, <3>2
  <2> QED BY <2>1, <2>2
<1>3. s * h + r \in 0 .. e * s - 1
  <2>1. h \in Nat /\ h < e
    BY <1>1
  <2>2. s * h \in Nat /\ s * h + s <= s * e
    BY <2>1, Times
  <2> DEFINE x == s * h
             y == s * e
  <2>3. x \in Nat /\ x + s <= y /\ y = e * s /\ y \in Nat
    BY <1>2, <2>2
  <2> HIDE DEF x, y
  <2>4. x + r \in 0 .. y - 1
    BY <2>3
  <2> QED BY <2>3, <2>4 DEF x
<1>4. s * j + r = (e * s) * g + (s * h + r)
  <2>1. e * g \in Nat /\ h \in Nat
    BY <1>1, Times
  <2>2. s * j = s * (e * g) + s * h
    BY <1>1, <2>1, Times
  <2>3. s * (e * g) = (s * e) * g
    BY <1>1, Times
  <2>4. s * (e * g) \in Nat /\ s * h \in Nat
    BY <2>1, Times
  <2>5. (s * e) * g = (e * s) * g
    BY <1>2
  <2> DEFINE x == s * j
             y == (e * s) * g
             z == s * h
  <2>6. x = y + z /\ y \in Nat /\ z \in Nat
    BY <2>2, <2>3, <2>4, <2>5
  <2> HIDE DEF x, y, z
  <2>7. x + r = y + (z + r)
    BY <2>6
  <2> QED BY <2>7 DEF x, y, z
<1> DEFINE w == e * s
           z == s * h + r
<1>5. w \in Nat \ {0} /\ z \in 0 .. w - 1 /\ s * j + r = w * g + z
  BY <1>2, <1>3, <1>4
<1> HIDE DEF w, z
<1>6. (w * g + z) \div w = g /\ (w * g + z) % w = z
  BY <1>1, <1>5, Unsplit
<1> QED BY <1>2, <1>5, <1>6 DEF w, z, g, h

(***************************************************************************)
(* The hardware's walk, level by level                                     *)
(***************************************************************************)
Top(root) == [entry |-> TableAt(root, 0), span |-> 0]
Deeper(vspace, level, va, up) ==
  IF up.entry.kind # "table" THEN up
  ELSE [entry |-> vspace[up.entry.to][up.entry.at + ((va \div level.span) % level.fan)],
        span |-> level.span]
Frame(found, va) ==
  IF found.entry.kind = "leaf" /\ found.entry.to % found.span = 0
    THEN found.entry.to + (va % found.span) ELSE PageFault

Walks(f, vspace, root, levels, va) ==
  f = [k \in 0..Len(levels) |->
        IF k = 0 THEN [entry |-> TableAt(root, 0), span |-> 0]
        ELSE LET up == f[k-1]
             IN IF up.entry.kind # "table" THEN up
                ELSE [entry |-> vspace[up.entry.to]
                                  [up.entry.at + ((va \div levels[k].span) % levels[k].fan)],
                      span |-> levels[k].span]]
Path(vspace, root, levels, va) == CHOOSE f : Walks(f, vspace, root, levels, va)

(* A walk ends in the frame of the last entry on its path.                 *)
LEMMA TranslateIsPath ==
  ASSUME NEW vspace, NEW root, NEW levels, NEW va
  PROVE  Translate(vspace, root, levels, va) = Frame(Path(vspace, root, levels, va)[Len(levels)], va)
BY DEF Translate, Path, Walks, Frame

(* Walks of two and three levels.                                          *)
LEMMA TwoLevels ==
  ASSUME NEW vspace, NEW root, NEW l1, NEW l2, NEW va
  PROVE  Translate(vspace, root, <<l1, l2>>, va)
           = Frame(Deeper(vspace, l2, va, Deeper(vspace, l1, va, Top(root))), va)
<1> DEFINE levels == <<l1, l2>>
           f1 == Deeper(vspace, l1, va, Top(root))
           f2 == Deeper(vspace, l2, va, f1)
           f == [k \in 0..2 |-> CASE k = 0 -> Top(root) [] k = 1 -> f1 [] k = 2 -> f2]
           P == Path(vspace, root, levels, va)
<1>1. Len(levels) = 2 /\ levels[1] = l1 /\ levels[2] = l2
  OBVIOUS
<1> HIDE DEF levels
<1>2. f[0] = Top(root) /\ f[1] = Deeper(vspace, l1, va, f[0]) /\ f[2] = Deeper(vspace, l2, va, f[1])
  <2> HIDE DEF f1, f2
  <2>1. f[0] = Top(root) /\ f[1] = f1 /\ f[2] = f2
    OBVIOUS
  <2> QED BY <2>1 DEF f1, f2
<1>3. Walks(f, vspace, root, levels, va)
  <2>1. f = [k \in 0..2 |-> f[k]]
    OBVIOUS
  <2> HIDE DEF f
  <2>2. ASSUME NEW k \in 0..2
        PROVE  f[k] = IF k = 0 THEN Top(root) ELSE Deeper(vspace, levels[k], va, f[k-1])
    <3>1. CASE k = 0
      BY <1>2, <3>1
    <3>2. CASE k = 1
      BY <1>1, <1>2, <3>2
    <3>3. CASE k = 2
      BY <1>1, <1>2, <3>3
    <3> QED BY <3>1, <3>2, <3>3
  <2> QED BY <1>1, <2>1, <2>2 DEF Walks, Deeper, Top
<1>4. Walks(P, vspace, root, levels, va)
  BY <1>3 DEF Path
<1> HIDE DEF P, f
<1>5. /\ P[0] = Top(root) /\ P[1] = Deeper(vspace, l1, va, P[0])
      /\ P[2] = Deeper(vspace, l2, va, P[1])
  <2>1. \A k \in 0..2 : P[k] = IF k = 0 THEN Top(root) ELSE Deeper(vspace, levels[k], va, P[k-1])
    <3>1. P = [k \in 0..2 |-> IF k = 0 THEN Top(root) ELSE Deeper(vspace, levels[k], va, P[k-1])]
      BY <1>1, <1>4 DEF Walks, Deeper, Top
    <3> QED BY <3>1
  <2>2. P[0] = Top(root)
    BY <2>1
  <2>3. P[1] = Deeper(vspace, l1, va, P[0])
    BY <1>1, <2>1
  <2>4. P[2] = Deeper(vspace, l2, va, P[1])
    BY <1>1, <2>1
  <2> QED BY <2>2, <2>3, <2>4
<1> QED BY <1>1, <1>5, TranslateIsPath DEF levels, P

(* A walk of three levels is three steps down from the root.               *)
LEMMA ThreeLevels ==
  ASSUME NEW vspace, NEW root, NEW l1, NEW l2, NEW l3, NEW va
  PROVE  Translate(vspace, root, <<l1, l2, l3>>, va)
           = Frame(Deeper(vspace, l3, va, Deeper(vspace, l2, va,
                                                 Deeper(vspace, l1, va, Top(root)))), va)
<1> DEFINE levels == <<l1, l2, l3>>
           f1 == Deeper(vspace, l1, va, Top(root))
           f2 == Deeper(vspace, l2, va, f1)
           f3 == Deeper(vspace, l3, va, f2)
           f == [k \in 0..3 |-> CASE k = 0 -> Top(root) [] k = 1 -> f1 [] k = 2 -> f2 [] k = 3 -> f3]
           P == Path(vspace, root, levels, va)
<1>1. Len(levels) = 3 /\ levels[1] = l1 /\ levels[2] = l2 /\ levels[3] = l3
  OBVIOUS
<1> HIDE DEF levels
<1>2. /\ f[0] = Top(root) /\ f[1] = Deeper(vspace, l1, va, f[0])
      /\ f[2] = Deeper(vspace, l2, va, f[1]) /\ f[3] = Deeper(vspace, l3, va, f[2])
  <2> HIDE DEF f1, f2, f3
  <2>1. f[0] = Top(root) /\ f[1] = f1 /\ f[2] = f2 /\ f[3] = f3
    OBVIOUS
  <2> QED BY <2>1 DEF f1, f2, f3
<1>3. Walks(f, vspace, root, levels, va)
  <2>1. f = [k \in 0..3 |-> f[k]]
    OBVIOUS
  <2> HIDE DEF f
  <2>2. ASSUME NEW k \in 0..3
        PROVE  f[k] = IF k = 0 THEN Top(root) ELSE Deeper(vspace, levels[k], va, f[k-1])
    <3>1. CASE k = 0
      BY <1>2, <3>1
    <3>2. CASE k = 1
      BY <1>1, <1>2, <3>2
    <3>3. CASE k = 2
      BY <1>1, <1>2, <3>3
    <3>4. CASE k = 3
      BY <1>1, <1>2, <3>4
    <3> QED BY <3>1, <3>2, <3>3, <3>4
  <2> QED BY <1>1, <2>1, <2>2 DEF Walks, Deeper, Top
<1>4. Walks(P, vspace, root, levels, va)
  BY <1>3 DEF Path
<1> HIDE DEF P, f
<1>5. /\ P[0] = Top(root) /\ P[1] = Deeper(vspace, l1, va, P[0])
      /\ P[2] = Deeper(vspace, l2, va, P[1]) /\ P[3] = Deeper(vspace, l3, va, P[2])
  <2>1. \A k \in 0..3 : P[k] = IF k = 0 THEN Top(root) ELSE Deeper(vspace, levels[k], va, P[k-1])
    <3>1. P = [k \in 0..3 |-> IF k = 0 THEN Top(root) ELSE Deeper(vspace, levels[k], va, P[k-1])]
      BY <1>1, <1>4 DEF Walks, Deeper, Top
    <3> QED BY <3>1
  <2>2. P[0] = Top(root)
    BY <2>1
  <2>3. P[1] = Deeper(vspace, l1, va, P[0])
    BY <1>1, <2>1
  <2>4. P[2] = Deeper(vspace, l2, va, P[1])
    BY <1>1, <2>1
  <2>5. P[3] = Deeper(vspace, l3, va, P[2])
    BY <1>1, <2>1
  <2> QED BY <2>2, <2>3, <2>4, <2>5
<1> QED BY <1>1, <1>5, TranslateIsPath DEF levels, P

(* Walks that end at the first, second or third level's entry.             *)
Slot(level, va) == (va \div level.span) % level.fan
Below(vspace, entry, level, va) == vspace[entry.to][entry.at + Slot(level, va)]
Framed(entry, level, va) == Frame([entry |-> entry, span |-> level.span], va)

First(vspace, root, l1, va) == Below(vspace, TableAt(root, 0), l1, va)
Second(vspace, root, l1, l2, va) == Below(vspace, First(vspace, root, l1, va), l2, va)
Third(vspace, root, l1, l2, l3, va) == Below(vspace, Second(vspace, root, l1, l2, va), l3, va)

(* A walk of two levels ends at the first leaf it meets.                   *)
LEMMA TwoLevelWalks ==
  ASSUME NEW vspace, NEW root, NEW l1, NEW l2, NEW va
  PROVE  /\ First(vspace, root, l1, va).kind = "leaf" =>
              Translate(vspace, root, <<l1, l2>>, va) = Framed(First(vspace, root, l1, va), l1, va)
         /\ First(vspace, root, l1, va).kind = "table" =>
              Translate(vspace, root, <<l1, l2>>, va)
                = Framed(Second(vspace, root, l1, l2, va), l2, va)
<1> DEFINE e1 == First(vspace, root, l1, va)
           e2 == Second(vspace, root, l1, l2, va)
           d1 == Deeper(vspace, l1, va, Top(root))
<1>1. d1 = [entry |-> e1, span |-> l1.span]
  BY DEF Deeper, Top, TableAt, Below, Slot, First
<1>2. e2 = Below(vspace, e1, l2, va)
  BY DEF Second
<1> HIDE DEF d1, e1, e2
<1>3. e1.kind = "leaf" => Deeper(vspace, l2, va, d1) = d1
  BY <1>1 DEF Deeper
<1>4. e1.kind = "table" => Deeper(vspace, l2, va, d1) = [entry |-> e2, span |-> l2.span]
  BY <1>1, <1>2 DEF Deeper, Below, Slot
<1>5. Translate(vspace, root, <<l1, l2>>, va) = Frame(Deeper(vspace, l2, va, d1), va)
  BY TwoLevels DEF d1
<1> QED BY <1>1, <1>3, <1>4, <1>5 DEF Framed, e1, e2

(* So does one of three, behind a table at the first.                      *)
LEMMA ThreeLevelWalks ==
  ASSUME NEW vspace, NEW root, NEW l1, NEW l2, NEW l3, NEW va,
         First(vspace, root, l1, va).kind = "table"
  PROVE  /\ Second(vspace, root, l1, l2, va).kind = "leaf" =>
              Translate(vspace, root, <<l1, l2, l3>>, va)
                = Framed(Second(vspace, root, l1, l2, va), l2, va)
         /\ Second(vspace, root, l1, l2, va).kind = "table" =>
              Translate(vspace, root, <<l1, l2, l3>>, va)
                = Framed(Third(vspace, root, l1, l2, l3, va), l3, va)
<1> DEFINE e1 == First(vspace, root, l1, va)
           e2 == Second(vspace, root, l1, l2, va)
           e3 == Third(vspace, root, l1, l2, l3, va)
           d1 == Deeper(vspace, l1, va, Top(root))
           d2 == Deeper(vspace, l2, va, d1)
<1>1. d1 = [entry |-> e1, span |-> l1.span]
  BY DEF Deeper, Top, TableAt, Below, Slot, First
<1>2. e2 = Below(vspace, e1, l2, va) /\ e3 = Below(vspace, e2, l3, va)
  BY DEF Second, Third
<1> HIDE DEF d1, e1, e2, e3
<1>3. d2 = [entry |-> e2, span |-> l2.span]
  BY <1>1, <1>2 DEF Deeper, Below, Slot, e1
<1> HIDE DEF d2
<1>4. e2.kind = "leaf" => Deeper(vspace, l3, va, d2) = d2
  BY <1>3 DEF Deeper
<1>5. e2.kind = "table" => Deeper(vspace, l3, va, d2) = [entry |-> e3, span |-> l3.span]
  BY <1>2, <1>3 DEF Deeper, Below, Slot
<1>6. Translate(vspace, root, <<l1, l2, l3>>, va) = Frame(Deeper(vspace, l3, va, d2), va)
  BY ThreeLevels DEF d1, d2
<1> QED BY <1>3, <1>4, <1>5, <1>6 DEF Framed, e2, e3

(* A leaf that holds a multiple of its span.                               *)
LEMMA LeafFramed ==
  ASSUME NEW s \in Positive, NEW fan, NEW q \in Nat, NEW i \in Nat, NEW r \in 0 .. s - 1
  PROVE  Framed(Leaf(s * q), Level(s, fan), s * i + r) = s * q + r
<1> USE DEF Positive
<1>1. s * q \in Nat /\ (s * i + r) % s = r
  BY Times, Unsplit
<1>2. (s * q) % s = 0
  <2>1. 0 \in 0 .. s - 1
    OBVIOUS
  <2>2. (s * q + 0) % s = 0
    BY <2>1, Unsplit
  <2> QED BY <1>1, <2>2
<1> DEFINE a == s * q
           va == s * i + r
<1>3. a % s = 0 /\ va % s = r
  BY <1>1, <1>2
<1> HIDE DEF a, va
<1>4. Framed(Leaf(a), Level(s, fan), va) = a + r
  BY <1>3 DEF Framed, Frame, Leaf, Level
<1> QED BY <1>4 DEF a, va

(***************************************************************************)
(* The walks through the tables of each elfloader, address by address      *)
(***************************************************************************)
LEMMA Spans ==
  /\ SectionPages \in Nat \ {0} /\ PdEntries \in Nat \ {0} /\ BlockPages \in Nat \ {0}
  /\ Entries \in Nat \ {0} /\ Entries > 2 /\ CastGiB \in Nat \ {0} /\ CastGiB <= Entries - 2
  /\ GiB = BlockPages * Entries /\ GiB \in Nat \ {0}
  /\ Word32 = SectionPages * PdEntries /\ Word32 \in Nat \ {0}
  /\ Word32 = GiB * 4 /\ Word32 = BlockPages * (4 * Entries)
<1>1. /\ SectionPages \in Nat \ {0} /\ PdEntries \in Nat \ {0} /\ BlockPages \in Nat \ {0}
      /\ Entries \in Nat \ {0} /\ Entries > 2 /\ CastGiB \in Nat \ {0} /\ CastGiB <= Entries - 2
      /\ SectionPages * PdEntries = 4 * Entries * BlockPages
  BY VspaceAssumption
<1>2. GiB = BlockPages * Entries /\ GiB \in Nat \ {0}
  <2>1. Entries * BlockPages = BlockPages * Entries /\ BlockPages * Entries \in Nat
    BY <1>1
  <2>3. 0 < Entries => BlockPages * 0 + BlockPages <= BlockPages * Entries
    BY <1>1, Times
  <2>4. BlockPages * 0 = 0
    BY <1>1
  <2> QED BY <1>1, <2>1, <2>3, <2>4 DEF GiB
<1>3. 4 * Entries * BlockPages = GiB * 4 /\ BlockPages * (4 * Entries) = GiB * 4
  <2>1. 4 * Entries * BlockPages = 4 * (Entries * BlockPages)
    BY <1>1
  <2>2. BlockPages * (4 * Entries) = 4 * (BlockPages * Entries)
    BY <1>1
  <2>3. 4 * GiB = GiB * 4
    BY <1>2
  <2>4. Entries * BlockPages = GiB
    BY DEF GiB
  <2> QED BY <1>2, <2>1, <2>2, <2>3, <2>4
<1>4. Word32 = GiB * 4 /\ Word32 \in Nat \ {0}
  <2>1. Word32 = GiB * 4
    BY <1>1, <1>3 DEF Word32
  <2> QED BY <1>2, <2>1
<1> QED BY <1>1, <1>2, <1>3, <1>4 DEF Word32

(* The entry an address takes of a table.                                  *)
LEMMA SlotOf ==
  ASSUME NEW s \in Nat \ {0}, NEW fan \in Nat \ {0}, NEW j \in Nat, NEW r \in 0 .. s - 1
  PROVE  /\ Slot(Level(s, fan), s * j + r) = j % fan
         /\ j < fan => Slot(Level(s, fan), s * j + r) = j
<1> DEFINE va == s * j + r
<1>1. va \div s = j
  BY Unsplit
<1> HIDE DEF va
<1>2. Slot(Level(s, fan), va) = j % fan
  BY <1>1 DEF Slot, Level
<1>3. j < fan => j % fan = j
  OBVIOUS
<1> QED BY <1>2, <1>3 DEF va

(* The slot of a page at the level above is its slot divided by the number *)
(* of entries.                                                             *)
LEMMA SlotAbove ==
  ASSUME NEW s \in Positive, NEW e \in Positive, NEW fan, NEW j \in Nat, NEW r \in 0 .. s - 1
  PROVE  Slot(Level(e * s, fan), s * j + r) = (j \div e) % fan
<1> DEFINE va == s * j + r
           w == e * s
<1>1. va \div w = j \div e
  <2>1. s \in Positive /\ e \in Positive /\ j \in Nat /\ r \in 0 .. s - 1
    OBVIOUS
  <2>2. (s * j + r) \div (e * s) = j \div e
    BY <2>1, Nested
  <2> QED BY <2>2
<1> HIDE DEF va, w
<1>2. Slot(Level(w, fan), va) = (j \div e) % fan
  BY <1>1 DEF Slot, Level
<1> QED BY <1>2 DEF va, w

(* What is left of 4 GiB behind the kernel's first section or block.       *)
LEMMA WindowLen ==
  ASSUME NEW s \in Nat \ {0}, NEW n \in Nat \ {0}, Word32 = s * n, NEW low \in 1 .. n - 1
  PROVE  (s * low) \div s = low /\ Neg32(s * low) \div s = n - low
<1> DEFINE v == s * low
<1>1. Word32 \in Nat \ {0}
  BY Spans
<1>2. v \in Nat /\ v > 0 /\ v <= Word32 /\ Word32 - v = s * (n - low)
  <2>1. v \in Nat
    BY Times
  <2>2. s * 0 + s <= s * low /\ s * 0 = 0
    BY Times
  <2>3. low <= n /\ low \in Nat
    OBVIOUS
  <2>4. s * low <= s * n /\ s * (n - low) = s * n - s * low
    BY <2>3, Times
  <2> QED BY <2>1, <2>2, <2>4
<1>3. v \div s = low
  <2>1. (s * low + 0) \div s = low /\ 0 \in 0 .. s - 1
    BY Unsplit
  <2> QED BY <1>2, <2>1
<1>4. Neg32(v) = Word32 - v
  <2> HIDE DEF v
  <2>1. Word32 - v \in 0 .. Word32 - 1
    BY <1>1, <1>2
  <2> QED BY <1>1, <2>1 DEF Neg32
<1>5. (s * (n - low) + 0) \div s = n - low /\ s * (n - low) \in Nat
  <2>1. n - low \in Nat /\ 0 \in 0 .. s - 1
    OBVIOUS
  <2> QED BY <2>1, Unsplit, Times
<1> HIDE DEF v
<1>6. Neg32(v) \div s = n - low
  BY <1>2, <1>4, <1>5
<1> QED BY <1>3, <1>6 DEF v

(* Moving a slot by whole slots moves its pages by whole spans.            *)
LEMMA Shifts ==
  ASSUME NEW s \in Nat \ {0}, NEW i \in Nat, NEW low \in Nat, NEW pp \in Nat
  PROVE  i * s = s * i /\ (low <= i => (i - low) * s + s * pp = s * ((i - low) + pp))
<1>1. low <= i => i - low \in Nat
  OBVIOUS
<1>2. low <= i => s * ((i - low) + pp) = s * (i - low) + s * pp
  BY <1>1, Times
<1>3. i * s = s * i /\ (i - low) * s = s * (i - low)
  OBVIOUS
<1> QED BY <1>2, <1>3

(* 32-bit ARM: low is the kernel's first section, pp the one it is loaded  *)
(* in.                                                                     *)
LEMMA PdArm32 ==
  ASSUME NEW low \in 1 .. PdEntries - 1, NEW pp \in Nat, NEW i \in 0 .. PdEntries - 1
  PROVE  LET e == InitBootVspace32(SectionPages * low, SectionPages * pp)._boot_pd[i]
         IN /\ i < low => e = Leaf(SectionPages * i)
            /\ low <= i /\ i < PdEntries - 1 =>
                 e = Leaf((SectionPages * ((i - low) + pp)) % Word32)
            /\ i = PdEntries - 1 => e = TableAt("_boot_pt", 0)
<1> DEFINE S == SectionPages
           P == PdEntries
           v == S * low
           p == S * pp
           last == low + (Neg32(v) \div S) - 1
           Entry(j, a, b) == CASE j < low               -> Leaf(a)
                               [] low <= j /\ j < last   -> Leaf(b % Word32)
                               [] j = last              -> TableAt("_boot_pt", 0)
                               [] OTHER                 -> Empty
<1>1. S \in Nat \ {0} /\ P \in Nat \ {0} /\ Word32 = S * P
  BY Spans
<1>2. v \div S = low /\ Neg32(v) \div S = P - low
  BY <1>1, WindowLen
<1>3. InitBootVspace32(v, p)._boot_pd[i] = Entry(i, i * S, (i - low) * S + p)
  <2>1. InitBootVspace32(v, p)._boot_pd = [j \in 0 .. PdEntries - 1 |-> Entry(j, j * S, (j - low) * S + p)]
    <3> HIDE DEF v, p
    <3> QED BY <1>2 DEF InitBootVspace32
  <2> HIDE DEF Entry
  <2> QED BY <2>1
<1>4. i * S = S * i /\ (low <= i => (i - low) * S + p = S * ((i - low) + pp))
  <2>1. i \in Nat /\ low \in Nat
    BY <1>1
  <2> QED BY <1>1, <2>1, Shifts
<1>5. last = P - 1
  BY <1>1, <1>2
<1> HIDE DEF last
<1>6. \A a, b : /\ i < low => Entry(i, a, b) = Leaf(a)
                /\ low <= i /\ i < P - 1 => Entry(i, a, b) = Leaf(b % Word32)
                /\ i = P - 1 => Entry(i, a, b) = TableAt("_boot_pt", 0)
  BY <1>1, <1>5
<1> HIDE DEF Entry, S, P, v, p
<1>7. LET e == InitBootVspace32(v, p)._boot_pd[i]
      IN /\ i < low => e = Leaf(S * i)
         /\ low <= i /\ i < P - 1 => e = Leaf((S * ((i - low) + pp)) % Word32)
         /\ i = P - 1 => e = TableAt("_boot_pt", 0)
  BY <1>3, <1>4, <1>6, Zenon
<1> QED BY <1>7 DEF v, p, S, P

(* Every page of the 32-bit tables: below the kernel itself, above it the  *)
(* kernel's, at the vectors the vector table (init_boot_vspace).           *)
LEMMA WalkArm32 ==
  ASSUME NEW low \in 1 .. PdEntries - 1, NEW pp \in Nat
  PROVE  LET vs == InitBootVspace32(SectionPages * low, SectionPages * pp)
             S == SectionPages
         IN /\ \A i \in 0 .. low - 1, r \in 0 .. S - 1 : Walk("arm32", vs, S * i + r) = S * i + r
            /\ \A i \in low .. PdEntries - 2, r \in 0 .. S - 1 :
                 S * ((i - low) + pp) + r < Word32 =>
                   Walk("arm32", vs, S * i + r) = S * ((i - low) + pp) + r
            /\ Walk("arm32", vs, Vectors) = arm_vector_table
<1> DEFINE S == SectionPages
           vs == InitBootVspace32(S * low, S * pp)
           l1 == Level(S, PdEntries)
           l2 == Level(1, S)
           E1(va) == First(vs, "_boot_pd", l1, va)
<1>1. S \in Nat \ {0} /\ PdEntries \in Nat \ {0} /\ Word32 = S * PdEntries /\ Word32 \in Nat \ {0}
  BY Spans
<1>2. ASSUME NEW va
      PROVE  /\ E1(va).kind = "leaf" => Walk("arm32", vs, va) = Framed(E1(va), l1, va)
             /\ E1(va).kind = "table" =>
                  Walk("arm32", vs, va) = Framed(Second(vs, "_boot_pd", l1, l2, va), l2, va)
  <2>1. Walk("arm32", vs, va) = Translate(vs, "_boot_pd", <<l1, l2>>, va)
    BY DEF Walk
  <2> HIDE DEF vs, l1, l2
  <2> QED BY <2>1, TwoLevelWalks
<1>3. ASSUME NEW i \in 0 .. PdEntries - 1, NEW r \in 0 .. S - 1
      PROVE  E1(S * i + r) = vs._boot_pd[i]
  <2> HIDE DEF vs, S
  <2>1. Slot(l1, S * i + r) = i
    <3>1. i \in Nat /\ i < PdEntries
      BY <1>1
    <3> QED BY <1>1, <3>1, SlotOf
  <2> HIDE DEF l1
  <2> QED BY <2>1 DEF First, Below, TableAt
<1>4. ASSUME NEW i \in 0 .. low - 1, NEW r \in 0 .. S - 1
      PROVE  Walk("arm32", vs, S * i + r) = S * i + r
  <2> DEFINE va == S * i + r
  <2>1. i \in 0 .. PdEntries - 1 /\ i < low /\ i \in Nat
    BY <1>1
  <2>2. E1(va) = Leaf(S * i)
    BY <1>3, <2>1, PdArm32
  <2>3. Framed(Leaf(S * i), l1, va) = va
    <3> HIDE DEF S
    <3>1. S \in Positive
      BY <1>1 DEF Positive
    <3> QED BY <2>1, <3>1, LeafFramed, Zenon
  <2> HIDE DEF va, vs, l1, E1
  <2>4. Walk("arm32", vs, va) = va
    BY <1>2, <2>2, <2>3 DEF Leaf
  <2> QED BY <2>4 DEF va
<1>5. ASSUME NEW i \in low .. PdEntries - 2, NEW r \in 0 .. S - 1,
             S * ((i - low) + pp) + r < Word32
      PROVE  Walk("arm32", vs, S * i + r) = S * ((i - low) + pp) + r
  <2> DEFINE va == S * i + r
             q == (i - low) + pp
             a == S * q
  <2>1. i \in 0 .. PdEntries - 1 /\ low <= i /\ i < PdEntries - 1 /\ q \in Nat /\ i \in Nat
    BY <1>1
  <2>2. E1(va) = Leaf(a % Word32)
    BY <1>3, <2>1, PdArm32
  <2>3. a % Word32 = a
    <3>1. a \in Nat
      BY <1>1, <2>1, Times
    <3>2. a + r < Word32
      BY <1>5
    <3> HIDE DEF a, S
    <3>3. a \in 0 .. Word32 - 1
      BY <1>1, <3>1, <3>2
    <3> QED BY <1>1, <3>3
  <2>4. Framed(Leaf(a), l1, va) = a + r
    <3> HIDE DEF S, q
    <3>1. S \in Positive
      BY <1>1 DEF Positive
    <3> QED BY <2>1, <3>1, LeafFramed
  <2> HIDE DEF va, a, vs, l1, E1
  <2>5. Walk("arm32", vs, va) = a + r
    BY <1>2, <2>2, <2>3, <2>4 DEF Leaf
  <2> QED BY <2>5 DEF va, a
<1>6. Walk("arm32", vs, Vectors) = arm_vector_table
  <2> DEFINE r == Vectors - S * (PdEntries - 1)
             k == Vectors % S
  <2>1. Vectors \in S * (PdEntries - 1) .. S * PdEntries - 1 /\ arm_vector_table \in Nat
    BY VspaceAssumption
  <2>2. S * (PdEntries - 1) \in Nat /\ S * (PdEntries - 1) + S = S * PdEntries
    <3>1. PdEntries - 1 \in Nat
      BY <1>1
    <3>2. S * (PdEntries - 1) \in Nat
      BY <1>1, <3>1, Times
    <3>3. S * (PdEntries - 1) = S * PdEntries - S
      BY <1>1
    <3> QED BY <1>1, <3>2, <3>3
  <2>3. r \in 0 .. S - 1 /\ Vectors = S * (PdEntries - 1) + r /\ Vectors \in Nat
    <3> DEFINE x == S * (PdEntries - 1)
               y == S * PdEntries
    <3>1. Vectors \in x .. y - 1 /\ x \in Nat /\ x + S = y
      BY <2>1, <2>2
    <3> HIDE DEF x, y, S
    <3>2. Vectors - x \in 0 .. S - 1 /\ Vectors = x + (Vectors - x) /\ Vectors \in Nat
      BY <1>1, <3>1
    <3> QED BY <3>2 DEF x
  <2>4. E1(Vectors) = TableAt("_boot_pt", 0)
    <3>1. PdEntries - 1 \in 0 .. PdEntries - 1
      BY <1>1
    <3>2. E1(Vectors) = vs._boot_pd[PdEntries - 1]
      BY <1>3, <2>3, <3>1
    <3> QED BY <3>1, <3>2, PdArm32
  <2>5. Second(vs, "_boot_pd", l1, l2, Vectors) = Leaf(arm_vector_table)
    <3>1. Slot(l2, Vectors) = k
      BY <2>3 DEF Slot, Level
    <3>2. k \in 0 .. S - 1
      BY <1>1, <2>3
    <3>3. 0 + k = k
      BY <1>1, <3>2
    <3>4. vs._boot_pt[k] = Leaf(arm_vector_table)
      BY <3>2 DEF InitBootVspace32
    <3> HIDE DEF vs, l1, l2, k
    <3> QED BY <2>4, <3>1, <3>3, <3>4 DEF Second, Below, TableAt
  <2>6. Framed(Leaf(arm_vector_table), l2, Vectors) = arm_vector_table
    BY <2>1, <2>3 DEF Framed, Frame, Leaf, Level
  <2> HIDE DEF vs, l2, E1
  <2> QED BY <1>2, <2>4, <2>5, <2>6 DEF TableAt
<1> QED BY <1>4, <1>5, <1>6

(* 32-bit ARM in HYP mode: low is the kernel's first block of 2 MiB.       *)
LEMMA PmdArm32Hyp ==
  ASSUME NEW low \in 1 .. 4 * Entries - 1, NEW pp \in Nat, NEW i \in 0 .. 4 * Entries - 1
  PROVE  LET e == InitHypBootVspace32(BlockPages * low, BlockPages * pp)._lpae_boot_pmd[i]
         IN /\ i < low => e = Leaf(BlockPages * i)
            /\ low <= i => e = Leaf((BlockPages * ((i - low) + pp)) % Word32)
<1> DEFINE B == BlockPages
           N == 4 * Entries
           v == B * low
           p == B * pp
           window == Neg32(v) \div B
           Entry(j, a, b) == CASE j < low                      -> Leaf(a)
                               [] low <= j /\ j < low + window -> Leaf(b % Word32)
                               [] OTHER                        -> Empty
<1>1. B \in Nat \ {0} /\ N \in Nat \ {0} /\ Word32 = B * N
  BY Spans
<1>2. v \div B = low /\ Neg32(v) \div B = N - low
  BY <1>1, WindowLen
<1>3. InitHypBootVspace32(v, p)._lpae_boot_pmd[i] = Entry(i, i * B, (i - low) * B + p)
  <2>1. InitHypBootVspace32(v, p)._lpae_boot_pmd = [j \in 0 .. N - 1 |-> Entry(j, j * B, (j - low) * B + p)]
    <3> HIDE DEF v, p
    <3> QED BY <1>2 DEF InitHypBootVspace32
  <2> HIDE DEF Entry
  <2> QED BY <2>1
<1>4. i * B = B * i /\ (low <= i => (i - low) * B + p = B * ((i - low) + pp))
  <2>1. i \in Nat /\ low \in Nat
    BY <1>1
  <2> QED BY <1>1, <2>1, Shifts
<1>5. window = N - low
  BY <1>2
<1> HIDE DEF window
<1>6. \A a, b : /\ i < low => Entry(i, a, b) = Leaf(a)
                /\ low <= i => Entry(i, a, b) = Leaf(b % Word32)
  BY <1>1, <1>5
<1> HIDE DEF Entry, B, N, v, p
<1>7. LET e == InitHypBootVspace32(v, p)._lpae_boot_pmd[i]
      IN /\ i < low => e = Leaf(B * i)
         /\ low <= i => e = Leaf((B * ((i - low) + pp)) % Word32)
  BY <1>3, <1>4, <1>6, Zenon
<1> QED BY <1>7 DEF v, p, B

(* The same of the tables of HYP mode (init_hyp_boot_vspace).              *)
LEMMA WalkArm32Hyp ==
  ASSUME NEW low \in 1 .. 4 * Entries - 1, NEW pp \in Nat
  PROVE  LET vs == InitHypBootVspace32(BlockPages * low, BlockPages * pp)
             B == BlockPages
         IN /\ \A i \in 0 .. low - 1, r \in 0 .. B - 1 : Walk("arm32hyp", vs, B * i + r) = B * i + r
            /\ \A i \in low .. 4 * Entries - 1, r \in 0 .. B - 1 :
                 B * ((i - low) + pp) + r < Word32 =>
                   Walk("arm32hyp", vs, B * i + r) = B * ((i - low) + pp) + r
<1> DEFINE B == BlockPages
           E == Entries
           vs == InitHypBootVspace32(B * low, B * pp)
           l1 == Level(GiB, 4)
           l2 == Level(B, E)
           E2(va) == Second(vs, "_lpae_boot_pgd", l1, l2, va)
<1>1. B \in Nat \ {0} /\ E \in Nat \ {0} /\ Word32 \in Nat \ {0}
  BY Spans
<1>0. B \in Positive /\ E \in Positive
  BY Spans DEF Positive
<1>2. ASSUME NEW i \in 0 .. 4 * E - 1, NEW r \in 0 .. B - 1
      PROVE  /\ E2(B * i + r) = vs._lpae_boot_pmd[i]
             /\ Walk("arm32hyp", vs, B * i + r) = Framed(E2(B * i + r), l2, B * i + r)
  <2> DEFINE va == B * i + r
             g == i \div E
             h == i % E
  <2>1. i \in Nat /\ g \in 0..3 /\ h \in 0 .. E - 1 /\ g * E + h = i
    <3>1. i \in Nat /\ i < 4 * E
      BY <1>1
    <3>2. g \in Nat /\ h \in 0 .. E - 1 /\ i = E * g + h
      BY <1>1, <3>1, Split
    <3>3. ~(4 <= g)
      <4>1. 4 <= g => E * 4 <= E * g
        BY <1>1, <3>2, Times
      <4>2. E * g \in Nat
        BY <1>1, <3>2, Times
      <4> HIDE DEF g, h
      <4> QED BY <1>1, <3>1, <3>2, <4>1, <4>2
    <3>4. g * E = E * g
      BY <1>1, <3>2
    <3> HIDE DEF g, h
    <3> QED BY <3>1, <3>2, <3>3, <3>4
  <2>2. Slot(l1, va) = g
    <3>1. Slot(Level(E * B, 4), va) = g % 4
      BY <1>0, <2>1, SlotAbove
    <3>2. g % 4 = g
      <4> HIDE DEF g
      <4> QED BY <2>1
    <3> QED BY <3>1, <3>2 DEF GiB
  <2>3. Slot(l2, va) = h
    <3>1. (B * i + r) \div B = i
      BY <1>1, <2>1, Unsplit
    <3>2. va \div B = i
      BY <3>1
    <3> QED BY <3>2 DEF Slot, Level
  <2>4. First(vs, "_lpae_boot_pgd", l1, va) = TableAt("_lpae_boot_pmd", g * E)
    <3>1. vs._lpae_boot_pgd[g] = TableAt("_lpae_boot_pmd", g * E)
      BY <2>1 DEF InitHypBootVspace32
    <3> HIDE DEF vs, l1, va, g
    <3> QED BY <2>1, <2>2, <3>1 DEF First, Below, TableAt
  <2> HIDE DEF vs, l1, l2, va, g, h
  <2>5. E2(va) = vs._lpae_boot_pmd[i]
    BY <2>1, <2>3, <2>4 DEF Second, Below, TableAt
  <2>6. Walk("arm32hyp", vs, va) = Translate(vs, "_lpae_boot_pgd", <<l1, l2>>, va)
    BY DEF Walk, l1, l2
  <2>7. First(vs, "_lpae_boot_pgd", l1, va).kind = "table"
    BY <2>4 DEF TableAt
  <2>8. Walk("arm32hyp", vs, va) = Framed(E2(va), l2, va)
    BY <2>6, <2>7, TwoLevelWalks
  <2> QED BY <2>5, <2>8 DEF va
<1>3. ASSUME NEW i \in 0 .. low - 1, NEW r \in 0 .. B - 1
      PROVE  Walk("arm32hyp", vs, B * i + r) = B * i + r
  <2>1. i \in 0 .. 4 * E - 1 /\ i < low /\ i \in Nat
    BY <1>1
  <2>2. E2(B * i + r) = Leaf(B * i)
    BY <1>2, <2>1, PmdArm32Hyp
  <2> HIDE DEF B, vs
  <2>3. Framed(Leaf(B * i), l2, B * i + r) = B * i + r
    BY <1>0, <2>1, LeafFramed
  <2> HIDE DEF l2, E2
  <2> QED BY <1>2, <2>1, <2>2, <2>3
<1>4. ASSUME NEW i \in low .. 4 * E - 1, NEW r \in 0 .. B - 1,
             B * ((i - low) + pp) + r < Word32
      PROVE  Walk("arm32hyp", vs, B * i + r) = B * ((i - low) + pp) + r
  <2> DEFINE q == (i - low) + pp
             a == B * q
  <2>1. i \in 0 .. 4 * E - 1 /\ low <= i /\ i \in Nat /\ q \in Nat
    BY <1>1
  <2>2. E2(B * i + r) = Leaf(a % Word32)
    BY <1>2, <2>1, PmdArm32Hyp
  <2>3. a % Word32 = a
    <3>1. a \in Nat /\ a + r < Word32
      BY <1>1, <1>4, <2>1, Times
    <3> HIDE DEF a, B
    <3> QED BY <1>1, <3>1
  <2>0. q \in Nat /\ i \in Nat
    BY <2>1
  <2> HIDE DEF B, vs, q
  <2>4. Framed(Leaf(a), l2, B * i + r) = a + r
    <3>1. Framed(Leaf(B * q), Level(B, E), B * i + r) = B * q + r
      <4>1. B \in Positive /\ q \in Nat /\ i \in Nat /\ r \in 0 .. B - 1
        BY <1>0, <2>0
      <4> QED BY <4>1, LeafFramed
    <3> QED BY <3>1
  <2> HIDE DEF l2, E2, a
  <2>5. Walk("arm32hyp", vs, B * i + r) = a + r
    BY <1>2, <2>1, <2>2, <2>3, <2>4
  <2> QED BY <2>5 DEF a, q
<1> QED BY <1>3, <1>4

(* AArch64 and Sv39: page r of block h of GiB g.                           *)
GibAt(g) == GiB * g
BlockAt(j) == BlockPages * j
PageAt(g, h, r) == GiB * g + (BlockPages * h + r)
PgdSlot(va) == Slot(Level(GiB * Entries, Entries), va)
PudSlot(va) == Slot(Level(GiB, Entries), va)
PmdSlot(va) == Slot(Level(BlockPages, Entries), va)

(* The index macros of AArch64 are the slots of their levels.              *)
LEMMA Indices ==
  ASSUME NEW va
  PROVE  /\ GET_PGD_INDEX(va) = PgdSlot(va) /\ GET_PUD_INDEX(va) = PudSlot(va)
         /\ GET_PMD_INDEX(va) = PmdSlot(va)
BY DEF GET_PGD_INDEX, GET_PUD_INDEX, GET_PMD_INDEX, PgdSlot, PudSlot, PmdSlot, Slot, Level

(* A page of a block of a GiB is in that GiB.                              *)
LEMMA InGib ==
  ASSUME NEW h \in 0 .. Entries - 1, NEW r \in 0 .. BlockPages - 1
  PROVE  BlockPages * h + r \in 0 .. GiB - 1
<1>1. h \in Nat /\ h < Entries /\ BlockPages \in Nat \ {0} /\ Entries \in Nat
  BY Spans
<1>2. BlockPages * h \in Nat /\ BlockPages * h + BlockPages <= BlockPages * Entries
  BY <1>1, Times
<1>3. GiB = BlockPages * Entries /\ GiB \in Nat
  BY Spans
<1> DEFINE x == BlockPages * h
           y == BlockPages * Entries
<1>4. x \in Nat /\ x + BlockPages <= y /\ y \in Nat /\ GiB = y
  BY <1>2, <1>3
<1> HIDE DEF x, y
<1>5. x + r \in 0 .. GiB - 1
  BY <1>1, <1>4
<1> QED BY <1>5 DEF x

(* Every page is a page of a block of a GiB.                               *)
LEMMA PagesSplit ==
  ASSUME NEW a \in Nat
  PROVE  \E g \in Nat, h \in 0 .. Entries - 1, r \in 0 .. BlockPages - 1 : a = PageAt(g, h, r)
<1> DEFINE g == a \div GiB
           z == a % GiB
           h == z \div BlockPages
           r == z % BlockPages
<1>1. GiB \in Nat \ {0} /\ BlockPages \in Nat \ {0} /\ Entries \in Nat /\ GiB = BlockPages * Entries
  BY Spans
<1>2. g \in Nat /\ z \in 0 .. GiB - 1 /\ a = GiB * g + z
  BY <1>1, Split
<1> HIDE DEF g, z
<1>3. z \in Nat
  BY <1>1, <1>2
<1>4. h \in Nat /\ r \in 0 .. BlockPages - 1 /\ z = BlockPages * h + r
  BY <1>1, <1>3, Split
<1> HIDE DEF h, r
<1>5. h \in 0 .. Entries - 1
  <2>1. Entries <= h => BlockPages * Entries <= BlockPages * h
    BY <1>1, <1>4, Times
  <2>2. BlockPages * h \in Nat
    BY <1>1, <1>4, Times
  <2> QED BY <1>1, <1>2, <1>4, <2>1, <2>2
<1>6. a = PageAt(g, h, r)
  BY <1>2, <1>4 DEF PageAt
<1> QED BY <1>2, <1>4, <1>5, <1>6

(* The number of a page, by its block and by its GiB.                      *)
LEMMA PagePlace ==
  ASSUME NEW g \in Nat, NEW h \in 0 .. Entries - 1, NEW r \in 0 .. BlockPages - 1
  PROVE  /\ PageAt(g, h, r) = BlockPages * (Entries * g + h) + r
         /\ PageAt(g, h, r) \div GiB = g
<1> DEFINE z == BlockPages * h + r
<1>1. /\ GiB \in Nat \ {0} /\ BlockPages \in Nat \ {0} /\ Entries \in Nat \ {0}
      /\ GiB = BlockPages * Entries
  BY Spans
<1>2. z \in 0 .. GiB - 1
  BY InGib
<1>3. PageAt(g, h, r) = BlockPages * (Entries * g + h) + r
  <2>1. h \in Nat /\ Entries * g \in Nat
    BY <1>1, Times
  <2>2. BlockPages * (Entries * g + h) = BlockPages * (Entries * g) + BlockPages * h
    BY <1>1, <2>1, Times
  <2>3. BlockPages * (Entries * g) = (BlockPages * Entries) * g
    BY <1>1, Times
  <2>4. BlockPages * (Entries * g) \in Nat /\ BlockPages * h \in Nat
    BY <1>1, <2>1, Times
  <2> DEFINE x == BlockPages * (Entries * g)
             y == BlockPages * h
  <2>5. PageAt(g, h, r) = x + (y + r)
    BY <1>1, <2>3 DEF PageAt
  <2>6. x \in Nat /\ y \in Nat /\ BlockPages * (Entries * g + h) = x + y
    BY <2>2, <2>4
  <2> HIDE DEF x, y
  <2> QED BY <2>5, <2>6
<1>4. PageAt(g, h, r) = GiB * g + z
  BY DEF PageAt
<1> HIDE DEF z
<1>5. PageAt(g, h, r) \div GiB = g
  <2>1. (GiB * g + z) \div GiB = g
    BY <1>1, <1>2, Unsplit
  <2> QED BY <1>4, <2>1
<1> QED BY <1>3, <1>5

(* A page's GiB and block are its slots in the three tables.               *)
LEMMA PageSlots ==
  ASSUME NEW g \in Nat, NEW h \in 0 .. Entries - 1, NEW r \in 0 .. BlockPages - 1
  PROVE  /\ PgdSlot(PageAt(g, h, r)) = (g \div Entries) % Entries
         /\ PudSlot(PageAt(g, h, r)) = g % Entries
         /\ PmdSlot(PageAt(g, h, r)) = h
<1> DEFINE z == BlockPages * h + r
           j == Entries * g + h
<1>1. GiB \in Nat \ {0} /\ BlockPages \in Nat \ {0} /\ Entries \in Nat \ {0}
  BY Spans
<1>2. PudSlot(PageAt(g, h, r)) = g % Entries
  BY PagePlace DEF PudSlot, Slot, Level
<1>3. PgdSlot(PageAt(g, h, r)) = (g \div Entries) % Entries
  <2>1. GiB \in Positive /\ Entries \in Positive /\ z \in 0 .. GiB - 1
    BY <1>1, InGib DEF Positive
  <2>2. PageAt(g, h, r) = GiB * g + z
    BY DEF PageAt
  <2> HIDE DEF z
  <2>3. Slot(Level(Entries * GiB, Entries), GiB * g + z) = (g \div Entries) % Entries
    BY <2>1, SlotAbove, ZenonT(30)
  <2>4. Entries * GiB = GiB * Entries
    BY <1>1
  <2> QED BY <2>2, <2>3, <2>4 DEF PgdSlot
<1>4. PmdSlot(PageAt(g, h, r)) = h
  <2>1. j \in Nat /\ j % Entries = h
    BY <1>1, Times, Unsplit
  <2>2. PageAt(g, h, r) = BlockPages * j + r
    BY PagePlace
  <2> HIDE DEF j
  <2>3. PageAt(g, h, r) \div BlockPages = j
    BY <1>1, <2>1, <2>2, Unsplit
  <2> QED BY <2>1, <2>3 DEF PmdSlot, Slot, Level
<1> QED BY <1>2, <1>3, <1>4

(* Pages of a window from block m of GiB k to the end of this GiB, and the *)
(* pages of the first n GiB.                                               *)
LEMMA InWindow ==
  ASSUME NEW k \in Nat, NEW m \in 0 .. Entries - 1, NEW a \in PageAt(k, m, 0) .. (k + 1) * GiB - 1
  PROVE  \E h \in m .. Entries - 1, r \in 0 .. BlockPages - 1 :
           /\ a = PageAt(k, h, r)
           /\ a - PageAt(k, m, 0) = BlockPages * (h - m) + r
<1>1. /\ GiB \in Nat \ {0} /\ BlockPages \in Nat \ {0} /\ Entries \in Nat \ {0}
  BY Spans
<1>2. BlockPages * m \in Nat /\ GiB * k \in Nat /\ m \in Nat
  BY <1>1, Times
<1>3. (k + 1) * GiB = GiB * k + GiB
  BY <1>1
<1> DEFINE x == GiB * k
<1>4. a \in Nat /\ x \in Nat /\ x <= a /\ a < x + GiB
  <2> DEFINE y == BlockPages * m
  <2>1. a \in x + (y + 0) .. (x + GiB) - 1 /\ x \in Nat /\ y \in Nat
    BY <1>2, <1>3 DEF PageAt
  <2> HIDE DEF x, y
  <2> QED BY <1>1, <2>1
<1>5. a - x \in 0 .. GiB - 1 /\ a = x + (a - x)
  <2> HIDE DEF x
  <2> QED BY <1>1, <1>4
<1>6. a \div GiB = k
  <2>1. (GiB * k + (a - x)) \div GiB = k
    <3> HIDE DEF x
    <3> QED BY <1>1, <1>5, Unsplit
  <2> QED BY <1>5, <2>1
<1>7. PICK g \in Nat, h \in 0 .. Entries - 1, r \in 0 .. BlockPages - 1 : a = PageAt(g, h, r)
  BY <1>4, PagesSplit
<1>8. g = k
  BY <1>6, <1>7, PagePlace
<1>9. h \in Nat /\ BlockPages * h \in Nat
  BY <1>1, Times
<1>10. m <= h /\ a - PageAt(k, m, 0) = BlockPages * (h - m) + r
  <2> DEFINE y == BlockPages * m
             z == BlockPages * h
  <2>1. a = x + (z + r) /\ PageAt(k, m, 0) = x + (y + 0)
    BY <1>7, <1>8 DEF PageAt
  <2>2. m <= h => BlockPages * (h - m) = z - y
    BY <1>1, <1>2, <1>9, Times
  <2>3. h < m => z + BlockPages <= y
    BY <1>1, <1>2, <1>9, Times
  <2>4. x + (y + 0) <= a /\ y \in Nat /\ z \in Nat
    BY <1>2, <1>9, <2>1
  <2> HIDE DEF x, y, z
  <2>5. m <= h
    BY <1>1, <1>2, <1>4, <1>9, <2>1, <2>3, <2>4
  <2>6. a - PageAt(k, m, 0) = (z - y) + r
    BY <1>1, <1>4, <2>1, <2>4
  <2> QED BY <2>2, <2>5, <2>6
<1>11. h \in m .. Entries - 1
  BY <1>1, <1>2, <1>10
<1> QED BY <1>7, <1>8, <1>10, <1>11

(* A page below n GiB is in one of the first n.                            *)
LEMMA BelowGib ==
  ASSUME NEW n \in Nat, NEW a \in 0 .. n * GiB - 1
  PROVE  \E g \in 0 .. n - 1, h \in 0 .. Entries - 1, r \in 0 .. BlockPages - 1 :
           a = PageAt(g, h, r)
<1>1. GiB \in Nat \ {0} /\ BlockPages \in Nat \ {0} /\ Entries \in Nat \ {0} /\ n * GiB = GiB * n
  BY Spans
<1>2. GiB * n \in Nat
  BY <1>1, Times
<1>3. a \in Nat /\ a < GiB * n
  BY <1>1, <1>2
<1>4. PICK g \in Nat, h \in 0 .. Entries - 1, r \in 0 .. BlockPages - 1 : a = PageAt(g, h, r)
  BY <1>3, PagesSplit
<1>5. g < n
  <2> DEFINE z == BlockPages * h + r
  <2>1. z \in 0 .. GiB - 1
    BY InGib
  <2>2. a = GiB * g + z
    BY <1>4 DEF PageAt
  <2>3. n <= g => GiB * n <= GiB * g
    BY <1>1, Times
  <2>4. GiB * g \in Nat
    BY <1>1, Times
  <2> DEFINE x == GiB * n
             y == GiB * g
  <2>5. a < x /\ a = y + z /\ (n <= g => x <= y) /\ y \in Nat /\ x \in Nat
    BY <1>2, <1>3, <2>2, <2>3, <2>4
  <2> HIDE DEF x, y, z
  <2>6. ~(x <= y)
    BY <2>1, <2>5
  <2> QED BY <2>5, <2>6
<1>6. g \in 0 .. n - 1
  BY <1>5
<1> QED BY <1>4, <1>6

(* Leaves of a GiB and of a block.                                         *)
LEMMA GibFramed ==
  ASSUME NEW fan, NEW q \in Nat, NEW g \in Nat,
         NEW h \in 0 .. Entries - 1, NEW r \in 0 .. BlockPages - 1
  PROVE  Framed(Leaf(GibAt(q)), Level(GiB, fan), PageAt(g, h, r)) = PageAt(q, h, r)
<1> DEFINE z == BlockPages * h + r
<1>1. GiB \in Positive /\ z \in 0 .. GiB - 1
  BY InGib, Spans DEF Positive
<1>2. PageAt(g, h, r) = GiB * g + z /\ PageAt(q, h, r) = GiB * q + z
  BY DEF PageAt
<1> HIDE DEF z
<1>3. Framed(Leaf(GiB * q), Level(GiB, fan), GiB * g + z) = GiB * q + z
  BY <1>1, LeafFramed
<1> QED BY <1>2, <1>3 DEF GibAt

(* A leaf for a block adds the page's offset in the block.                 *)
LEMMA BlockFramed ==
  ASSUME NEW fan, NEW q \in Nat, NEW g \in Nat,
         NEW h \in 0 .. Entries - 1, NEW r \in 0 .. BlockPages - 1
  PROVE  Framed(Leaf(BlockAt(q)), Level(BlockPages, fan), PageAt(g, h, r)) = BlockAt(q) + r
<1> DEFINE j == Entries * g + h
<1>1. BlockPages \in Positive /\ j \in Nat
  BY Times, Spans DEF Positive
<1>2. PageAt(g, h, r) = BlockPages * j + r
  BY PagePlace
<1> HIDE DEF j
<1>3. Framed(Leaf(BlockPages * q), Level(BlockPages, fan), BlockPages * j + r) = BlockPages * q + r
  BY <1>1, LeafFramed
<1> QED BY <1>2, <1>3 DEF BlockAt

(* The entry found at each level of the walk from the PGD.                 *)
PudEntry(vs, root, pud, g, e) ==
  vs[root][(g \div Entries) % Entries] = TableAt(pud, 0) /\ vs[pud][g % Entries] = e
PmdEntry(vs, root, pud, pmd, g, h, e) ==
  PudEntry(vs, root, pud, g, TableAt(pmd, 0)) /\ vs[pmd][h] = e

(* A walk through the PUD meets the entry of the page's GiB.               *)
LEMMA PudWalk ==
  ASSUME NEW vs, NEW root, NEW pud, NEW e,
         NEW g \in Nat, NEW h \in 0 .. Entries - 1, NEW r \in 0 .. BlockPages - 1,
         PudEntry(vs, root, pud, g, e)
  PROVE  LET va == PageAt(g, h, r)
             l1 == Level(GiB * Entries, Entries)
             l2 == Level(GiB, Entries)
         IN First(vs, root, l1, va) = TableAt(pud, 0) /\ Second(vs, root, l1, l2, va) = e
<1> DEFINE va == PageAt(g, h, r)
           l1 == Level(GiB * Entries, Entries)
           l2 == Level(GiB, Entries)
           s1 == (g \div Entries) % Entries
           s2 == g % Entries
<1>1. s1 \in Nat /\ s2 \in Nat
  <2>1. Entries \in Nat \ {0}
    BY Spans
  <2>2. g \div Entries \in Nat
    BY <2>1
  <2> QED BY <2>1, <2>2
<1>2. Slot(l1, va) = s1 /\ Slot(l2, va) = s2
  BY PageSlots DEF PgdSlot, PudSlot
<1>3. vs[root][s1] = TableAt(pud, 0) /\ vs[pud][s2] = e
  BY DEF PudEntry
<1> HIDE DEF va, l1, l2, s1, s2
<1>4. First(vs, root, l1, va) = TableAt(pud, 0)
  BY <1>1, <1>2, <1>3 DEF First, Below, TableAt
<1>5. Second(vs, root, l1, l2, va) = e
  BY <1>1, <1>2, <1>3, <1>4 DEF Second, Below, TableAt
<1> QED BY <1>4, <1>5 DEF va, l1, l2

(* A leaf in the PUD ends the walk at the page of its GiB.                 *)
LEMMA PudLeafWalk ==
  ASSUME NEW vs, NEW root, NEW pud, NEW x,
         NEW g \in Nat, NEW h \in 0 .. Entries - 1, NEW r \in 0 .. BlockPages - 1,
         PudEntry(vs, root, pud, g, Leaf(x))
  PROVE  Translate(vs, root, Aarch64Levels, PageAt(g, h, r))
           = Framed(Leaf(x), Level(GiB, Entries), PageAt(g, h, r))
<1> DEFINE va == PageAt(g, h, r)
           l1 == Level(GiB * Entries, Entries)
           l2 == Level(GiB, Entries)
           l3 == Level(BlockPages, Entries)
<1>1. First(vs, root, l1, va) = TableAt(pud, 0) /\ Second(vs, root, l1, l2, va) = Leaf(x)
  BY PudWalk
<1>2. Translate(vs, root, Aarch64Levels, va) = Translate(vs, root, <<l1, l2, l3>>, va)
  BY DEF Aarch64Levels
<1> HIDE DEF va, l1, l2, l3
<1>3. First(vs, root, l1, va).kind = "table" /\ Second(vs, root, l1, l2, va).kind = "leaf"
  BY <1>1 DEF TableAt, Leaf
<1>4. Translate(vs, root, <<l1, l2, l3>>, va) = Framed(Second(vs, root, l1, l2, va), l2, va)
  BY <1>3, ThreeLevelWalks
<1> QED BY <1>1, <1>2, <1>4 DEF va, l2

(* A leaf in the PMD ends the walk at the page of its block.               *)
LEMMA PmdLeafWalk ==
  ASSUME NEW vs, NEW root, NEW pud, NEW pmd, NEW x,
         NEW g \in Nat, NEW h \in 0 .. Entries - 1, NEW r \in 0 .. BlockPages - 1,
         PmdEntry(vs, root, pud, pmd, g, h, Leaf(x))
  PROVE  Translate(vs, root, Aarch64Levels, PageAt(g, h, r))
           = Framed(Leaf(x), Level(BlockPages, Entries), PageAt(g, h, r))
<1> DEFINE va == PageAt(g, h, r)
           l1 == Level(GiB * Entries, Entries)
           l2 == Level(GiB, Entries)
           l3 == Level(BlockPages, Entries)
<1>0. PudEntry(vs, root, pud, g, TableAt(pmd, 0)) /\ vs[pmd][h] = Leaf(x)
  BY DEF PmdEntry
<1>1. First(vs, root, l1, va) = TableAt(pud, 0) /\ Second(vs, root, l1, l2, va) = TableAt(pmd, 0)
  BY <1>0, PudWalk
<1>2. Translate(vs, root, Aarch64Levels, va) = Translate(vs, root, <<l1, l2, l3>>, va)
  BY DEF Aarch64Levels
<1>3. Slot(l3, va) = h /\ h \in Nat
  BY PageSlots DEF PmdSlot
<1> HIDE DEF va, l1, l2, l3
<1>4. First(vs, root, l1, va).kind = "table" /\ Second(vs, root, l1, l2, va).kind = "table"
  BY <1>1 DEF TableAt
<1>5. Translate(vs, root, <<l1, l2, l3>>, va) = Framed(Third(vs, root, l1, l2, l3, va), l3, va)
  BY <1>4, ThreeLevelWalks
<1>6. Third(vs, root, l1, l2, l3, va) = Leaf(x)
  BY <1>0, <1>1, <1>3 DEF Third, Below, TableAt
<1> QED BY <1>2, <1>5, <1>6 DEF va, l3

(* The one-to-one mapping of AArch64, by its first PGD entry.              *)
LEMMA DownWalk ==
  ASSUME NEW vs, vs._boot_pgd_down[0] = TableAt("_boot_pud_down", 0),
         vs._boot_pud_down = IdentityPud,
         NEW g \in 0 .. Entries - 1, NEW h \in 0 .. Entries - 1, NEW r \in 0 .. BlockPages - 1
  PROVE  Translate(vs, "_boot_pgd_down", Aarch64Levels, PageAt(g, h, r)) = PageAt(g, h, r)
<1>1. Entries \in Nat \ {0} /\ GiB \in Nat \ {0} /\ g \in Nat
  BY Spans
<1>2. (g \div Entries) % Entries = 0 /\ g % Entries = g
  <2>1. (Entries * 0 + g) \div Entries = 0 /\ Entries * 0 + g = g
    BY <1>1, Unsplit
  <2> QED BY <1>1, <2>1
<1>3. vs["_boot_pgd_down"][(g \div Entries) % Entries] = TableAt("_boot_pud_down", 0)
  BY <1>2
<1>4. vs["_boot_pud_down"][g % Entries] = Leaf(GibAt(g))
  <2>1. g * GiB = GibAt(g)
    BY <1>1 DEF GibAt
  <2>2. IdentityPud[g] = Leaf(g * GiB)
    BY DEF IdentityPud
  <2> QED BY <1>2, <2>1, <2>2
<1>5. Translate(vs, "_boot_pgd_down", Aarch64Levels, PageAt(g, h, r))
        = Framed(Leaf(GibAt(g)), Level(GiB, Entries), PageAt(g, h, r))
  <2>1. PudEntry(vs, "_boot_pgd_down", "_boot_pud_down", g, Leaf(GibAt(g)))
    BY <1>3, <1>4 DEF PudEntry
  <2> QED BY <1>1, <2>1, PudLeafWalk
<1> QED BY <1>1, <1>5, GibFramed

(* AArch64: k is the kernel's GiB, in TTBR1's half.                        *)
LEMMA WalkArm64 ==
  ASSUME NEW k \in Nat, Entries * Entries <= k, NEW pp \in Nat,
         NEW h \in 0 .. Entries - 1, NEW r \in 0 .. BlockPages - 1
  PROVE  LET vs == InitBootVspace64(PageAt(k, 0, 0), BlockAt(pp))
         IN /\ Walk("arm64", vs, PageAt(k, h, r)) = BlockAt(h + pp) + r
            /\ \A g \in 0 .. Entries - 1 : Walk("arm64", vs, PageAt(g, h, r)) = PageAt(g, h, r)
<1> DEFINE v == PageAt(k, 0, 0)
           p == BlockAt(pp)
           vs == InitBootVspace64(v, p)
           B == BlockPages
           E == Entries
<1>1. B \in Nat \ {0} /\ E \in Nat \ {0} /\ GiB \in Nat \ {0}
  BY Spans
<1>2. GET_PGD_INDEX(v) = (k \div E) % E /\ GET_PUD_INDEX(v) = k % E
  <2>1. 0 \in 0 .. E - 1 /\ 0 \in 0 .. B - 1
    BY <1>1
  <2> QED BY <2>1, Indices, PageSlots
<1>3. (k \div E) % E \in 0 .. E - 1 /\ k % E \in 0 .. E - 1
  <2>1. k \div E \in Nat
    BY <1>1
  <2> QED BY <1>1, <2>1
<1>4. /\ vs._boot_pgd_down[0] = TableAt("_boot_pud_down", 0) /\ vs._boot_pud_down = IdentityPud
      /\ vs["_boot_pgd_up"][(k \div E) % E] = TableAt("_boot_pud_up", 0)
      /\ vs["_boot_pud_up"][k % E] = TableAt("_boot_pmd_up", 0)
      /\ vs["_boot_pmd_up"][h] = Leaf(h * B + p)
  <2> HIDE DEF v, p
  <2> QED BY <1>1, <1>2, <1>3 DEF InitBootVspace64, Only
<1>5. h * B + p = BlockAt(h + pp) /\ h + pp \in Nat
  BY <1>1, Times DEF BlockAt
<1>6. GiB * E * E = GiB * (E * E) /\ GiB * (E * E) <= GiB * k /\ GiB * k \in Nat /\ GiB * (E * E) \in Nat
  <2>1. E * E \in Nat
    BY <1>1
  <2>2. GiB * (E * E) <= GiB * k /\ GiB * k \in Nat /\ GiB * (E * E) \in Nat
    BY <1>1, <2>1, Times
  <2> QED BY <1>1, <2>2, Times
<1>7. Walk("arm64", vs, PageAt(k, h, r)) = BlockAt(h + pp) + r
  <2> DEFINE va == PageAt(k, h, r)
  <2>1. ~(va < Half64)
    <3> DEFINE x == GiB * k
               y == GiB * (E * E)
               z == B * h + r
    <3>1. z \in 0 .. GiB - 1
      BY InGib
    <3>2. va = x + z /\ Half64 = y /\ y <= x /\ x \in Nat /\ y \in Nat
      BY <1>6 DEF PageAt, Half64
    <3> HIDE DEF x, y, z, va
    <3> QED BY <1>1, <3>1, <3>2
  <2>2. Walk("arm64", vs, va) = Translate(vs, "_boot_pgd_up", Aarch64Levels, va)
    <3> HIDE DEF vs, va
    <3> QED BY <2>1 DEF Walk
  <2> HIDE DEF vs, v, p
  <2>3. Translate(vs, "_boot_pgd_up", Aarch64Levels, va)
          = Framed(Leaf(h * B + p), Level(B, E), va)
    <3>1. PmdEntry(vs, "_boot_pgd_up", "_boot_pud_up", "_boot_pmd_up", k, h, Leaf(h * B + p))
      BY <1>4 DEF PmdEntry, PudEntry
    <3> QED BY <3>1, PmdLeafWalk
  <2>4. Framed(Leaf(BlockAt(h + pp)), Level(B, E), va) = BlockAt(h + pp) + r
    BY <1>5, BlockFramed
  <2> QED BY <1>5, <2>2, <2>3, <2>4
<1>8. ASSUME NEW g \in 0 .. E - 1
      PROVE  Walk("arm64", vs, PageAt(g, h, r)) = PageAt(g, h, r)
  <2> DEFINE va == PageAt(g, h, r)
  <2>1. va < Half64
    <3> DEFINE x == GiB * g
               y == GiB * (E * E)
               z == B * h + r
    <3>1. z \in 0 .. GiB - 1 /\ g \in Nat
      BY InGib
    <3>2. x + GiB <= y
      <4>1. E * 1 <= E * E /\ E * 1 = E
        <5>1. 1 <= E
          BY <1>1
        <5>2. 1 \in Nat /\ E \in Nat
          BY <1>1
        <5> QED BY <1>1, <5>1, <5>2, Times
      <4>2. g < E * E /\ E * E \in Nat
        <5> DEFINE n == E * E
        <5>1. E <= n /\ n \in Nat
          BY <1>1, <4>1
        <5> HIDE DEF n
        <5>2. g < n /\ n \in Nat
          BY <1>1, <5>1
        <5> QED BY <5>2 DEF n
      <4> QED BY <1>1, <3>1, <4>2, Times
    <3>3. va = x + z /\ Half64 = y /\ x \in Nat /\ y \in Nat
      BY <1>1, <1>6, <3>1, Times DEF PageAt, Half64
    <3> HIDE DEF x, y, z, va
    <3> QED BY <1>1, <3>1, <3>2, <3>3
  <2>2. Walk("arm64", vs, va) = Translate(vs, "_boot_pgd_down", Aarch64Levels, va)
    <3> HIDE DEF vs, va
    <3> QED BY <2>1 DEF Walk
  <2> HIDE DEF vs
  <2> QED BY <1>4, <2>2, DownWalk
<1> QED BY <1>7, <1>8

(* AArch64 at EL2: block m of GiB k is the kernel's first.                 *)
LEMMA WalkArm64Hyp ==
  ASSUME NEW k \in Nat, (k \div Entries) % Entries # 0, NEW m \in 0 .. Entries - 1, NEW pp \in Nat,
         NEW h \in 0 .. Entries - 1, NEW r \in 0 .. BlockPages - 1
  PROVE  LET vs == InitHypBootVspace64(PageAt(k, m, 0), BlockAt(pp))
         IN /\ m <= h => Walk("arm64hyp", vs, PageAt(k, h, r)) = BlockAt((h - m) + pp) + r
            /\ \A g \in 0 .. Entries - 1 : Walk("arm64hyp", vs, PageAt(g, h, r)) = PageAt(g, h, r)
<1> DEFINE v == PageAt(k, m, 0)
           p == BlockAt(pp)
           vs == InitHypBootVspace64(v, p)
           B == BlockPages
           E == Entries
           s1 == (k \div E) % E
<1>1. B \in Nat \ {0} /\ E \in Nat \ {0} /\ GiB \in Nat \ {0} /\ h \in Nat /\ m \in Nat
  BY Spans
<1>2. GET_PGD_INDEX(v) = s1 /\ GET_PUD_INDEX(v) = k % E /\ GET_PMD_INDEX(v) = m
  <2>1. 0 \in 0 .. B - 1
    BY <1>1
  <2> QED BY <2>1, Indices, PageSlots
<1>3. s1 \in 0 .. E - 1 /\ k % E \in 0 .. E - 1 /\ s1 # 0
  <2>1. k \div E \in Nat
    BY <1>1
  <2> QED BY <1>1, <2>1
<1>4. /\ vs._boot_pgd_down[0] = TableAt("_boot_pud_down", 0) /\ vs._boot_pud_down = IdentityPud
      /\ vs["_boot_pgd_down"][s1] = TableAt("_boot_pud_up", 0)
      /\ vs["_boot_pud_up"][k % E] = TableAt("_boot_pmd_up", 0)
      /\ m <= h => vs["_boot_pmd_up"][h] = Leaf((h - m) * B + p)
  <2> HIDE DEF v, p, s1
  <2> QED BY <1>1, <1>2, <1>3 DEF InitHypBootVspace64, Only
<1>5. m <= h => (h - m) * B + p = BlockAt((h - m) + pp) /\ (h - m) + pp \in Nat
  <2>1. m <= h => h - m \in Nat
    BY <1>1
  <2> QED BY <1>1, <2>1, Shifts DEF BlockAt
<1>6. ASSUME NEW a
      PROVE  Walk("arm64hyp", vs, a) = Translate(vs, "_boot_pgd_down", Aarch64Levels, a)
  <2> HIDE DEF vs
  <2> QED BY DEF Walk
<1>7. ASSUME m <= h
      PROVE  Walk("arm64hyp", vs, PageAt(k, h, r)) = BlockAt((h - m) + pp) + r
  <2> DEFINE va == PageAt(k, h, r)
             x == (h - m) * B + p
             q == (h - m) + pp
  <2>1. x = BlockAt(q) /\ q \in Nat
    BY <1>5, <1>7
  <2>2. vs["_boot_pmd_up"][h] = Leaf(x)
    BY <1>4, <1>7
  <2> HIDE DEF vs, v, p, x, q
  <2>3. PmdEntry(vs, "_boot_pgd_down", "_boot_pud_up", "_boot_pmd_up", k, h, Leaf(x))
    BY <1>4, <2>2 DEF PmdEntry, PudEntry
  <2>4. Translate(vs, "_boot_pgd_down", Aarch64Levels, va) = Framed(Leaf(x), Level(B, E), va)
    BY <2>3, PmdLeafWalk
  <2>5. Framed(Leaf(BlockAt(q)), Level(B, E), va) = BlockAt(q) + r
    BY <2>1, BlockFramed
  <2> QED BY <1>6, <2>1, <2>4, <2>5 DEF q
<1>8. ASSUME NEW g \in 0 .. E - 1
      PROVE  Walk("arm64hyp", vs, PageAt(g, h, r)) = PageAt(g, h, r)
  <2> HIDE DEF vs
  <2> QED BY <1>4, <1>6, DownWalk
<1> QED BY <1>7, <1>8

(* Sv39, where the window is of whole GiB: k is the kernel's, in the last  *)
(* two, and pg the one it is loaded in.                                    *)
LEMMA WalkSv39Gib ==
  ASSUME NEW k \in Entries - 2 .. Entries - 1, NEW pg \in Nat,
         NEW g \in 0 .. Entries - 1, NEW h \in 0 .. Entries - 1, NEW r \in 0 .. BlockPages - 1
  PROVE  LET vs == MapKernelWindow39(GibAt(k), GibAt(pg))
         IN /\ k <= g => Walk("sv39", vs, PageAt(g, h, r)) = PageAt((g - k) + pg, h, r)
            /\ g < CastGiB => Walk("sv39", vs, PageAt(g, h, r)) = PageAt(g, h, r)
<1> DEFINE v == GibAt(k)
           p == GibAt(pg)
           vs == MapKernelWindow39(v, p)
           B == BlockPages
           E == Entries
           l1 == Level(GiB, E)
           l2 == Level(B, E)
           va == PageAt(g, h, r)
           Entry(j, a, b) == IF j < k THEN Leaf(a) ELSE Leaf(p + b)
<1>1. /\ E \in Nat \ {0} /\ GiB \in Nat \ {0} /\ k \in Nat /\ g \in Nat /\ k < E /\ g < E
      /\ E > 2 /\ CastGiB \in Nat \ {0} /\ CastGiB <= E - 2 /\ Word32 = GiB * 4
  BY Spans
<1>2. v \div GiB = k /\ v % GiB = 0 /\ p % GiB = 0
  <2>1. 0 \in 0 .. GiB - 1
    BY <1>1
  <2>2. \A n \in Nat : (GiB * n + 0) \div GiB = n /\ (GiB * n + 0) % GiB = 0
    BY <1>1, <2>1, Unsplit
  <2>3. \A n \in Nat : GiB * n + 0 = GibAt(n)
    BY <1>1, Times DEF GibAt
  <2> QED BY <1>1, <2>2, <2>3
<1>3. k % E = k
  BY <1>1
<1>4. vs.l1pt[g] = Entry(g, (g % CastGiB) * GiB, IntShift(g - k, GiB))
  <2>1. VirtPhysAligned(v, p, GiB)
    BY <1>2 DEF VirtPhysAligned
  <2> HIDE DEF v, p
  <2>2. vs.l1pt = [i \in 0 .. E - 1 |-> Entry(i, (i % CastGiB) * GiB, IntShift(i - k, GiB))]
    BY <1>2, <1>3, <2>1 DEF MapKernelWindow39
  <2> HIDE DEF Entry, vs
  <2> QED BY <2>2
<1>5. Slot(l1, va) = g /\ 0 + g = g
  <2>1. PudSlot(va) = g % E
    BY <1>1, PageSlots, Zenon
  <2>2. g % E = g
    BY <1>1
  <2> QED BY <1>1, <2>1, <2>2 DEF PudSlot
<1>6. First(vs, "l1pt", l1, va) = vs.l1pt[g]
  <2> HIDE DEF vs, va, l1
  <2> QED BY <1>5 DEF First, Below, TableAt
<1>7. ASSUME NEW q \in Nat, vs.l1pt[g] = Leaf(GibAt(q))
      PROVE  Walk("sv39", vs, va) = PageAt(q, h, r)
  <2>1. Walk("sv39", vs, va) = Translate(vs, "l1pt", <<l1, l2>>, va)
    <3> HIDE DEF vs, va
    <3> QED BY DEF Walk
  <2>2. Framed(Leaf(GibAt(q)), l1, va) = PageAt(q, h, r)
    BY <1>1, GibFramed
  <2> HIDE DEF vs, va, l1, l2
  <2>3. First(vs, "l1pt", l1, va).kind = "leaf"
    BY <1>6, <1>7 DEF Leaf
  <2>4. Translate(vs, "l1pt", <<l1, l2>>, va) = Framed(First(vs, "l1pt", l1, va), l1, va)
    BY <2>3, TwoLevelWalks
  <2> QED BY <1>6, <1>7, <2>1, <2>2, <2>4
<1>8. ASSUME k <= g
      PROVE  Walk("sv39", vs, va) = PageAt((g - k) + pg, h, r)
  <2>1. g - k \in 0..1
    BY <1>1, <1>8
  <2>2. IntShift(g - k, GiB) = GiB * (g - k)
    <3> DEFINE n == (g - k) * GiB
    <3>1. n \in 0 .. GiB
      BY <1>1, <2>1
    <3>2. n = GiB * (g - k)
      BY <1>1, <2>1
    <3> HIDE DEF n
    <3>3. n % Word32 = n /\ n < Word32 \div 2
      BY <1>1, <3>1
    <3> QED BY <3>2, <3>3 DEF IntShift, n
  <2>3. p + GiB * (g - k) = GibAt((g - k) + pg) /\ (g - k) + pg \in Nat
    <3>1. g - k \in Nat
      BY <2>1
    <3> QED BY <1>1, <3>1, Times DEF GibAt
  <2>4. vs.l1pt[g] = Leaf(GibAt((g - k) + pg))
    <3> HIDE DEF vs, p
    <3> QED BY <1>1, <1>4, <1>8, <2>2, <2>3
  <2> HIDE DEF vs, va
  <2> QED BY <1>7, <2>3, <2>4
<1>9. ASSUME g < CastGiB
      PROVE  Walk("sv39", vs, va) = PageAt(g, h, r)
  <2>1. g < k /\ g % CastGiB = g
    BY <1>1, <1>9
  <2>2. g * GiB = GibAt(g)
    BY <1>1 DEF GibAt
  <2>3. vs.l1pt[g] = Leaf(GibAt(g))
    <3> HIDE DEF vs, p
    <3> QED BY <1>4, <2>1, <2>2
  <2> HIDE DEF vs, va
  <2> QED BY <1>1, <1>7, <2>3
<1> QED BY <1>8, <1>9

(* Sv39, where it is not: block m of GiB k is the kernel's first.          *)
LEMMA WalkSv39Blocks ==
  ASSUME NEW k \in Entries - 2 .. Entries - 1, NEW m \in 0 .. Entries - 1, NEW pp \in Nat,
         ~VirtPhysAligned(PageAt(k, m, 0), BlockAt(pp), GiB),
         NEW h \in 0 .. Entries - 1, NEW r \in 0 .. BlockPages - 1
  PROVE  LET vs == MapKernelWindow39(PageAt(k, m, 0), BlockAt(pp))
         IN /\ m <= h => Walk("sv39", vs, PageAt(k, h, r)) = BlockAt((h - m) + pp) + r
            /\ \A g \in 0 .. CastGiB - 1 : Walk("sv39", vs, PageAt(g, h, r)) = PageAt(g, h, r)
<1> DEFINE v == PageAt(k, m, 0)
           p == BlockAt(pp)
           vs == MapKernelWindow39(v, p)
           B == BlockPages
           E == Entries
           l1 == Level(GiB, E)
           l2 == Level(B, E)
           Identity(i) == Leaf((i % CastGiB) * GiB)
           Window2(i, b) == IF i < m THEN Empty ELSE Leaf(p + b)
<1>1. /\ E \in Nat \ {0} /\ GiB \in Nat \ {0} /\ B \in Nat \ {0} /\ k \in Nat /\ k < E
      /\ E > 2 /\ CastGiB \in Nat \ {0} /\ CastGiB <= E - 2 /\ Word32 = GiB * 4 /\ GiB = B * E
      /\ h \in Nat /\ m \in Nat /\ CastGiB <= k
  BY Spans
<1>2. (v \div GiB) % E = k /\ (v \div B) % E = m /\ v % B = 0 /\ p % B = 0
  <2>0. 0 \in 0 .. B - 1
    BY <1>1
  <2>1. v \div GiB = k /\ v = B * (E * k + m) + 0
    BY <1>1, <2>0, PagePlace
  <2>2. PmdSlot(v) = m
    BY <1>1, <2>0, PageSlots, Zenon
  <2>3. (v \div B) % E = m
    BY <2>2 DEF PmdSlot, Slot, Level
  <2>4. k % E = k
    BY <1>1
  <2>5. \A n \in Nat : (B * n + 0) % B = 0
    BY <1>1, <2>0, Unsplit
  <2>6. E * k + m \in Nat
    BY <1>1, Times
  <2>7. B * pp + 0 = p
    BY <1>1, Times DEF BlockAt
  <2> HIDE DEF v, p
  <2> QED BY <2>1, <2>3, <2>4, <2>5, <2>6, <2>7
<1>3. vs = [l1pt |-> [[i \in 0 .. E - 1 |-> Identity(i)] EXCEPT ![k] = TableAt("l2pt", 0)],
            l2pt |-> [i \in 0 .. E - 1 |-> Window2(i, IntShift(i - m, B))]]
  <2>1. ~VirtPhysAligned(v, p, GiB) /\ VirtPhysAligned(v, p, B)
    BY <1>2 DEF VirtPhysAligned
  <2> HIDE DEF v, p
  <2> QED BY <1>2, <2>1 DEF MapKernelWindow39
<1>4. /\ vs.l1pt[k] = TableAt("l2pt", 0)
      /\ \A g \in 0 .. E - 1 : g # k => vs.l1pt[g] = Identity(g)
      /\ vs.l2pt[h] = Window2(h, IntShift(h - m, B))
  <2> DEFINE f == [i \in 0 .. E - 1 |-> Identity(i)]
             n == [i \in 0 .. E - 1 |-> Window2(i, IntShift(i - m, B))]
  <2> HIDE DEF vs, Identity, Window2
  <2>1. f = [i \in 0 .. E - 1 |-> f[i]] /\ \A i \in 0 .. E - 1 : f[i] = Identity(i)
    OBVIOUS
  <2>2. n[h] = Window2(h, IntShift(h - m, B))
    OBVIOUS
  <2>3. vs.l1pt = [f EXCEPT ![k] = TableAt("l2pt", 0)] /\ vs.l2pt = n
    BY <1>3
  <2> HIDE DEF f, n
  <2> QED BY <1>1, <2>1, <2>2, <2>3
<1>5. ASSUME NEW g \in 0 .. E - 1
      PROVE  /\ First(vs, "l1pt", l1, PageAt(g, h, r)) = vs.l1pt[g]
             /\ Walk("sv39", vs, PageAt(g, h, r))
                  = Translate(vs, "l1pt", <<l1, l2>>, PageAt(g, h, r))
  <2> DEFINE va == PageAt(g, h, r)
  <2>0. g \in Nat
    OBVIOUS
  <2>1. PudSlot(va) = g % E
    BY <2>0, PageSlots, Zenon
  <2>2. g % E = g /\ 0 + g = g
    BY <1>1
  <2> HIDE DEF vs, va
  <2>3. Walk("sv39", vs, va) = Translate(vs, "l1pt", <<l1, l2>>, va)
    BY DEF Walk
  <2>4. Slot(l1, va) = g
    BY <2>1, <2>2 DEF PudSlot
  <2> HIDE DEF l1
  <2>5. First(vs, "l1pt", l1, va) = vs.l1pt[g]
    BY <2>2, <2>4 DEF First, Below, TableAt
  <2> QED BY <2>3, <2>5 DEF va
<1>6. ASSUME m <= h
      PROVE  Walk("sv39", vs, PageAt(k, h, r)) = BlockAt((h - m) + pp) + r
  <2> DEFINE va == PageAt(k, h, r)
             q == (h - m) + pp
  <2>1. h - m \in Nat /\ h - m < E /\ q \in Nat
    BY <1>1, <1>6
  <2>2. IntShift(h - m, B) = B * (h - m)
    <3> DEFINE n == (h - m) * B
    <3>1. n = B * (h - m)
      BY <1>1, <2>1
    <3>2. n \in Nat /\ n + B <= GiB
      BY <1>1, <2>1, <3>1, Times
    <3> HIDE DEF n
    <3>3. n % Word32 = n /\ n < Word32 \div 2
      BY <1>1, <3>2
    <3> QED BY <3>1, <3>3 DEF IntShift, n
  <2>3. p + B * (h - m) = BlockAt(q)
    BY <1>1, <2>1, Times DEF BlockAt
  <2>4. vs.l2pt[h] = Leaf(BlockAt(q))
    <3> HIDE DEF vs, p, q
    <3> QED BY <1>1, <1>4, <1>6, <2>2, <2>3
  <2>5. Slot(l2, va) = h /\ 0 + h = h
    <3>1. PmdSlot(va) = h
      BY <1>1, PageSlots, Zenon
    <3> QED BY <1>1, <3>1 DEF PmdSlot
  <2>6. Framed(Leaf(BlockAt(q)), l2, va) = BlockAt(q) + r
    BY <1>1, <2>1, BlockFramed
  <2>7. k \in 0 .. E - 1
    BY <1>1
  <2>8. First(vs, "l1pt", l1, va) = TableAt("l2pt", 0) /\ Walk("sv39", vs, va) = Translate(vs, "l1pt", <<l1, l2>>, va)
    BY <1>4, <1>5, <2>7
  <2> HIDE DEF vs, va, l1, l2, q
  <2>9. First(vs, "l1pt", l1, va).kind = "table"
    BY <2>8 DEF TableAt
  <2>10. Second(vs, "l1pt", l1, l2, va) = Leaf(BlockAt(q))
    BY <2>4, <2>5, <2>8 DEF Second, Below, TableAt
  <2>11. Translate(vs, "l1pt", <<l1, l2>>, va) = Framed(Second(vs, "l1pt", l1, l2, va), l2, va)
    BY <2>9, TwoLevelWalks
  <2> QED BY <2>6, <2>8, <2>10, <2>11 DEF q, va
<1>7. ASSUME NEW g \in 0 .. CastGiB - 1
      PROVE  Walk("sv39", vs, PageAt(g, h, r)) = PageAt(g, h, r)
  <2> DEFINE va == PageAt(g, h, r)
  <2>1. g \in 0 .. E - 1 /\ g # k /\ g \in Nat /\ g % CastGiB = g /\ g * GiB = GibAt(g)
    BY <1>1 DEF GibAt
  <2>2. vs.l1pt[g] = Leaf(GibAt(g))
    <3> HIDE DEF vs
    <3> QED BY <1>4, <2>1
  <2>3. First(vs, "l1pt", l1, va) = Leaf(GibAt(g)) /\ Walk("sv39", vs, va) = Translate(vs, "l1pt", <<l1, l2>>, va)
    BY <1>5, <2>1, <2>2
  <2>4. Framed(Leaf(GibAt(g)), l1, va) = va
    BY <2>1, GibFramed
  <2> HIDE DEF vs, va, l1, l2
  <2>5. First(vs, "l1pt", l1, va).kind = "leaf"
    BY <2>3 DEF Leaf
  <2>6. Translate(vs, "l1pt", <<l1, l2>>, va) = Framed(First(vs, "l1pt", l1, va), l1, va)
    BY <2>5, TwoLevelWalks
  <2> QED BY <2>3, <2>4, <2>6 DEF va
<1> QED BY <1>6, <1>7

(***************************************************************************)
(* The kernel's window and the loader's one-to-one mapping                 *)
(***************************************************************************)
(* The pages from span low up to span n, and where they are loaded, from   *)
(* span pp on.                                                             *)
SpanPages(s, low, n) == s * low .. s * n - 1
InSpan(a, s, low, n, pp) ==
  \E i \in low .. n - 1, r \in 0 .. s - 1 :
    a = s * i + r /\ a - s * low + s * pp = s * ((i - low) + pp) + r

(* A page of a window of spans is a page of one of them.                   *)
LEMMA InSpans ==
  ASSUME NEW s \in Positive, NEW low \in Nat, NEW n \in Nat, NEW pp \in Nat,
         NEW a \in SpanPages(s, low, n)
  PROVE  InSpan(a, s, low, n, pp)
<1> USE DEF Positive
<1> DEFINE i == a \div s
           r == a % s
<1>1. s * low \in Nat /\ s * n \in Nat /\ s * pp \in Nat
  BY Times
<1>2. a \in Nat /\ s * low <= a /\ a < s * n
  BY <1>1 DEF SpanPages
<1>3. i \in Nat /\ r \in 0 .. s - 1 /\ a = s * i + r
  BY <1>2, Split
<1> HIDE DEF i, r
<1>4. s * i \in Nat
  BY <1>3, Times
<1>5. low <= i
  <2>1. i < low => s * i + s <= s * low
    BY <1>3, Times
  <2> DEFINE x == s * i
             y == s * low
  <2>2. x \in Nat /\ y \in Nat /\ (i < low => x + s <= y) /\ y <= a /\ a = x + r
    BY <1>1, <1>2, <1>3, <1>4, <2>1
  <2> HIDE DEF x, y
  <2> QED BY <1>3, <2>2
<1>6. i < n
  <2>1. n <= i => s * n <= s * i
    BY <1>3, Times
  <2> DEFINE x == s * i
             y == s * n
  <2>2. x \in Nat /\ y \in Nat /\ (n <= i => y <= x) /\ a < y /\ a = x + r
    BY <1>1, <1>2, <1>3, <1>4, <2>1
  <2> HIDE DEF x, y
  <2> QED BY <1>3, <2>2
<1>7. a - s * low + s * pp = s * ((i - low) + pp) + r
  <2>1. i - low \in Nat
    BY <1>3, <1>5
  <2>2. s * (i - low) = s * i - s * low
    BY <1>3, <1>5, Times
  <2>3. s * ((i - low) + pp) = s * (i - low) + s * pp
    BY <2>1, Times
  <2> DEFINE x == s * i
             y == s * low
             z == s * pp
             u == s * ((i - low) + pp)
  <2>4. x \in Nat /\ y \in Nat /\ z \in Nat /\ u = (x - y) + z /\ a = x + r
    BY <1>1, <1>3, <1>4, <2>2, <2>3
  <2> HIDE DEF x, y, z, u
  <2>5. a - y + z = u + r
    BY <1>3, <2>4
  <2> QED BY <2>5 DEF y, z, u
<1>8. i \in low .. n - 1
  BY <1>3, <1>5, <1>6
<1> QED BY <1>3, <1>7, <1>8 DEF InSpan

(* Where the kernel may be linked and loaded, by style: aligned to what    *)
(* the tables map it by, and on AArch64 away from the loader's own entries *)
(* of the tables.                                                          *)
Placed(style, first_vaddr, first_paddr) ==
  CASE style = "arm32" ->
         \E low \in 1 .. PdEntries - 1, pp \in Nat :
           first_vaddr = SectionPages * low /\ first_paddr = SectionPages * pp
    [] style = "arm32hyp" ->
         \E low \in 1 .. 4 * Entries - 1, pp \in Nat :
           first_vaddr = BlockPages * low /\ first_paddr = BlockPages * pp
    [] style = "arm64" ->
         \E k \in Nat, pp \in Nat :
           Entries * Entries <= k /\ first_vaddr = GiB * k /\ first_paddr = BlockPages * pp
    [] style = "arm64hyp" ->
         \E k \in Nat, m \in 0 .. Entries - 1, pp \in Nat :
           /\ (k \div Entries) % Entries # 0
           /\ first_vaddr = BlockPages * (Entries * k + m) /\ first_paddr = BlockPages * pp
    [] style = "sv39" ->
         \E k \in Entries - 2 .. Entries - 1, m \in 0 .. Entries - 1, pp \in Nat :
           first_vaddr = BlockPages * (Entries * k + m) /\ first_paddr = BlockPages * pp

Mapped(style, first_vaddr, first_paddr) ==
  LET vspace == Build(style, first_vaddr, first_paddr)
  IN /\ MapsKernel(style, vspace, first_vaddr, first_paddr)
     /\ MapsLoader(style, vspace, first_vaddr)
     /\ style = "arm32" => Walk(style, vspace, Vectors) = arm_vector_table

(* init_boot_vspace() maps the kernel of a 32-bit platform.                *)
LEMMA MappedArm32 ==
  ASSUME NEW low \in 1 .. PdEntries - 1, NEW pp \in Nat
  PROVE  Mapped("arm32", SectionPages * low, SectionPages * pp)
<1> DEFINE S == SectionPages
           P == PdEntries
           v == S * low
           p == S * pp
           vs == InitBootVspace32(v, p)
<1>1. S \in Nat \ {0} /\ P \in Nat \ {0} /\ Word32 = S * P /\ low \in Nat /\ P - 1 \in Nat
  BY Spans
<1>0. S \in Positive /\ 0 \in Nat
  BY <1>1 DEF Positive
<1>2. Build("arm32", v, p) = vs
  BY DEF Build
<1>3. /\ \A i \in 0 .. low - 1, r \in 0 .. S - 1 : Walk("arm32", vs, S * i + r) = S * i + r
      /\ \A i \in low .. P - 2, r \in 0 .. S - 1 :
           S * ((i - low) + pp) + r < Word32 =>
             Walk("arm32", vs, S * i + r) = S * ((i - low) + pp) + r
      /\ Walk("arm32", vs, Vectors) = arm_vector_table
  BY WalkArm32
<1>4. ASSUME NEW va \in Window("arm32", v, p), va - v + p < Word32
      PROVE  Walk("arm32", vs, va) = va - v + p
  <2>1. va \in SpanPages(S, low, P - 1)
    <3>1. S * (P - 1) = S * P - S * 1 /\ S * 1 = S
      BY <1>1, Times
    <3> DEFINE x == S * (P - 1)
    <3>2. Word32 - S = x
      BY <1>1, <3>1
    <3> HIDE DEF x
    <3> QED BY <3>2 DEF Window, SpanPages, x
  <2>2. PICK i \in low .. (P - 1) - 1, r \in 0 .. S - 1 :
          va = S * i + r /\ va - S * low + S * pp = S * ((i - low) + pp) + r
    <3> HIDE DEF S, P
    <3>1. InSpan(va, S, low, P - 1, pp)
      BY <1>0, <1>1, <2>1, InSpans, Zenon
    <3> QED BY <3>1 DEF InSpan
  <2>3. i \in low .. P - 2
    BY <1>1
  <2> HIDE DEF vs, S, P
  <2> QED BY <1>3, <1>4, <2>2, <2>3
<1>5. ASSUME NEW pa \in OneToOne("arm32", v)
      PROVE  Walk("arm32", vs, pa) = pa
  <2>1. pa \in SpanPages(S, 0, low)
    BY <1>1 DEF OneToOne, SpanPages
  <2>2. PICK i \in 0 .. low - 1, r \in 0 .. S - 1 : pa = S * i + r
    <3> HIDE DEF S
    <3>1. InSpan(pa, S, 0, low, 0)
      BY <1>0, <1>1, <2>1, InSpans, Zenon
    <3> QED BY <3>1 DEF InSpan
  <2> HIDE DEF vs, S
  <2> QED BY <1>3, <2>2
<1> HIDE DEF vs, v, p
<1>6. MapsKernel("arm32", vs, v, p)
  BY <1>4 DEF MapsKernel
<1>7. MapsLoader("arm32", vs, v)
  BY <1>5 DEF MapsLoader
<1>8. Mapped("arm32", v, p)
  BY <1>2, <1>3, <1>6, <1>7 DEF Mapped
<1> QED BY <1>8 DEF v, p

(* init_hyp_boot_vspace() does, for a hypervisor's kernel.                 *)
LEMMA MappedArm32Hyp ==
  ASSUME NEW low \in 1 .. 4 * Entries - 1, NEW pp \in Nat
  PROVE  Mapped("arm32hyp", BlockPages * low, BlockPages * pp)
<1> DEFINE B == BlockPages
           P == 4 * Entries
           v == B * low
           p == B * pp
           vs == InitHypBootVspace32(v, p)
<1>1. B \in Nat \ {0} /\ P \in Nat \ {0} /\ Word32 = B * P /\ low \in Nat
  BY Spans
<1>0. B \in Positive /\ P \in Nat /\ 0 \in Nat
  BY <1>1 DEF Positive
<1>2. Build("arm32hyp", v, p) = vs
  BY DEF Build
<1>3. /\ \A i \in 0 .. low - 1, r \in 0 .. B - 1 : Walk("arm32hyp", vs, B * i + r) = B * i + r
      /\ \A i \in low .. P - 1, r \in 0 .. B - 1 :
           B * ((i - low) + pp) + r < Word32 =>
             Walk("arm32hyp", vs, B * i + r) = B * ((i - low) + pp) + r
  BY WalkArm32Hyp
<1>4. ASSUME NEW va \in Window("arm32hyp", v, p), va - v + p < Word32
      PROVE  Walk("arm32hyp", vs, va) = va - v + p
  <2>1. va \in SpanPages(B, low, P)
    BY <1>1 DEF Window, SpanPages
  <2>2. PICK i \in low .. P - 1, r \in 0 .. B - 1 :
          va = B * i + r /\ va - B * low + B * pp = B * ((i - low) + pp) + r
    <3> HIDE DEF B, P
    <3>1. InSpan(va, B, low, P, pp)
      BY <1>0, <1>1, <2>1, InSpans, Zenon
    <3> QED BY <3>1 DEF InSpan
  <2> HIDE DEF vs, B, P
  <2> QED BY <1>3, <1>4, <2>2
<1>5. ASSUME NEW pa \in OneToOne("arm32hyp", v)
      PROVE  Walk("arm32hyp", vs, pa) = pa
  <2>1. pa \in SpanPages(B, 0, low)
    BY <1>1 DEF OneToOne, SpanPages
  <2>2. PICK i \in 0 .. low - 1, r \in 0 .. B - 1 : pa = B * i + r
    <3> HIDE DEF B
    <3>1. InSpan(pa, B, 0, low, 0)
      BY <1>0, <1>1, <2>1, InSpans, Zenon
    <3> QED BY <3>1 DEF InSpan
  <2> HIDE DEF vs, B
  <2> QED BY <1>3, <2>2
<1> HIDE DEF vs, v, p
<1>6. MapsKernel("arm32hyp", vs, v, p)
  BY <1>4 DEF MapsKernel
<1>7. MapsLoader("arm32hyp", vs, v)
  BY <1>5 DEF MapsLoader
<1>8. Mapped("arm32hyp", v, p)
  BY <1>2, <1>3, <1>6, <1>7 DEF Mapped
<1> QED BY <1>8 DEF v, p

(* The same by GiB: the pages from block m of GiB k on, loaded from block  *)
(* pp on, and the pages of the first n GiB.                                *)
InPages(a, k, m, pp) ==
  \E h \in m .. Entries - 1, r \in 0 .. BlockPages - 1 :
    /\ a = PageAt(k, h, r)
    /\ a - PageAt(k, m, 0) + BlockAt(pp) = BlockAt((h - m) + pp) + r
LowPages(a, n) ==
  \E g \in 0 .. n - 1, h \in 0 .. Entries - 1, r \in 0 .. BlockPages - 1 : a = PageAt(g, h, r)

(* The pages of an AArch64 or Sv39 window, block by block.                 *)
LEMMA WindowPages ==
  ASSUME NEW k \in Nat, NEW m \in 0 .. Entries - 1, NEW pp \in Nat,
         NEW a \in PageAt(k, m, 0) .. (k + 1) * GiB - 1
  PROVE  InPages(a, k, m, pp)
<1>1. PICK h \in m .. Entries - 1, r \in 0 .. BlockPages - 1 :
        a = PageAt(k, h, r) /\ a - PageAt(k, m, 0) = BlockPages * (h - m) + r
  BY InWindow
<1>2. BlockPages \in Nat \ {0} /\ h - m \in Nat
  BY Spans
<1>3. BlockPages * ((h - m) + pp) = BlockPages * (h - m) + BlockPages * pp
  BY <1>2, Times
<1> DEFINE x == BlockPages * (h - m)
           y == BlockPages * pp
<1>4. x \in Nat /\ y \in Nat /\ BlockAt(pp) = y /\ BlockAt((h - m) + pp) = x + y
  BY <1>2, <1>3, Times DEF BlockAt
<1>5. a - PageAt(k, m, 0) = x + r
  BY <1>1
<1> HIDE DEF x, y
<1>6. a - PageAt(k, m, 0) + BlockAt(pp) = BlockAt((h - m) + pp) + r
  BY <1>2, <1>4, <1>5
<1> QED BY <1>1, <1>6 DEF InPages

(* The pages below n GiB, block by block.                                  *)
LEMMA LoaderPages ==
  ASSUME NEW n \in Nat, NEW a \in 0 .. n * GiB - 1
  PROVE  LowPages(a, n)
BY BelowGib DEF LowPages

(* AArch64's init_boot_vspace() maps the kernel.                           *)
LEMMA MappedArm64 ==
  ASSUME NEW k \in Nat, Entries * Entries <= k, NEW pp \in Nat
  PROVE  Mapped("arm64", PageAt(k, 0, 0), BlockAt(pp))
<1> DEFINE E == Entries
           v == PageAt(k, 0, 0)
           p == BlockAt(pp)
           vs == InitBootVspace64(v, p)
<1>1. E \in Nat \ {0} /\ 0 \in 0 .. E - 1 /\ 0 \in 0 .. BlockPages - 1
  BY Spans
<1>2. Build("arm64", v, p) = vs
  BY DEF Build
<1>3. v \div GiB = k
  BY <1>1, PagePlace
<1>4. \A h \in 0 .. E - 1, r \in 0 .. BlockPages - 1 :
        /\ Walk("arm64", vs, PageAt(k, h, r)) = BlockAt(h + pp) + r
        /\ \A g \in 0 .. E - 1 : Walk("arm64", vs, PageAt(g, h, r)) = PageAt(g, h, r)
  BY WalkArm64
<1>5. ASSUME NEW va \in Window("arm64", v, p)
      PROVE  Walk("arm64", vs, va) = va - v + p
  <2>1. va \in PageAt(k, 0, 0) .. (k + 1) * GiB - 1
    <3> HIDE DEF p
    <3>1. Window("arm64", v, p) = v .. (v \div GiB + 1) * GiB - 1
      BY DEF Window
    <3> QED BY <1>3, <3>1
  <2>2. InPages(va, k, 0, pp)
    BY <1>1, <2>1, WindowPages
  <2>3. PICK h \in 0 .. E - 1, r \in 0 .. BlockPages - 1 :
          va = PageAt(k, h, r) /\ va - v + p = BlockAt((h - 0) + pp) + r
    BY <2>2 DEF InPages
  <2>4. (h - 0) + pp = h + pp
    BY <1>1
  <2> HIDE DEF vs
  <2> QED BY <1>4, <2>3, <2>4
<1>6. ASSUME NEW pa \in OneToOne("arm64", v)
      PROVE  Walk("arm64", vs, pa) = pa
  <2>1. LowPages(pa, E)
    BY <1>1, LoaderPages DEF OneToOne
  <2>2. PICK g \in 0 .. E - 1, h \in 0 .. E - 1, r \in 0 .. BlockPages - 1 : pa = PageAt(g, h, r)
    BY <2>1 DEF LowPages
  <2> HIDE DEF vs
  <2> QED BY <1>4, <2>2
<1> HIDE DEF vs, v, p
<1>7. MapsKernel("arm64", vs, v, p) /\ MapsLoader("arm64", vs, v)
  BY <1>5, <1>6 DEF MapsKernel, MapsLoader
<1>8. Mapped("arm64", v, p)
  BY <1>2, <1>7 DEF Mapped
<1> QED BY <1>8 DEF v, p

(* AArch64's init_hyp_boot_vspace() does.                                  *)
LEMMA MappedArm64Hyp ==
  ASSUME NEW k \in Nat, (k \div Entries) % Entries # 0, NEW m \in 0 .. Entries - 1, NEW pp \in Nat
  PROVE  Mapped("arm64hyp", PageAt(k, m, 0), BlockAt(pp))
<1> DEFINE E == Entries
           v == PageAt(k, m, 0)
           p == BlockAt(pp)
           vs == InitHypBootVspace64(v, p)
<1>1. E \in Nat \ {0} /\ 0 \in 0 .. BlockPages - 1
  BY Spans
<1>2. Build("arm64hyp", v, p) = vs
  BY DEF Build
<1>3. v \div GiB = k
  BY <1>1, PagePlace
<1>4. \A h \in 0 .. E - 1, r \in 0 .. BlockPages - 1 :
        /\ m <= h => Walk("arm64hyp", vs, PageAt(k, h, r)) = BlockAt((h - m) + pp) + r
        /\ \A g \in 0 .. E - 1 : Walk("arm64hyp", vs, PageAt(g, h, r)) = PageAt(g, h, r)
  BY WalkArm64Hyp
<1>5. ASSUME NEW va \in Window("arm64hyp", v, p)
      PROVE  Walk("arm64hyp", vs, va) = va - v + p
  <2>1. va \in PageAt(k, m, 0) .. (k + 1) * GiB - 1
    <3> HIDE DEF p
    <3>1. Window("arm64hyp", v, p) = v .. (v \div GiB + 1) * GiB - 1
      BY DEF Window
    <3> QED BY <1>3, <3>1
  <2>2. InPages(va, k, m, pp)
    BY <1>1, <2>1, WindowPages
  <2>3. PICK h \in m .. E - 1, r \in 0 .. BlockPages - 1 :
          va = PageAt(k, h, r) /\ va - v + p = BlockAt((h - m) + pp) + r
    BY <2>2 DEF InPages
  <2>4. h \in 0 .. E - 1 /\ m <= h
    BY <1>1
  <2> HIDE DEF vs
  <2> QED BY <1>4, <2>3, <2>4
<1>6. ASSUME NEW pa \in OneToOne("arm64hyp", v)
      PROVE  Walk("arm64hyp", vs, pa) = pa
  <2>1. LowPages(pa, E)
    BY <1>1, LoaderPages DEF OneToOne
  <2>2. PICK g \in 0 .. E - 1, h \in 0 .. E - 1, r \in 0 .. BlockPages - 1 : pa = PageAt(g, h, r)
    BY <2>1 DEF LowPages
  <2> HIDE DEF vs
  <2> QED BY <1>4, <2>2
<1> HIDE DEF vs, v, p
<1>7. MapsKernel("arm64hyp", vs, v, p) /\ MapsLoader("arm64hyp", vs, v)
  BY <1>5, <1>6 DEF MapsKernel, MapsLoader
<1>8. Mapped("arm64hyp", v, p)
  BY <1>2, <1>7 DEF Mapped
<1> QED BY <1>8 DEF v, p

(* RISC-V's map_kernel_window() maps a kernel on a GiB by GiBs.            *)
LEMMA MappedSv39Gib ==
  ASSUME NEW k \in Entries - 2 .. Entries - 1, NEW pg \in Nat
  PROVE  Mapped("sv39", GibAt(k), GibAt(pg))
<1> DEFINE E == Entries
           v == GibAt(k)
           p == GibAt(pg)
           vs == MapKernelWindow39(v, p)
<1>1. /\ E \in Nat \ {0} /\ GiB \in Nat \ {0} /\ k \in Nat /\ k < E
      /\ CastGiB \in Nat \ {0} /\ CastGiB <= E
  BY Spans
<1>2. Build("sv39", v, p) = vs
  BY DEF Build, BuildRiscv
<1>3. \A g \in 0 .. E - 1, h \in 0 .. E - 1, r \in 0 .. BlockPages - 1 :
        /\ k <= g => Walk("sv39", vs, PageAt(g, h, r)) = PageAt((g - k) + pg, h, r)
        /\ g < CastGiB => Walk("sv39", vs, PageAt(g, h, r)) = PageAt(g, h, r)
  BY WalkSv39Gib
<1>4. VirtPhysAligned(v, p, GiB)
  <2>1. 0 \in 0 .. GiB - 1
    BY <1>1
  <2>2. \A n \in Nat : (GiB * n + 0) % GiB = 0
    BY <1>1, <2>1, Unsplit
  <2>3. \A n \in Nat : GiB * n + 0 = GibAt(n)
    BY <1>1, Times DEF GibAt
  <2> QED BY <1>1, <2>2, <2>3 DEF VirtPhysAligned
<1>5. ASSUME NEW va \in Window("sv39", v, p)
      PROVE  Walk("sv39", vs, va) = va - v + p
  <2>1. va \in v .. E * GiB - 1
    <3> HIDE DEF v, p
    <3> QED BY <1>4 DEF Window
  <2>2. v \in Nat /\ p \in Nat
    BY <1>1, Times DEF GibAt
  <2>3. va \in 0 .. E * GiB - 1
    <3> HIDE DEF v
    <3> QED BY <1>1, <2>1, <2>2
  <2>4. LowPages(va, E)
    BY <1>1, <2>3, LoaderPages
  <2>5. PICK g \in 0 .. E - 1, h \in 0 .. E - 1, r \in 0 .. BlockPages - 1 : va = PageAt(g, h, r)
    BY <2>4 DEF LowPages
  <2> DEFINE z == BlockPages * h + r
             x == GiB * g
             q == (g - k) + pg
  <2>6. z \in 0 .. GiB - 1 /\ va = x + z
    BY <2>5, InGib DEF PageAt
  <2>7. x \in Nat /\ g \in Nat
    BY <1>1, Times
  <2>8. k <= g
    <3>1. g < k => x + GiB <= v
      BY <1>1, <2>7, Times DEF GibAt
    <3>2. v <= va
      <4> HIDE DEF v
      <4> QED BY <1>1, <2>1, <2>2
    <3> HIDE DEF x, v, z
    <3> QED BY <1>1, <2>2, <2>6, <2>7, <3>1, <3>2
  <2>9. PageAt(q, h, r) = va - v + p
    <3>1. GiB * (g - k) = x - v /\ g - k \in Nat
      BY <1>1, <2>7, <2>8, Times DEF GibAt
    <3>2. GiB * q = GiB * (g - k) + p
      BY <1>1, <3>1, Times DEF GibAt
    <3>3. PageAt(q, h, r) = GiB * q + z
      BY DEF PageAt
    <3> DEFINE y == GiB * q
    <3>4. y = (x - v) + p /\ PageAt(q, h, r) = y + z
      BY <3>1, <3>2, <3>3
    <3> HIDE DEF x, v, p, z, y, q
    <3> QED BY <2>2, <2>6, <2>7, <3>4
  <2> HIDE DEF vs
  <2> QED BY <1>3, <2>5, <2>8, <2>9
<1>6. ASSUME NEW pa \in OneToOne("sv39", v)
      PROVE  Walk("sv39", vs, pa) = pa
  <2>1. LowPages(pa, CastGiB)
    BY <1>1, LoaderPages DEF OneToOne
  <2>2. PICK g \in 0 .. CastGiB - 1, h \in 0 .. E - 1, r \in 0 .. BlockPages - 1 :
          pa = PageAt(g, h, r)
    BY <2>1 DEF LowPages
  <2>3. g \in 0 .. E - 1 /\ g < CastGiB
    BY <1>1
  <2> HIDE DEF vs
  <2> QED BY <1>3, <2>2, <2>3
<1> HIDE DEF vs, v, p
<1>7. MapsKernel("sv39", vs, v, p) /\ MapsLoader("sv39", vs, v)
  BY <1>5, <1>6 DEF MapsKernel, MapsLoader
<1>8. Mapped("sv39", v, p)
  BY <1>2, <1>7 DEF Mapped
<1> QED BY <1>8 DEF v, p

(* It maps one that is not by blocks.                                      *)
LEMMA MappedSv39Blocks ==
  ASSUME NEW k \in Entries - 2 .. Entries - 1, NEW m \in 0 .. Entries - 1, NEW pp \in Nat,
         ~VirtPhysAligned(PageAt(k, m, 0), BlockAt(pp), GiB)
  PROVE  Mapped("sv39", PageAt(k, m, 0), BlockAt(pp))
<1> DEFINE E == Entries
           v == PageAt(k, m, 0)
           p == BlockAt(pp)
           vs == MapKernelWindow39(v, p)
<1>1. /\ E \in Nat \ {0} /\ 0 \in 0 .. BlockPages - 1 /\ k \in Nat
      /\ CastGiB \in Nat \ {0}
  BY Spans
<1>2. Build("sv39", v, p) = vs
  BY DEF Build, BuildRiscv
<1>3. v \div GiB = k
  BY <1>1, PagePlace
<1>4. \A h \in 0 .. E - 1, r \in 0 .. BlockPages - 1 :
        /\ m <= h => Walk("sv39", vs, PageAt(k, h, r)) = BlockAt((h - m) + pp) + r
        /\ \A g \in 0 .. CastGiB - 1 : Walk("sv39", vs, PageAt(g, h, r)) = PageAt(g, h, r)
  BY WalkSv39Blocks
<1>5. ASSUME NEW va \in Window("sv39", v, p)
      PROVE  Walk("sv39", vs, va) = va - v + p
  <2>1. va \in PageAt(k, m, 0) .. (k + 1) * GiB - 1
    <3>1. ~VirtPhysAligned(v, p, GiB)
      OBVIOUS
    <3> HIDE DEF v, p
    <3>2. Window("sv39", v, p) = v .. (v \div GiB + 1) * GiB - 1
      BY <3>1 DEF Window
    <3>3. va \in v .. (k + 1) * GiB - 1
      BY <1>3, <3>2
    <3> QED BY <3>3 DEF v
  <2>2. InPages(va, k, m, pp)
    BY <1>1, <2>1, WindowPages
  <2>3. PICK h \in m .. E - 1, r \in 0 .. BlockPages - 1 :
          va = PageAt(k, h, r) /\ va - v + p = BlockAt((h - m) + pp) + r
    BY <2>2 DEF InPages
  <2>4. h \in 0 .. E - 1 /\ m <= h
    BY <1>1
  <2> HIDE DEF vs
  <2> QED BY <1>4, <2>3, <2>4
<1>6. ASSUME NEW pa \in OneToOne("sv39", v)
      PROVE  Walk("sv39", vs, pa) = pa
  <2>1. LowPages(pa, CastGiB)
    BY <1>1, LoaderPages DEF OneToOne
  <2>2. PICK g \in 0 .. CastGiB - 1, h \in 0 .. E - 1, r \in 0 .. BlockPages - 1 :
          pa = PageAt(g, h, r)
    BY <2>1 DEF LowPages
  <2> HIDE DEF vs
  <2> QED BY <1>4, <2>2
<1> HIDE DEF vs, v, p
<1>7. MapsKernel("sv39", vs, v, p) /\ MapsLoader("sv39", vs, v)
  BY <1>5, <1>6 DEF MapsKernel, MapsLoader
<1>8. Mapped("sv39", v, p)
  BY <1>2, <1>7 DEF Mapped
<1> QED BY <1>8 DEF v, p

(* It maps every kernel, by one of the two.                                *)
LEMMA MappedSv39 ==
  ASSUME NEW k \in Entries - 2 .. Entries - 1, NEW m \in 0 .. Entries - 1, NEW pp \in Nat
  PROVE  Mapped("sv39", PageAt(k, m, 0), BlockAt(pp))
<1> DEFINE v == PageAt(k, m, 0)
           p == BlockAt(pp)
           pg == p \div GiB
<1>1. CASE VirtPhysAligned(v, p, GiB)
  <2>1. GiB \in Nat \ {0} /\ BlockPages \in Nat \ {0} /\ 0 \in 0 .. BlockPages - 1 /\ k \in Nat
    BY Spans
  <2>2. v \in Nat /\ p \in Nat
    <3>1. BlockPages * m + 0 \in Nat
      BY <2>1, Times
    <3> QED BY <2>1, <3>1, Times DEF PageAt, BlockAt
  <2>3. v \div GiB = k
    BY <2>1, PagePlace
  <2> HIDE DEF v, p
  <2>4. v % GiB = 0 /\ p % GiB = 0
    BY <1>1 DEF VirtPhysAligned
  <2>5. v = GiB * k + 0 /\ p = GiB * pg + 0 /\ pg \in Nat
    BY <2>1, <2>2, <2>3, <2>4, Split
  <2>6. v = GibAt(k) /\ p = GibAt(pg)
    BY <2>1, <2>5, Times DEF GibAt
  <2> HIDE DEF pg
  <2>7. Mapped("sv39", v, p)
    BY <2>5, <2>6, MappedSv39Gib
  <2> QED BY <2>7 DEF v, p
<1>2. CASE ~VirtPhysAligned(v, p, GiB)
  BY <1>2, MappedSv39Blocks
<1> QED BY <1>1, <1>2

(* Wherever the kernel is placed and whatever the sizes of the tables, on  *)
(* every elfloader but the Sv32 one, every address of the kernel's window  *)
(* is mapped to where load_images() put it, the loader to itself, and on   *)
(* 32-bit ARM the vectors to the loader's.                                 *)
THEOREM KernelMapped ==
  ASSUME NEW style \in Styles \ {"sv32"}, NEW first_vaddr, NEW first_paddr,
         Placed(style, first_vaddr, first_paddr)
  PROVE  Mapped(style, first_vaddr, first_paddr)
<1>1. CASE style = "arm32"
  <2>1. PICK low \in 1 .. PdEntries - 1, pp \in Nat :
          first_vaddr = SectionPages * low /\ first_paddr = SectionPages * pp
    BY <1>1 DEF Placed
  <2> QED BY <1>1, <2>1, MappedArm32
<1>2. CASE style = "arm32hyp"
  <2>1. PICK low \in 1 .. 4 * Entries - 1, pp \in Nat :
          first_vaddr = BlockPages * low /\ first_paddr = BlockPages * pp
    BY <1>2 DEF Placed
  <2> QED BY <1>2, <2>1, MappedArm32Hyp
<1>3. CASE style = "arm64"
  <2>1. PICK k \in Nat, pp \in Nat :
          Entries * Entries <= k /\ first_vaddr = GiB * k /\ first_paddr = BlockPages * pp
    BY <1>3 DEF Placed
  <2>2. first_vaddr = PageAt(k, 0, 0) /\ first_paddr = BlockAt(pp)
    <3>1. GiB * k \in Nat /\ BlockPages * 0 = 0
      BY Spans, Times
    <3> QED BY <2>1, <3>1 DEF PageAt, BlockAt
  <2> QED BY <1>3, <2>1, <2>2, MappedArm64
<1>4. ASSUME NEW k \in Nat, NEW m \in 0 .. Entries - 1, NEW pp \in Nat,
             first_vaddr = BlockPages * (Entries * k + m), first_paddr = BlockPages * pp
      PROVE  first_vaddr = PageAt(k, m, 0) /\ first_paddr = BlockAt(pp)
  <2>1. 0 \in 0 .. BlockPages - 1 /\ Entries * k + m \in Nat
    BY Spans, Times
  <2>2. BlockPages * (Entries * k + m) \in Nat
    BY <2>1, Spans, Times
  <2>3. PageAt(k, m, 0) = BlockPages * (Entries * k + m) + 0
    BY <2>1, PagePlace
  <2> QED BY <1>4, <2>2, <2>3 DEF BlockAt
<1>5. CASE style = "arm64hyp"
  <2>1. PICK k \in Nat, m \in 0 .. Entries - 1, pp \in Nat :
          /\ (k \div Entries) % Entries # 0
          /\ first_vaddr = BlockPages * (Entries * k + m) /\ first_paddr = BlockPages * pp
    BY <1>5 DEF Placed
  <2>2. first_vaddr = PageAt(k, m, 0) /\ first_paddr = BlockAt(pp)
    BY <1>4, <2>1
  <2> QED BY <1>5, <2>1, <2>2, MappedArm64Hyp
<1>6. CASE style = "sv39"
  <2>1. PICK k \in Entries - 2 .. Entries - 1, m \in 0 .. Entries - 1, pp \in Nat :
          first_vaddr = BlockPages * (Entries * k + m) /\ first_paddr = BlockPages * pp
    BY <1>6 DEF Placed
  <2>2. first_vaddr = PageAt(k, m, 0) /\ first_paddr = BlockAt(pp)
    <3>1. k \in Nat
      BY Spans
    <3> QED BY <1>4, <2>1, <3>1
  <2> QED BY <1>6, <2>1, <2>2, MappedSv39
<1> QED BY <1>1, <1>2, <1>3, <1>5, <1>6 DEF Styles

(* The kernels asked about are placed so.                                  *)
LEMMA KernelsPlaced ==
  ASSUME NEW style \in Styles \ {"sv32"}, NEW kernel \in Kernels(style)
  PROVE  Placed(style, kernel[1], kernel[2])
<1> DEFINE B == BlockPages
           E == Entries
<1>1. /\ B \in Nat \ {0} /\ E \in Nat \ {0} /\ E > 2 /\ GiB \in Nat \ {0} /\ GiB = B * E
      /\ SectionPages \in Nat \ {0} /\ PdEntries \in Nat \ {0}
  BY Spans
<1>2. \A s \in Nat, n \in Nat : n * s = s * n
  OBVIOUS
<1>3. CASE style = "arm32"
  <2>1. PICK k \in 8 .. PdEntries - 2, p \in {0, 5} : kernel = <<k * SectionPages, p * SectionPages>>
    BY <1>3 DEF Kernels
  <2>2. k \in 1 .. PdEntries - 1 /\ p \in Nat /\ k \in Nat
    BY <1>1
  <2>3. kernel[1] = SectionPages * k /\ kernel[2] = SectionPages * p
    BY <1>1, <1>2, <2>1, <2>2
  <2> QED BY <1>3, <2>2, <2>3 DEF Placed
<1>4. CASE style = "arm32hyp"
  <2>1. PICK k \in E .. 4 * E - 1, p \in {0, 5} : kernel = <<k * B, p * B>>
    BY <1>4 DEF Kernels
  <2>2. k \in 1 .. 4 * E - 1 /\ p \in Nat /\ k \in Nat
    BY <1>1
  <2>3. kernel[1] = B * k /\ kernel[2] = B * p
    BY <1>1, <1>2, <2>1, <2>2
  <2> QED BY <1>4, <2>2, <2>3 DEF Placed
<1>5. CASE style = "arm64"
  <2>1. PICK k \in E .. 2 * E, p \in {0, 5} : kernel = <<Half64 + k * GiB, p * B>>
    BY <1>5 DEF Kernels
  <2>2. E * E \in Nat /\ k \in Nat /\ p \in Nat
    BY <1>1
  <2>3. GiB * (E * E + k) = GiB * (E * E) + GiB * k /\ (GiB * E) * E = GiB * (E * E)
    BY <1>1, <2>2, Times
  <2>4. kernel[1] = GiB * (E * E + k) /\ kernel[2] = B * p
    <3>1. k * GiB = GiB * k /\ p * B = B * p
      BY <1>1, <1>2, <2>2
    <3> QED BY <2>1, <2>3, <3>1 DEF Half64
  <2> DEFINE n == E * E
  <2>5. n + k \in Nat /\ n <= n + k
    <3> HIDE DEF n
    <3>1. n \in Nat
      BY <2>2 DEF n
    <3> QED BY <2>2, <3>1
  <2> QED BY <1>5, <2>2, <2>4, <2>5 DEF Placed
<1>6. CASE style = "arm64hyp"
  <2>1. PICK j \in E * E .. E * E + 2 * E, p \in {0, 5} : kernel = <<j * B, p * B>>
    BY <1>6 DEF Kernels
  <2> DEFINE n == E * E
             k == j \div E
             m == j % E
  <2>2. n \in Nat /\ p \in Nat
    BY <1>1
  <2>3. j \in Nat /\ n <= j /\ j <= n + 2 * E
    <3>1. j \in n .. n + 2 * E
      BY <2>1
    <3> HIDE DEF n
    <3> QED BY <1>1, <2>2, <3>1
  <2>4. k \in Nat /\ m \in 0 .. E - 1 /\ j = E * k + m
    BY <1>1, <2>3, Split
  <2> HIDE DEF k, m
  <2>5. E <= k /\ k < E + E
    <3>1. k < E => E * k + E <= E * E
      BY <1>1, <2>4, Times
    <3>2. E + 3 <= k => E * (E + 3) <= E * k
      BY <1>1, <2>4, Times
    <3>3. E * (E + 3) = E * E + E * 3
      BY <1>1, Times
    <3> DEFINE x == E * k
    <3>4. x \in Nat /\ j = x + m /\ (k < E => x + E <= n) /\ (E + 3 <= k => n + 3 * E <= x)
      BY <1>1, <2>4, <3>1, <3>2, <3>3, Times
    <3> HIDE DEF n, x
    <3>5. E <= k
      BY <1>1, <2>2, <2>3, <2>4, <3>4
    <3>6. k < E + 3
      BY <1>1, <2>2, <2>3, <2>4, <3>4
    <3> QED BY <1>1, <2>4, <3>5, <3>6
  <2>6. (k \div E) % E # 0
    <3>1. k - E \in 0 .. E - 1 /\ E * 1 + (k - E) = k
      BY <1>1, <2>4, <2>5
    <3>2. (E * 1 + (k - E)) \div E = 1
      BY <1>1, <3>1, Unsplit
    <3> QED BY <1>1, <3>1, <3>2
  <2>7. kernel[1] = B * (E * k + m) /\ kernel[2] = B * p
    <3>1. kernel[1] = B * j /\ kernel[2] = B * p
      BY <1>1, <1>2, <2>1, <2>2, <2>3
    <3> QED BY <2>4, <3>1
  <2> QED BY <1>6, <2>2, <2>4, <2>6, <2>7 DEF Placed
<1>7. CASE style = "sv39"
  <2>1. PICK j \in 0 .. 2 * E - 1, p \in {0, 2, E} : kernel = <<(E - 2) * GiB + j * B, p * B>>
    BY <1>7 DEF Kernels
  <2> DEFINE q == j \div E
             m == j % E
             k == (E - 2) + q
  <2>2. j \in Nat /\ p \in Nat /\ E - 2 \in Nat
    BY <1>1
  <2>3. q \in Nat /\ m \in 0 .. E - 1 /\ j = E * q + m
    BY <1>1, <2>2, Split
  <2> HIDE DEF q, m
  <2>4. k \in E - 2 .. E - 1 /\ k \in Nat
    <3>1. 2 <= q => E * 2 <= E * q
      BY <1>1, <2>3, Times
    <3> DEFINE x == E * q
    <3>2. x \in Nat /\ j = x + m /\ (2 <= q => 2 * E <= x)
      BY <1>1, <2>3, <3>1, Times
    <3> HIDE DEF x
    <3>3. q < 2
      BY <1>1, <2>2, <2>3, <3>2
    <3> QED BY <1>1, <2>3, <3>3
  <2>5. kernel[1] = B * (E * k + m) /\ kernel[2] = B * p
    <3>1. E * k = E * (E - 2) + E * q
      BY <1>1, <2>2, <2>3, Times
    <3>2. E * (E - 2) \in Nat /\ E * q \in Nat /\ m \in Nat
      BY <1>1, <2>2, <2>3, Times
    <3> DEFINE x == E * (E - 2)
    <3>3. E * k + m = x + j /\ x \in Nat
      BY <2>3, <3>1, <3>2
    <3>4. B * (x + j) = B * x + B * j
      <4> HIDE DEF x
      <4> QED BY <1>1, <2>2, <3>3, Times
    <3>5. B * x = GiB * (E - 2)
      BY <1>1, <2>2, Times
    <3>6. (E - 2) * GiB = GiB * (E - 2) /\ j * B = B * j /\ p * B = B * p
      BY <1>1, <1>2, <2>2
    <3> HIDE DEF x, k
    <3> QED BY <2>1, <3>3, <3>4, <3>5, <3>6
  <2> HIDE DEF k
  <2> QED BY <1>7, <2>2, <2>3, <2>4, <2>5 DEF Placed
<1> QED BY <1>3, <1>4, <1>5, <1>6, <1>7 DEF Styles

(* What is answered is what the asked elfloader builds for a kernel placed *)
(* as it must be.                                                          *)
TablesAnswer ==
  question.kind = "tables" =>
    /\ question.style \in AskedStyles
    /\ Placed(question.style, question.first_vaddr, question.first_paddr)
    /\ answer # NoAnswer =>
         answer = <<Build(question.style, question.first_vaddr, question.first_paddr)>>

(* Whatever an elfloader other than the Sv32 one is asked for, the tables  *)
(* it builds map the kernel's window, the loader and the vectors.          *)
THEOREM WindowIsMapped ==
  ASSUME AskedStyles \subseteq Styles \ {"sv32"}
  PROVE  Spec => []WindowMapped
<1>1. Init => TablesAnswer
  <2> SUFFICES ASSUME Init, question.kind = "tables"
               PROVE  /\ question.style \in AskedStyles
                      /\ Placed(question.style, question.first_vaddr, question.first_paddr)
                      /\ answer = NoAnswer
    BY DEF TablesAnswer
  <2>1. PICK style \in AskedStyles : \E k \in Kernels(style) : question = AskTables(style, k[1], k[2])
    BY DEF Init, AskElf, AskMemory, AskStrings, AskHash, AskStrip, AskPrint
  <2>a. PICK k \in Kernels(style) : question = AskTables(style, k[1], k[2])
    BY <2>1
  <2>2. /\ question.style = style /\ question.first_vaddr = k[1] /\ question.first_paddr = k[2]
    BY <2>a DEF AskTables
  <2>3. Placed(style, k[1], k[2])
    BY KernelsPlaced
  <2> QED BY <2>2, <2>3 DEF Init
<1>2. TablesAnswer /\ [Next]_vars => TablesAnswer'
  <2> SUFFICES ASSUME TablesAnswer, [Next]_vars, question'.kind = "tables"
               PROVE  TablesAnswer'
    BY DEF TablesAnswer
  <2>1. CASE MapKernel
    BY <2>1 DEF MapKernel, Asked, TablesAnswer
  <2>2. ASSUME NEW kind, kind # "tables", Asked(kind)
        PROVE  FALSE
    BY <2>2 DEF Asked
  <2>3. ~ReadElf
    BY <2>2 DEF ReadElf
  <2>4. ~MoveMemory /\ ~CompareStrings
    BY <2>2 DEF MoveMemory, CompareStrings
  <2>5. ~HashMessage /\ ~PrintLine /\ ~StripArchive
    BY <2>2 DEF HashMessage, PrintLine, StripArchive
  <2>6. CASE UNCHANGED vars
    BY <2>6 DEF vars, TablesAnswer
  <2> QED BY <2>1, <2>3, <2>4, <2>5, <2>6 DEF Next
<1>3. TablesAnswer => WindowMapped
  <2> SUFFICES ASSUME TablesAnswer, Answered("tables")
               PROVE  LET v == question.first_vaddr
                          p == question.first_paddr
                          style == question.style
                      IN /\ MapsKernel(style, answer[1], v, p)
                         /\ MapsLoader(style, answer[1], v)
                         /\ style = "arm32" => Walk(style, answer[1], Vectors) = arm_vector_table
    BY DEF WindowMapped
  <2>1. /\ question.style \in Styles \ {"sv32"}
        /\ Placed(question.style, question.first_vaddr, question.first_paddr)
        /\ answer[1] = Build(question.style, question.first_vaddr, question.first_paddr)
    BY DEF TablesAnswer, Answered
  <2>2. Mapped(question.style, question.first_vaddr, question.first_paddr)
    BY <2>1, KernelMapped
  <2> QED BY <2>1, <2>2 DEF Mapped
<1> QED BY <1>1, <1>2, <1>3, PTL DEF Spec

(* A set of numbers that is not empty has a least one: no counterexample   *)
(* comes first.                                                            *)
LEMMA Least ==
  ASSUME NEW T, T \subseteq Nat, T # {}
  PROVE  \E x \in T : \A y \in T : x <= y
<1>1. PICK x \in T : \A y \in T : ~ (<<y, x>> \in OpToRel(<, Nat))
  BY NatLessThanWellFounded, WFMin
<1>2. \A y \in T : ~ (y < x)
  BY <1>1 DEF OpToRel
<1> QED BY <1>2

(***************************************************************************)
(* memset()'s filler: each byte of the word is the byte asked for          *)
(***************************************************************************)
(* f counts up by "times v plus b", from a on.                             *)
Linear(f, v, a, b, n) == f = [k \in 0..n |-> IF k = 0 THEN a ELSE v * f[k-1] + b]

(* There is a function with a linear recursion.                            *)
LEMMA LinearExists ==
  ASSUME NEW v \in Positive, NEW a \in Nat, NEW b \in Nat, NEW N \in Nat
  PROVE  \E f : Linear(f, v, a, b, N) /\ \A k \in 0..N : f[k] \in Nat
<1> DEFINE Good(f, n) == Linear(f, v, a, b, n) /\ \A k \in 0..n : f[k] \in Nat
           Bad == {n \in 0..N : ~ \E f : Good(f, n)}
<1>1. SUFFICES ASSUME Bad # {} PROVE FALSE
  <2>1. N \in 0..N
    OBVIOUS
  <2> QED BY <2>1
<1>2. PICK n \in Bad : \A k \in Bad : n <= k
  <2>1. Bad \subseteq Nat
    OBVIOUS
  <2> HIDE DEF Bad
  <2> QED BY <1>1, <2>1, Least
<1>3. n # 0
  <2>1. Good([k \in 0..0 |-> a], 0)
    BY DEF Linear
  <2> QED BY <2>1
<1>4. PICK f : Good(f, n - 1)
  <2>1. n - 1 \in 0..N /\ n - 1 \notin Bad
    BY <1>2, <1>3
  <2> QED BY <2>1
<1>5. n \in Nat /\ n > 0 /\ n - 1 \in 0 .. n - 1
  BY <1>2, <1>3
<1> DEFINE Succ(x) == v * x + b
           g == [k \in 0..n |-> IF k = n THEN Succ(f[n-1]) ELSE f[k]]
<1>6. \A j \in 0 .. n - 1 : f[j] = (IF j = 0 THEN a ELSE Succ(f[j-1])) /\ f[j] \in Nat
  <2>1. f = [j \in 0 .. n - 1 |-> IF j = 0 THEN a ELSE Succ(f[j-1])]
    BY <1>4 DEF Linear
  <2> HIDE DEF Succ
  <2> QED BY <1>4, <2>1
<1>7. \A x \in Nat : Succ(x) \in Nat
  BY Times DEF Positive
<1> HIDE DEF Succ
<1>8. g[n] = Succ(f[n-1]) /\ \A j \in 0 .. n - 1 : g[j] = f[j]
  BY <1>5
<1>9. \A k \in 0..n : g[k] = (IF k = 0 THEN a ELSE Succ(g[k-1])) /\ g[k] \in Nat
  <2> SUFFICES ASSUME NEW k \in 0..n
               PROVE  g[k] = (IF k = 0 THEN a ELSE Succ(g[k-1])) /\ g[k] \in Nat
    OBVIOUS
  <2> HIDE DEF g
  <2>1. CASE k = n
    BY <1>3, <1>5, <1>6, <1>7, <1>8, <2>1
  <2>2. CASE k < n
    <3>1. k \in 0 .. n - 1 /\ (k # 0 => k - 1 \in 0 .. n - 1)
      BY <1>5, <2>2
    <3> QED BY <1>6, <1>8, <3>1
  <2> QED BY <1>5, <2>1, <2>2
<1>10. Linear(g, v, a, b, n)
  <2>1. g = [k \in 0..n |-> g[k]]
    OBVIOUS
  <2> HIDE DEF g
  <2> QED BY <1>9, <2>1 DEF Linear, Succ
<1> QED BY <1>2, <1>9, <1>10

(* It follows the recursion.                                               *)
LEMMA LinearIs ==
  ASSUME NEW f, NEW v, NEW a, NEW b, NEW n \in Nat, Linear(f, v, a, b, n)
  PROVE  f[0] = a /\ \A k \in 1..n : f[k] = v * f[k-1] + b
<1>1. \A k \in 0..n : f[k] = IF k = 0 THEN a ELSE v * f[k-1] + b
  <2> DEFINE Succ(x) == v * x + b
  <2>1. f = [k \in 0..n |-> IF k = 0 THEN a ELSE Succ(f[k-1])]
    BY DEF Linear
  <2> HIDE DEF Succ
  <2>2. \A k \in 0..n : f[k] = IF k = 0 THEN a ELSE Succ(f[k-1])
    BY <2>1
  <2> QED BY <2>2 DEF Succ
<1> QED BY <1>1

(* The powers of the number of byte values follow theirs.                  *)
LEMMA PowerIs ==
  /\ Power[0] = 1 /\ \A k \in 1..8 : Power[k] = ByteVals * Power[k-1]
  /\ \A k \in 0..8 : Power[k] \in Nat
<1> DEFINE Is(f) == f = [k \in 0..8 |-> IF k = 0 THEN 1 ELSE ByteVals * f[k-1]]
<1>0. ByteVals \in Positive /\ 1 \in Nat /\ 0 \in Nat /\ 8 \in Nat
  BY MemAssumption DEF Positive
<1>1. PICK f : Linear(f, ByteVals, 1, 0, 8) /\ \A k \in 0..8 : f[k] \in Nat
  BY <1>0, LinearExists
<1>2. \A k \in 1..8 : ByteVals * f[k-1] + 0 = ByteVals * f[k-1]
  <2> SUFFICES ASSUME NEW k \in 1..8 PROVE ByteVals * f[k-1] + 0 = ByteVals * f[k-1]
    OBVIOUS
  <2>1. k - 1 \in 0..8
    OBVIOUS
  <2>2. f[k-1] \in Nat
    BY <1>1, <2>1
  <2>3. ByteVals * f[k-1] \in Nat
    BY <1>0, <2>2, Times DEF Positive
  <2> QED BY <2>3
<1>3. Is(f)
  <2> DEFINE A(k) == ByteVals * f[k-1] + 0
             B(k) == ByteVals * f[k-1]
  <2>1. f = [k \in 0..8 |-> IF k = 0 THEN 1 ELSE A(k)]
    BY <1>1 DEF Linear
  <2>2. \A k \in 0..8 : k # 0 => A(k) = B(k)
    BY <1>2
  <2> HIDE DEF A, B
  <2>3. f = [k \in 0..8 |-> IF k = 0 THEN 1 ELSE B(k)]
    BY <2>1, <2>2
  <2> QED BY <2>3 DEF B
<1>4. Power = CHOOSE g : Is(g)
  BY DEF Power
<1>5. Is(Power)
  BY <1>3, <1>4
<1> HIDE DEF Is
<1>6. /\ Power[0] = 1 /\ \A k \in 1..8 : Power[k] = ByteVals * Power[k-1]
  <2> DEFINE P == Power
             Succ(x) == ByteVals * x
  <2>1. P = [k \in 0..8 |-> IF k = 0 THEN 1 ELSE Succ(P[k-1])]
    BY <1>5 DEF Is
  <2> HIDE DEF P, Succ
  <2>2. \A k \in 0..8 : P[k] = IF k = 0 THEN 1 ELSE Succ(P[k-1])
    BY <2>1
  <2>3. P[0] = 1 /\ \A k \in 1..8 : P[k] = Succ(P[k-1])
    BY <2>2
  <2> QED BY <2>3 DEF P, Succ
<1> DEFINE Bad == {k \in 0..8 : Power[k] \notin Nat}
<1>7. SUFFICES ASSUME Bad # {} PROVE FALSE
  BY <1>6
<1>8. PICK k \in Bad : \A j \in Bad : k <= j
  <2>1. Bad \subseteq Nat
    OBVIOUS
  <2> HIDE DEF Bad
  <2> QED BY <1>7, <2>1, Least
<1>9. k # 0
  BY <1>6, <1>8
<1>10. k \in 1..8 /\ k - 1 \in 0..8 /\ k - 1 \notin Bad
  BY <1>8, <1>9
<1>11. Power[k-1] \in Nat
  BY <1>10
<1>12. ByteVals * Power[k-1] \in Nat
  BY <1>0, <1>11, Times DEF Positive
<1> QED BY <1>6, <1>8, <1>10, <1>12

(* One step of a repeated byte, read from either end.                      *)
LEMMA Repeats ==
  ASSUME NEW v \in Positive, NEW r \in Nat, NEW x \in Nat
  PROVE  /\ v * ((v - 1) * r + 1) = (v - 1) * (v * r + 1) + 1
         /\ (v * r + 1) * x = v * (r * x) + x
<1>1. v \in Int /\ r \in Int /\ x \in Int
  BY DEF Positive
<1>2. v * ((v - 1) * r + 1) = (v - 1) * (v * r + 1) + 1
  BY <1>1
<1>3. (v * r + 1) * x = v * (r * x) + x
  BY <1>1
<1> QED BY <1>2, <1>3

(* One place further down.                                                 *)
Places(a, t, s, j, e, r) ==
  /\ s \in Positive /\ e \in Positive /\ j \in Nat /\ r \in 0 .. s - 1
  /\ a = s * j + r /\ t = e * s

(* Dividing by a power more takes a place more off.                        *)
LEMMA Lower ==
  ASSUME NEW s, NEW e, NEW j, NEW r, NEW a, NEW t, Places(a, t, s, j, e, r)
  PROVE  a \div t = j \div e
BY Nested DEF Places

(* A word of all ones over a byte of all ones, times the byte, holds the   *)
(* byte at each of its places.                                             *)
LEMMA FillerRight ==
  ASSUME NEW c \in Int, NEW k \in 0 .. BytePerWord - 1
  PROVE  FillerByte(c, k) = c % ByteVals
<1> DEFINE V == ByteVals
           B == BytePerWord
           x == c % V
           P(i) == Power[i]
<1>1. /\ V \in Nat /\ V > 1 /\ V \in Positive /\ V - 1 \in Positive
      /\ V - 1 \in Nat /\ B \in 1..8
  BY MemAssumption DEF Positive
<1>2. x \in Nat /\ x \in 0 .. V - 1
  BY <1>1
<1> HIDE DEF V, B, x
<1>3. PICK R : Linear(R, V, 0, 1, 8) /\ \A i \in 0..8 : R[i] \in Nat
  BY <1>1, LinearExists
<1>4. PICK F : Linear(F, V, 0, x, 8) /\ \A i \in 0..8 : F[i] \in Nat
  BY <1>1, <1>2, LinearExists
<1>5. R[0] = 0 /\ \A i \in 1..8 : R[i] = V * R[i-1] + 1
  BY <1>3, LinearIs
<1>6. F[0] = 0 /\ \A i \in 1..8 : F[i] = V * F[i-1] + x
  BY <1>4, LinearIs
<1>7. P(0) = 1 /\ (\A i \in 1..8 : P(i) = V * P(i-1)) /\ \A i \in 0..8 : P(i) \in Nat
  BY PowerIs DEF V
<1> HIDE DEF P
<1>8. \A i \in 0..8 : P(i) = (V - 1) * R[i] + 1 /\ R[i] * x = F[i]
  <2> DEFINE Good(i) == P(i) = (V - 1) * R[i] + 1 /\ R[i] * x = F[i]
             Bad == {i \in 0..8 : ~Good(i)}
  <2>1. SUFFICES ASSUME Bad # {} PROVE FALSE
    OBVIOUS
  <2>2. PICK i \in Bad : \A j \in Bad : i <= j
    <3>1. Bad \subseteq Nat
      OBVIOUS
    <3> HIDE DEF Bad
    <3> QED BY <2>1, <3>1, Least
  <2>3. Good(0)
    <3>1. (V - 1) * 0 + 1 = 1 /\ 0 * x = 0
      BY <1>1, <1>2
    <3> QED BY <1>5, <1>6, <1>7, <3>1
  <2>4. i \in 1..8 /\ i - 1 \in 0..8 /\ ~(i <= i - 1)
    BY <2>2, <2>3
  <2>5. Good(i - 1)
    BY <2>2, <2>4
  <2> DEFINE r == R[i-1]
  <2>6. r \in Nat
    BY <1>3, <2>4
  <2>7. P(i-1) = (V - 1) * r + 1 /\ r * x = F[i-1]
    BY <2>5
  <2>8. P(i) = V * P(i-1) /\ R[i] = V * r + 1 /\ F[i] = V * F[i-1] + x
    BY <1>5, <1>6, <1>7, <2>4
  <2> HIDE DEF r
  <2>9. /\ V * ((V - 1) * r + 1) = (V - 1) * (V * r + 1) + 1
        /\ (V * r + 1) * x = V * (r * x) + x
    BY <1>1, <1>2, <2>6, Repeats
  <2>10. Good(i)
    BY <2>7, <2>8, <2>9
  <2> QED BY <2>2, <2>10
<1>9. \A i \in 0..8 : P(i) \in Positive
  <2> SUFFICES ASSUME NEW i \in 0..8 PROVE P(i) \in Positive
    OBVIOUS
  <2>1. R[i] \in Nat
    BY <1>3
  <2>2. (V - 1) * R[i] \in Nat
    BY <1>1, <2>1, Times DEF Positive
  <2>3. P(i) = (V - 1) * R[i] + 1
    BY <1>8
  <2> QED BY <2>2, <2>3 DEF Positive
<1>10. Filler(c) = F[B]
  <2>1. B \in 0..8
    BY <1>1
  <2>2. R[B] \in Nat /\ P(B) = (V - 1) * R[B] + 1 /\ R[B] * x = F[B]
    BY <1>3, <1>8, <2>1
  <2> DEFINE m == (V - 1) * R[B]
  <2>3. m \in Nat /\ P(B) - 1 = m /\ m + 0 = m
    <3>1. m \in Nat
      BY <1>1, <2>2, Times DEF Positive
    <3> HIDE DEF m
    <3> QED BY <2>2, <3>1 DEF m
  <2>4. (m + 0) \div (V - 1) = R[B]
    <3>1. 0 \in 0 .. (V - 1) - 1
      BY <1>1 DEF Positive
    <3> QED BY <1>1, <2>2, <3>1, Unsplit DEF Positive
  <2> HIDE DEF m
  <2>5. (P(B) - 1) \div (V - 1) = R[B]
    BY <2>3, <2>4
  <2>6. Filler(c) = ((P(B) - 1) \div (V - 1)) * x
    BY DEF Filler, P, V, B, x
  <2> QED BY <2>2, <2>5, <2>6
<1>11. \A i \in 0..8 : \A n \in i..8 : F[n] \div P(i) = F[n-i]
  <2> DEFINE Good(i) == \A n \in i..8 : F[n] \div P(i) = F[n-i]
             Bad == {i \in 0..8 : ~Good(i)}
  <2>1. SUFFICES ASSUME Bad # {} PROVE FALSE
    OBVIOUS
  <2>2. PICK i \in Bad : \A j \in Bad : i <= j
    <3>1. Bad \subseteq Nat
      OBVIOUS
    <3> HIDE DEF Bad
    <3> QED BY <2>1, <3>1, Least
  <2>3. Good(0)
    <3>1. ASSUME NEW n \in 0..8 PROVE F[n] \div P(0) = F[n-0]
      <4>1. F[n] \in Nat /\ n - 0 = n
        BY <1>4
      <4>2. \A y \in Nat : y \div 1 = y
        OBVIOUS
      <4> QED BY <1>7, <4>1, <4>2
    <3> QED BY <3>1
  <2>4. i \in 1..8 /\ i - 1 \in 0..8 /\ ~(i <= i - 1)
    BY <2>2, <2>3
  <2>5. Good(i - 1)
    BY <2>2, <2>4
  <2>6. ASSUME NEW n \in i..8 PROVE F[n] \div P(i) = F[n-i]
    <3>1. n - 1 \in (i-1)..8 /\ n \in 1..8 /\ n - 1 \in 0..8 /\ (n - 1) - (i - 1) = n - i
      BY <2>4
    <3>2. F[n-1] \div P(i-1) = F[n-i]
      BY <2>5, <3>1
    <3>3. F[n] = V * F[n-1] + x /\ F[n-1] \in Nat
      BY <1>4, <1>6, <3>1
    <3>4. P(i-1) \in Positive
      BY <1>9, <2>4
    <3>5. V * P(i-1) = P(i-1) * V
      BY <1>1, <3>4 DEF Positive
    <3>6. Places(F[n], P(i), V, F[n-1], P(i-1), x)
      BY <1>1, <1>2, <1>7, <2>4, <3>3, <3>4, <3>5 DEF Places
    <3>7. F[n] \div P(i) = F[n-1] \div P(i-1)
      BY <3>6, Lower
    <3> QED BY <3>2, <3>7
  <2> QED BY <2>2, <2>6
<1>12. k \in 0..8 /\ B \in k..8 /\ B - k \in 1..8 /\ B - k - 1 \in 0..8
  BY MemAssumption DEF B
<1>13. Filler(c) \div P(k) = F[B-k]
  BY <1>10, <1>11, <1>12
<1>14. F[B-k] % V = x
  <2>1. F[B-k] = V * F[B-k-1] + x /\ F[B-k-1] \in Nat
    BY <1>4, <1>6, <1>12
  <2>2. (V * F[B-k-1] + x) % V = x
    BY <1>1, <1>2, <2>1, Unsplit DEF Positive
  <2> QED BY <2>1, <2>2
<1> QED BY <1>13, <1>14 DEF FillerByte, P, V, x

(* memset() leaves the byte asked for at each place of the destination.    *)
THEOREM MemsetFills ==
  ASSUME NEW d \in Nat, NEW c \in Int, NEW n \in Nat, NEW a \in 0 .. n - 1
  PROVE  Memset(d, c, n, a) = c % ByteVals
<1> DEFINE A == MemsetAccesses(d, n)
           w == CHOOSE w \in A : a \in w.at .. w.at + w.size - 1
<1>1. Covers(A, n)
  BY MemsetRight
<1>2. \A v \in A : /\ v.at \in Nat /\ v.size \in {1, BytePerWord}
                   /\ v.size \in Nat
  <2> DEFINE h == HeadBytes(d, n, BytePerWord)
             m == Units(d, n, BytePerWord)
             u == BytePerWord
  <2>1. u \in UnitSize /\ u \in Nat
    BY MemAssumption DEF UnitSize
  <2>2. h \in Nat /\ m \in Nat
    <3>1. h \in 0..n
      BY <2>1, HeadAligned
    <3>2. m \in Nat
      BY <2>1, UnitsFit
    <3> QED BY <3>1, <3>2
  <2>3. A = Bytes(0, h) \union {[at |-> h + u * k, size |-> u] : k \in 0 .. m - 1}
              \union Bytes(h + u * m, n)
    BY DEF MemsetAccesses, Accesses
  <2> HIDE DEF h, m, u, A
  <2>4. u * m \in Nat /\ \A k \in 0 .. m - 1 : u * k \in Nat
    BY <2>1, <2>2, Multiples
  <2> SUFFICES ASSUME NEW v \in A PROVE v.at \in Nat /\ v.size \in {1, u} /\ v.size \in Nat
    BY DEF u
  <2>5. CASE v \in Bytes(0, h) \union Bytes(h + u * m, n)
    BY <2>2, <2>4, <2>5 DEF Bytes
  <2>6. CASE v \in {[at |-> h + u * k, size |-> u] : k \in 0 .. m - 1}
    <3>1. PICK k \in 0 .. m - 1 : v = [at |-> h + u * k, size |-> u]
      BY <2>6
    <3>2. u * k \in Nat
      BY <2>4
    <3> QED BY <2>1, <2>2, <3>1, <3>2
  <2> QED BY <2>3, <2>5, <2>6
<1> HIDE DEF A
<1>3. \E v \in A : a \in v.at .. v.at + v.size - 1
  <2>1. PICK v \in A : v.at <= a /\ a < v.at + v.size
    BY <1>1 DEF Covers
  <2>2. v.at \in Nat /\ v.size \in Nat
    BY <1>2
  <2> QED BY <2>1, <2>2
<1>4. w \in A /\ a \in w.at .. w.at + w.size - 1
  BY <1>3
<1>5. Memset(d, c, n, a) = IF w.size = 1 THEN c % ByteVals ELSE FillerByte(c, a - w.at)
  BY DEF Memset, A
<1> HIDE DEF w
<1>6. CASE w.size = 1
  BY <1>5, <1>6
<1>7. CASE w.size # 1
  <2>1. w.size = BytePerWord /\ w.at \in Nat /\ w.size \in Nat
    BY <1>2, <1>4, <1>7
  <2>2. a - w.at \in 0 .. BytePerWord - 1
    BY <1>4, <2>1
  <2> QED BY <1>5, <1>7, <2>2, FillerRight
<1> QED BY <1>6, <1>7

(***************************************************************************)
(* The strings                                                             *)
(***************************************************************************)
IsString(str) == str \in Seq(Nat) /\ Len(str) > 0 /\ str[Len(str)] = 0

(* strlen() stops at the first 0.                                          *)
Ended(str, l) == /\ l \in Nat /\ l < Len(str) /\ str[l + 1] = 0
                 /\ \A j \in 1..l : str[j] # 0

(* strlen() is the length of what stands before the first zero.            *)
LEMMA StrlenIs ==
  ASSUME NEW str, IsString(str)
  PROVE  Ended(str, Strlen(str)) /\ Len(str) \in Nat
<1>1. Len(str) \in Nat /\ Len(str) > 0 /\ str[Len(str)] = 0
  BY LenProperties DEF IsString
<1> DEFINE Zeros == {k \in 0 .. Len(str) - 1 : str[k + 1] = 0}
<1>2. Zeros # {} /\ Zeros \subseteq Nat
  <2>1. Len(str) - 1 \in 0 .. Len(str) - 1 /\ (Len(str) - 1) + 1 = Len(str)
    BY <1>1
  <2>2. Len(str) - 1 \in Zeros
    BY <1>1, <2>1
  <2>3. Zeros \subseteq Nat
    OBVIOUS
  <2> HIDE DEF Zeros
  <2> QED BY <2>2, <2>3
<1>3. PICK l \in Zeros : \A k \in Zeros : l <= k
  <2> HIDE DEF Zeros
  <2> QED BY <1>2, Least
<1>4. l \in 0 .. Len(str) - 1 /\ str[l + 1] = 0
  BY <1>3
<1>5. ASSUME NEW j \in 1..l PROVE str[j] # 0
  <2>1. j - 1 \in 0 .. Len(str) - 1 /\ (j - 1) + 1 = j /\ ~(l <= j - 1)
    BY <1>1, <1>4
  <2>2. j - 1 \notin Zeros
    BY <1>3, <2>1
  <2> QED BY <2>1, <2>2
<1>6. Strlen(str) \in 0 .. Len(str) - 1 /\ str[Strlen(str) + 1] = 0 /\ \A j \in 1..Strlen(str) : str[j] # 0
  BY <1>4, <1>5 DEF Strlen
<1> QED BY <1>1, <1>6 DEF Ended

(* A string ends at one place only.                                        *)
LEMMA EndedOnce ==
  ASSUME NEW str, NEW l, NEW m, Ended(str, l), Ended(str, m)
  PROVE  l = m
<1>1. l \in Nat /\ m \in Nat
  BY DEF Ended
<1>2. l < m => l + 1 \in 1..m
  BY <1>1
<1>3. m < l => m + 1 \in 1..l
  BY <1>1
<1>4. ~(l < m)
  BY <1>2 DEF Ended
<1>5. ~(m < l)
  BY <1>3 DEF Ended
<1> QED BY <1>1, <1>4, <1>5

(* The first place where two strings differ or both end.                   *)
StopAt(a, b, k) == /\ k \in Nat \ {0} /\ (a[k] # b[k] \/ a[k] = 0)
                   /\ \A j \in 1 .. k - 1 : a[j] = b[j] /\ a[j] # 0

(* Of two strings there is a place where a comparison stops, and it is in  *)
(* both.                                                                   *)
LEMMA StopIs ==
  ASSUME NEW a, NEW b, IsString(a), IsString(b)
  PROVE  \E k \in 1..Len(a) : StopAt(a, b, k) /\ k <= Len(b)
<1> DEFINE la == Strlen(a)
           lb == Strlen(b)
           Stops == {k \in 1..Len(a) : a[k] # b[k] \/ a[k] = 0}
<1>1. Ended(a, la) /\ Ended(b, lb) /\ Len(a) \in Nat /\ Len(b) \in Nat
  BY StrlenIs
<1> HIDE DEF la, lb
<1>2. la \in Nat /\ la < Len(a) /\ a[la + 1] = 0 /\ \A j \in 1..la : a[j] # 0
  BY <1>1 DEF Ended
<1>3. lb \in Nat /\ lb < Len(b) /\ b[lb + 1] = 0 /\ \A j \in 1..lb : b[j] # 0
  BY <1>1 DEF Ended
<1>4. la + 1 \in Stops /\ Stops \subseteq Nat
  BY <1>1, <1>2
<1>5. PICK k \in Stops : \A j \in Stops : k <= j
  <2> HIDE DEF Stops
  <2> QED BY <1>4, Least
<1>6. k \in 1..Len(a) /\ (a[k] # b[k] \/ a[k] = 0)
  BY <1>5
<1>7. \A j \in 1 .. k - 1 : a[j] = b[j] /\ a[j] # 0
  <2> SUFFICES ASSUME NEW j \in 1 .. k - 1 PROVE a[j] = b[j] /\ a[j] # 0
    OBVIOUS
  <2>1. j \in 1..Len(a) /\ ~(k <= j)
    BY <1>1, <1>6
  <2>2. j \notin Stops
    BY <1>5, <2>1
  <2> QED BY <2>1, <2>2
<1>8. k <= lb + 1
  <2>1. SUFFICES ASSUME lb + 1 < k PROVE FALSE
    BY <1>3, <1>6
  <2>2. lb + 1 \in 1 .. k - 1
    BY <1>3, <1>6, <2>1
  <2> QED BY <1>3, <1>7, <2>2
<1>9. k <= Len(b)
  BY <1>1, <1>3, <1>6, <1>8
<1>10. StopAt(a, b, k)
  BY <1>6, <1>7 DEF StopAt
<1> QED BY <1>6, <1>9, <1>10

(* There is one such place only.                                           *)
LEMMA StopOnce ==
  ASSUME NEW a, NEW b, NEW k, NEW m, StopAt(a, b, k), StopAt(a, b, m)
  PROVE  k = m
<1>1. k \in Nat /\ m \in Nat /\ k > 0 /\ m > 0
  BY DEF StopAt
<1>2. k < m => k \in 1 .. m - 1
  BY <1>1
<1>3. m < k => m \in 1 .. k - 1
  BY <1>1
<1>4. ~(k < m)
  BY <1>2 DEF StopAt
<1>5. ~(m < k)
  BY <1>3 DEF StopAt
<1> QED BY <1>1, <1>4, <1>5

(* Where they stop at two 0s the strings are as long.                      *)
LEMMA StopTells ==
  ASSUME NEW a, NEW b, NEW k, StopAt(a, b, k), IsString(a), IsString(b)
  PROVE  /\ a[k] = b[k] => Strlen(a) = k - 1 /\ Strlen(b) = k - 1
         /\ k <= Strlen(a) + 1 /\ k <= Strlen(b) + 1
<1> DEFINE la == Strlen(a)
           lb == Strlen(b)
<1>1. Ended(a, la) /\ Ended(b, lb) /\ Len(a) \in Nat /\ Len(b) \in Nat
  BY StrlenIs
<1> HIDE DEF la, lb
<1>2. la \in Nat /\ a[la + 1] = 0 /\ lb \in Nat /\ b[lb + 1] = 0
  BY <1>1 DEF Ended
<1>3. /\ k \in Nat /\ k > 0 /\ (a[k] # b[k] \/ a[k] = 0)
      /\ \A j \in 1 .. k - 1 : a[j] = b[j] /\ a[j] # 0
  BY DEF StopAt
<1>4. k <= la + 1
  <2>1. SUFFICES ASSUME la + 1 < k PROVE FALSE
    BY <1>2, <1>3
  <2>2. la + 1 \in 1 .. k - 1
    BY <1>2, <1>3, <2>1
  <2> QED BY <1>2, <1>3, <2>2
<1>5. k <= lb + 1
  <2>1. SUFFICES ASSUME lb + 1 < k PROVE FALSE
    BY <1>2, <1>3
  <2>2. lb + 1 \in 1 .. k - 1
    BY <1>2, <1>3, <2>1
  <2> QED BY <1>2, <1>3, <2>2
<1>6. ASSUME a[k] = b[k] PROVE la = k - 1 /\ lb = k - 1
  <2>1. k - 1 \in Nat /\ k - 1 < Len(a) /\ k - 1 < Len(b) /\ (k - 1) + 1 = k
    <3>1. la < Len(a) /\ lb < Len(b)
      BY <1>1 DEF Ended
    <3> QED BY <1>1, <1>2, <1>3, <1>4, <1>5, <3>1
  <2>2. a[k] = 0 /\ b[k] = 0
    BY <1>3, <1>6
  <2>3. Ended(a, k - 1) /\ Ended(b, k - 1)
    BY <1>3, <2>1, <2>2 DEF Ended
  <2> QED BY <1>1, <2>3, EndedOnce
<1> QED BY <1>4, <1>5, <1>6 DEF la, lb

(* A start of a string that stays within it.                               *)
LEMMA StartIs ==
  ASSUME NEW str, IsString(str), NEW n \in Nat, n <= Strlen(str)
  PROVE  /\ SubSeq(str, 1, n) \in Seq(Nat) /\ Len(SubSeq(str, 1, n)) = n
         /\ \A j \in 1..n : SubSeq(str, 1, n)[j] = str[j]
<1> DEFINE l == Strlen(str)
           sub == SubSeq(str, 1, n)
<1>1. Len(str) \in Nat /\ l \in Nat /\ l < Len(str)
  BY StrlenIs DEF Ended
<1> HIDE DEF l
<1>2. n <= Len(str)
  BY <1>1 DEF l
<1>3. \A j \in 1..Len(str) : str[j] \in Nat
  BY ElementOfSeq DEF IsString
<1>4. 1 \in Int /\ n \in Int /\ \A j \in 1..n : str[j] \in Nat
  BY <1>1, <1>2, <1>3
<1>5. /\ sub \in Seq(Nat) /\ Len(sub) = IF 1 <= n THEN n - 1 + 1 ELSE 0
      /\ \A j \in 1 .. n - 1 + 1 : sub[j] = str[1 + j - 1]
  BY <1>4, SubSeqProperties
<1> HIDE DEF sub
<1>6. Len(sub) = n
  BY <1>5
<1>7. \A j \in 1..n : sub[j] = str[j]
  <2> SUFFICES ASSUME NEW j \in 1..n PROVE sub[j] = str[j]
    OBVIOUS
  <2>1. j \in 1 .. n - 1 + 1 /\ 1 + j - 1 = j
    OBVIOUS
  <2> QED BY <1>5, <2>1
<1> QED BY <1>5, <1>6, <1>7 DEF sub

(* The starts of n characters are equal just when the strings do not       *)
(* differ before n of them.                                                *)
LEMMA StartsEqual ==
  ASSUME NEW a, NEW b, IsString(a), IsString(b), NEW k, StopAt(a, b, k), NEW n \in Nat
  PROVE  Start(a, n) = Start(b, n) <=> (n < k \/ a[k] = b[k])
<1> DEFINE la == Strlen(a)
           lb == Strlen(b)
           ma == Smaller(n, la)
           mb == Smaller(n, lb)
<1>1. la \in Nat /\ lb \in Nat /\ a[la + 1] = 0 /\ b[lb + 1] = 0
  BY StrlenIs DEF Ended
<1>2. /\ k \in Nat /\ k > 0 /\ (a[k] # b[k] \/ a[k] = 0)
      /\ \A j \in 1 .. k - 1 : a[j] = b[j] /\ a[j] # 0
  BY DEF StopAt
<1>3. (a[k] = b[k] => la = k - 1 /\ lb = k - 1) /\ k <= la + 1 /\ k <= lb + 1
  BY StopTells
<1> HIDE DEF la, lb
<1>4. /\ ma \in Nat /\ ma <= la /\ ma <= n /\ (ma = n \/ ma = la)
      /\ mb \in Nat /\ mb <= lb /\ mb <= n /\ (mb = n \/ mb = lb)
      /\ (n <= la => ma = n) /\ (n <= lb => mb = n)
  BY <1>1 DEF Smaller
<1> DEFINE sa == Start(a, n)
           sb == Start(b, n)
<1>5. sa = SubSeq(a, 1, ma) /\ sb = SubSeq(b, 1, mb)
  BY DEF Start, la, lb
<1> HIDE DEF ma, mb, sa, sb
<1>6. sa \in Seq(Nat) /\ Len(sa) = ma /\ \A j \in 1..ma : sa[j] = a[j]
  BY <1>4, <1>5, StartIs DEF la
<1>7. sb \in Seq(Nat) /\ Len(sb) = mb /\ \A j \in 1..mb : sb[j] = b[j]
  BY <1>4, <1>5, StartIs DEF lb
<1>8. ASSUME n < k \/ a[k] = b[k] PROVE sa = sb
  <2>1. ma = mb /\ ma < k
    <3>1. CASE n < k
      BY <1>1, <1>2, <1>3, <1>4, <3>1
    <3>2. CASE a[k] = b[k]
      <4>1. la = lb /\ la < k
        BY <1>1, <1>2, <1>3, <3>2
      <4> QED BY <1>1, <1>2, <1>4, <4>1
    <3> QED BY <1>8, <3>1, <3>2
  <2>2. \A j \in 1..Len(sa) : sa[j] = sb[j]
    <3> SUFFICES ASSUME NEW j \in 1..ma PROVE sa[j] = sb[j]
      BY <1>6
    <3>1. j \in 1 .. k - 1 /\ j \in 1..mb
      BY <1>2, <1>4, <2>1
    <3> QED BY <1>2, <1>6, <1>7, <3>1
  <2>3. Len(sa) = Len(sb)
    BY <1>6, <1>7, <2>1
  <2> QED BY <1>6, <1>7, <2>2, <2>3, SeqEqual
<1>9. ASSUME sa = sb, k <= n, a[k] # b[k] PROVE FALSE
  <2>1. ma = mb
    BY <1>6, <1>7, <1>9
  <2>2. CASE k <= la /\ k <= lb
    <3>1. k \in 1..ma /\ k \in 1..mb
      BY <1>1, <1>2, <1>4, <1>9, <2>2
    <3> QED BY <1>6, <1>7, <1>9, <3>1
  <2>3. CASE k = la + 1
    <3>1. ma = la /\ lb = la
      BY <1>1, <1>2, <1>3, <1>4, <1>9, <2>1, <2>3
    <3> QED BY <1>1, <1>9, <2>3, <3>1
  <2>4. CASE k = lb + 1
    <3>1. mb = lb /\ lb = la
      BY <1>1, <1>2, <1>3, <1>4, <1>9, <2>1, <2>4
    <3> QED BY <1>1, <1>9, <2>4, <3>1
  <2> QED BY <1>1, <1>2, <1>3, <2>2, <2>3, <2>4
<1>10. sa = sb <=> (n < k \/ a[k] = b[k])
  BY <1>2, <1>8, <1>9
<1> QED BY <1>10 DEF sa, sb

(* strcmp() and strncmp() are 0 for equal strings and for equal starts,    *)
(* and only for these.                                                     *)
THEOREM StringsCompared ==
  ASSUME NEW a, NEW b, IsString(a), IsString(b), NEW n \in Nat
  PROVE  /\ Strlen(a) = Len(Text(a))
         /\ Strcmp(a, b) = 0 <=> Text(a) = Text(b)
         /\ Strncmp(a, b, n) = 0 <=> Start(a, n) = Start(b, n)
<1> DEFINE la == Strlen(a)
           lb == Strlen(b)
<1>1. la \in Nat /\ lb \in Nat /\ Len(a) \in Nat /\ Len(b) \in Nat
  BY StrlenIs DEF Ended
<1>2. PICK k \in 1..Len(a) : StopAt(a, b, k) /\ k <= Len(b)
  BY StopIs
<1>3. k \in Nat /\ a[k] \in Nat /\ b[k] \in Nat
  <2>1. k \in 1..Len(a) /\ k \in 1..Len(b)
    BY <1>1, <1>2
  <2> QED BY <2>1, ElementOfSeq DEF IsString
<1>4. la = Len(Text(a))
  <2>1. la <= Strlen(a)
    BY <1>1
  <2> QED BY <1>1, <2>1, StartIs DEF Text
<1>5. Strcmp(a, b) = a[k] - b[k]
  <2> DEFINE Is(j) == /\ a[j] # b[j] \/ a[j] = 0
                      /\ \A i \in 1 .. j - 1 : a[i] = b[i] /\ a[i] # 0
             c == CHOOSE j \in 1..Len(a) : Is(j)
  <2>1. Is(k)
    BY <1>2 DEF StopAt
  <2>2. c \in 1..Len(a) /\ Is(c)
    BY <1>2, <2>1
  <2>3. StopAt(a, b, c)
    <3>1. c \in Nat \ {0}
      BY <1>1, <2>2
    <3> HIDE DEF c
    <3> QED BY <2>2, <3>1 DEF StopAt
  <2>4. Strcmp(a, b) = a[c] - b[c]
    BY DEF Strcmp
  <2> HIDE DEF c
  <2>5. c = k
    BY <1>2, <2>3, StopOnce
  <2> QED BY <2>4, <2>5
<1>6. Strncmp(a, b, n) = IF k <= n THEN a[k] - b[k] ELSE 0
  <2> DEFINE stops == {j \in 1..n : /\ a[j] # b[j] \/ a[j] = 0
                                    /\ \A i \in 1 .. j - 1 : a[i] = b[i] /\ a[i] # 0}
             c == CHOOSE j \in stops : TRUE
  <2>1. \A j \in 1..n : j \in stops <=> StopAt(a, b, j)
    <3> SUFFICES ASSUME NEW j \in 1..n PROVE j \in stops <=> StopAt(a, b, j)
      OBVIOUS
    <3>1. j \in Nat \ {0}
      OBVIOUS
    <3> QED BY <3>1 DEF StopAt
  <2>2. Strncmp(a, b, n) = IF stops = {} THEN 0 ELSE a[c] - b[c]
    BY DEF Strncmp
  <2>3. stops \subseteq 1..n
    OBVIOUS
  <2>4. stops # {} => c \in stops
    OBVIOUS
  <2> HIDE DEF c, stops
  <2>5. \A j \in stops : j = k
    <3> SUFFICES ASSUME NEW j \in stops PROVE j = k
      OBVIOUS
    <3>1. StopAt(a, b, j)
      BY <2>1, <2>3
    <3> QED BY <1>2, <3>1, StopOnce
  <2>6. CASE k <= n
    <3>1. k \in 1..n
      BY <1>2, <1>3, <2>6
    <3>2. k \in stops
      BY <1>2, <2>1, <3>1
    <3> QED BY <2>2, <2>4, <2>5, <2>6, <3>2
  <2>7. CASE ~(k <= n)
    <3>1. k \notin 1..n
      BY <1>3, <2>7
    <3>2. stops = {}
      BY <2>3, <2>5, <3>1
    <3> QED BY <2>2, <2>7, <3>2
  <2> QED BY <2>6, <2>7
<1>7. Strcmp(a, b) = 0 <=> Text(a) = Text(b)
  <2> DEFINE m == la + lb + k
  <2>1. m \in Nat /\ Smaller(m, la) = la /\ Smaller(m, lb) = lb /\ ~(m < k)
    <3> HIDE DEF la, lb
    <3> QED BY <1>1, <1>3 DEF Smaller
  <2>2. Start(a, m) = Start(b, m) <=> a[k] = b[k]
    <3> HIDE DEF m
    <3> QED BY <1>2, <2>1, StartsEqual
  <2>3. Start(a, m) = Text(a) /\ Start(b, m) = Text(b)
    BY <2>1 DEF Start, Text
  <2> QED BY <1>3, <1>5, <2>2, <2>3
<1>8. Strncmp(a, b, n) = 0 <=> Start(a, n) = Start(b, n)
  <2>1. Start(a, n) = Start(b, n) <=> (n < k \/ a[k] = b[k])
    BY <1>2, StartsEqual
  <2> QED BY <1>3, <1>6, <2>1
<1> QED BY <1>4, <1>7, <1>8

(* The strings asked for end.                                              *)
LEMMA StringsEnd == \A str \in Strings : IsString(str)
<1> SUFFICES ASSUME NEW str \in Strings PROVE IsString(str)
  OBVIOUS
<1>1. PICK s \in [1..2 -> 0..2] : str = s \o <<0>>
  BY DEF Strings
<1>2. s \in Seq(Nat) /\ Len(s) = 2
  <2>1. s \in [1..2 -> Nat]
    OBVIOUS
  <2>2. s \in Seq(Nat)
    BY <2>1, SeqDef
  <2>3. DOMAIN s = 1..2 /\ DOMAIN s = 1..Len(s) /\ Len(s) \in Nat
    BY <2>1, <2>2, LenProperties
  <2>4. Len(s) = 2
    <3>1. 2 \in 1..Len(s) /\ Len(s) + 1 \notin 1..2
      BY <2>3
    <3> QED BY <2>3, <3>1
  <2> QED BY <2>2, <2>4
<1> DEFINE nul == <<0>>
<1>3. nul \in Seq(Nat) /\ Len(nul) = 1 /\ nul[1] = 0
  OBVIOUS
<1> HIDE DEF nul
<1>4. str = s \o nul
  BY <1>1 DEF nul
<1>5. /\ str \in Seq(Nat) /\ Len(str) = Len(s) + Len(nul)
      /\ \A i \in 1 .. Len(s) + Len(nul) :
           str[i] = IF i <= Len(s) THEN s[i] ELSE nul[i - Len(s)]
  BY <1>2, <1>3, <1>4, ConcatProperties
<1>6. Len(str) = 3 /\ str[3] = 0
  <2>1. Len(s) + Len(nul) = 3 /\ 3 - Len(s) = 1 /\ ~(3 <= Len(s))
    BY <1>2, <1>3
  <2>2. 3 \in 1 .. Len(s) + Len(nul)
    BY <2>1
  <2>3. str[3] = nul[1]
    BY <1>5, <2>1, <2>2
  <2>4. Len(str) = 3
    BY <1>5, <2>1
  <2>5. nul[1] = 0
    BY <1>3
  <2> QED BY <2>3, <2>4, <2>5
<1>7. str \in Seq(Nat)
  BY <1>5
<1>8. Len(str) > 0 /\ str[Len(str)] = 0
  BY <1>6
<1> QED BY <1>7, <1>8 DEF IsString

(* What is answered to the questions about memory and strings.             *)
MemoryAnswer ==
  question.kind = "memory" =>
    /\ question.d \in Nat /\ question.s \in Nat /\ question.n \in Nat
    /\ answer # NoAnswer =>
         answer = <<MemsetAccesses(question.d, question.n),
                    MemcpyAccesses(question.d, question.s, question.n),
                    [a \in 0 .. question.n - 1 |-> Memset(question.d, question.s - 3, question.n, a)]>>
StringsAnswer ==
  question.kind = "strings" =>
    /\ IsString(question.a) /\ IsString(question.b) /\ question.n \in Nat
    /\ answer # NoAnswer =>
         answer = <<Strlen(question.a), Strcmp(question.a, question.b),
                    Strncmp(question.a, question.b, question.n)>>

(* memset(), memcpy() and the string functions do what they are for, on    *)
(* any place and any length (string.c).                                    *)
THEOREM MemoryIsRight == Spec => []MemRight
<1> DEFINE Inv == MemoryAnswer /\ StringsAnswer
<1>1. Init => Inv
  <2>1. ASSUME Init, question.kind = "memory"
        PROVE  question.d \in Nat /\ question.s \in Nat /\ question.n \in Nat
    <3>1. PICK d \in 0..8, s \in 0..8, n \in 0..19 : question = AskMemory(d, s, n)
      BY <2>1 DEF Init, AskElf, AskStrings, AskHash, AskTables, AskStrip, AskPrint
    <3> QED BY <3>1 DEF AskMemory
  <2>2. ASSUME Init, question.kind = "strings"
        PROVE  IsString(question.a) /\ IsString(question.b) /\ question.n \in Nat
    <3>1. PICK a \in Strings, b \in Strings, n \in 0..3 : question = AskStrings(a, b, n)
      BY <2>2 DEF Init, AskElf, AskMemory, AskHash, AskTables, AskStrip, AskPrint
    <3> QED BY <3>1, StringsEnd DEF AskStrings
  <2> QED BY <2>1, <2>2 DEF MemoryAnswer, StringsAnswer, Init
<1>2. Inv /\ [Next]_vars => Inv'
  <2> SUFFICES ASSUME Inv, [Next]_vars PROVE Inv'
    OBVIOUS
  <2>1. MemoryAnswer'
    <3> SUFFICES ASSUME question'.kind = "memory" PROVE MemoryAnswer'
      BY DEF MemoryAnswer
    <3>1. CASE MoveMemory
      BY <3>1 DEF MoveMemory, Asked, MemoryAnswer
    <3>2. ASSUME NEW kind, kind # "memory", Asked(kind) PROVE FALSE
      BY <3>2 DEF Asked
    <3>3. ~ReadElf
      BY <3>2 DEF ReadElf
    <3>4. ~CompareStrings /\ ~HashMessage
      BY <3>2 DEF CompareStrings, HashMessage
    <3>5. ~MapKernel /\ ~PrintLine /\ ~StripArchive
      BY <3>2 DEF MapKernel, PrintLine, StripArchive
    <3>6. CASE UNCHANGED vars
      BY <3>6 DEF vars, MemoryAnswer
    <3> QED BY <3>1, <3>3, <3>4, <3>5, <3>6 DEF Next
  <2>2. StringsAnswer'
    <3> SUFFICES ASSUME question'.kind = "strings" PROVE StringsAnswer'
      BY DEF StringsAnswer
    <3>1. CASE CompareStrings
      BY <3>1 DEF CompareStrings, Asked, StringsAnswer
    <3>2. ASSUME NEW kind, kind # "strings", Asked(kind) PROVE FALSE
      BY <3>2 DEF Asked
    <3>3. ~ReadElf
      BY <3>2 DEF ReadElf
    <3>4. ~MoveMemory /\ ~HashMessage
      BY <3>2 DEF MoveMemory, HashMessage
    <3>5. ~MapKernel /\ ~PrintLine /\ ~StripArchive
      BY <3>2 DEF MapKernel, PrintLine, StripArchive
    <3>6. CASE UNCHANGED vars
      BY <3>6 DEF vars, StringsAnswer
    <3> QED BY <3>1, <3>3, <3>4, <3>5, <3>6 DEF Next
  <2> QED BY <2>1, <2>2
<1>3. Inv => MemRight
  <2>1. ASSUME MemoryAnswer, Answered("memory")
        PROVE  LET n == question.n IN
               /\ Covers(answer[1], n) /\ AlignedAt(answer[1], question.d)
               /\ Covers(answer[2], n) /\ AlignedAt(answer[2], question.d) /\ AlignedAt(answer[2], question.s)
               /\ \A a \in 0 .. n - 1 : answer[3][a] = (question.s - 3) % ByteVals
    <3> DEFINE d == question.d
               s == question.s
               n == question.n
    <3>1. /\ d \in Nat /\ s \in Nat /\ n \in Nat
          /\ answer[1] = MemsetAccesses(d, n) /\ answer[2] = MemcpyAccesses(d, s, n)
          /\ answer[3] = [a \in 0 .. n - 1 |-> Memset(d, s - 3, n, a)]
      BY <2>1 DEF MemoryAnswer, Answered
    <3> HIDE DEF d, s, n
    <3>2. Covers(answer[1], n) /\ AlignedAt(answer[1], d)
      BY <3>1, MemsetRight
    <3>3. Covers(answer[2], n) /\ AlignedAt(answer[2], d) /\ AlignedAt(answer[2], s)
      BY <3>1, MemcpyRight
    <3>4. ASSUME NEW a \in 0 .. n - 1 PROVE answer[3][a] = (s - 3) % ByteVals
      <4>1. s - 3 \in Int
        BY <3>1
      <4>2. Memset(d, s - 3, n, a) = (s - 3) % ByteVals
        BY <3>1, <4>1, MemsetFills
      <4> QED BY <3>1, <4>2
    <3> QED BY <3>2, <3>3, <3>4 DEF d, s, n
  <2>2. ASSUME StringsAnswer, Answered("strings")
        PROVE  /\ answer[1] = Len(Text(question.a))
               /\ answer[2] = 0 <=> Text(question.a) = Text(question.b)
               /\ answer[3] = 0 <=> Start(question.a, question.n) = Start(question.b, question.n)
    <3>1. /\ IsString(question.a) /\ IsString(question.b) /\ question.n \in Nat
          /\ answer[1] = Strlen(question.a) /\ answer[2] = Strcmp(question.a, question.b)
          /\ answer[3] = Strncmp(question.a, question.b, question.n)
      BY <2>2 DEF StringsAnswer, Answered
    <3> QED BY <3>1, StringsCompared
  <2> QED BY <2>1, <2>2 DEF MemRight
<1> HIDE DEF Inv
<1> QED BY <1>1, <1>2, <1>3, PTL DEF Spec

(***************************************************************************)
(* The hashes: the blocks processed are the padded message                 *)
(***************************************************************************)
(* What a block may hold: bytes, those of a length among them.             *)
Octets == Int \union {H!ByteOf(v, k) : v \in Nat, k \in 0..7}
Messages == Seq(Octets)
HashBuf == [0..63 -> Octets]
HashBlock == [1..64 -> Octets]
HashState == [len : Nat, buf : HashBuf, blocks : Seq(HashBlock)]

(* The blocks are the first n of a message.                                *)
Hashed(blocks, m, n) ==
  /\ blocks \in Seq(HashBlock) /\ Len(blocks) = n
  /\ \A i \in 1..n, b \in 1..64 : blocks[i][b] = m[64 * (i - 1) + b]

(* The first k bytes of the buffer follow n blocks of a message.           *)
Buffered(buf, m, n, k) ==
  buf \in HashBuf /\ \A b \in 0 .. k - 1 : buf[b] = m[64 * n + b + 1]

(* What has been taken in is a message: its whole blocks are processed,    *)
(* and what is left of it is in the buffer.                                *)
Taken(s, m) ==
  /\ s \in HashState /\ s.len = Len(m)
  /\ Hashed(s.blocks, m, Len(m) \div 64)
  /\ Buffered(s.buf, m, Len(m) \div 64, Len(m) % 64)

(* Processing a block that holds the next 64 bytes goes on by one block.   *)
LEMMA BlockHashed ==
  ASSUME NEW s \in HashState, NEW m \in Messages, NEW n \in Nat, NEW block,
         Hashed(s.blocks, m, n), Buffered(block, m, n, 64)
  PROVE  /\ H!ProcessBlock(s, block) \in HashState
         /\ H!ProcessBlock(s, block).len = s.len /\ H!ProcessBlock(s, block).buf = s.buf
         /\ Hashed(H!ProcessBlock(s, block).blocks, m, n + 1)
<1> DEFINE new == [k \in 1..64 |-> block[k - 1]]
           more == Append(s.blocks, new)
<1>1. H!ProcessBlock(s, block) = [s EXCEPT !.blocks = more]
  BY DEF H!ProcessBlock, H!BlockLen, HashState
<1>2. new \in HashBlock
  BY DEF Buffered, HashBuf, HashBlock
<1>3. \A b \in 1..64 : new[b] = m[64 * n + b]
  <2> SUFFICES ASSUME NEW b \in 1..64 PROVE new[b] = m[64 * n + b]
    OBVIOUS
  <2>1. b - 1 \in 0..63 /\ 64 * n + (b - 1) + 1 = 64 * n + b
    OBVIOUS
  <2>2. block[b - 1] = m[64 * n + (b - 1) + 1]
    BY <2>1 DEF Buffered
  <2> QED BY <2>1, <2>2
<1> HIDE DEF new
<1>4. s.blocks \in Seq(HashBlock) /\ Len(s.blocks) = n
  BY DEF Hashed
<1>5. /\ more \in Seq(HashBlock) /\ Len(more) = n + 1
      /\ \A i \in 1..n : more[i] = s.blocks[i]
      /\ more[n + 1] = new
  BY <1>2, <1>4, AppendProperties
<1> HIDE DEF more
<1>6. ASSUME NEW i \in 1 .. n + 1, NEW b \in 1..64 PROVE more[i][b] = m[64 * (i - 1) + b]
  <2>1. CASE i \in 1..n
    <3>1. s.blocks[i][b] = m[64 * (i - 1) + b]
      BY <2>1 DEF Hashed
    <3> QED BY <1>5, <2>1, <3>1
  <2>2. CASE i = n + 1
    <3>1. i - 1 = n
      BY <2>2
    <3> QED BY <1>3, <1>5, <2>2, <3>1
  <2> QED BY <2>1, <2>2
<1>7. Hashed(more, m, n + 1)
  BY <1>5, <1>6 DEF Hashed
<1> QED BY <1>1, <1>5, <1>7 DEF HashState

(* The buffer with some bytes put into it.                                 *)
LEMMA PutBytes ==
  ASSUME NEW buf \in HashBuf, NEW p \in Messages, NEW at \in Nat, at + Len(p) <= 64
  PROVE  /\ H!Put(buf, at, p) \in HashBuf
         /\ \A k \in 0..63 : k >= at /\ k < at + Len(p) => H!Put(buf, at, p)[k] = p[k - at + 1]
         /\ \A k \in 0..63 : k < at \/ k >= at + Len(p) => H!Put(buf, at, p)[k] = buf[k]
<1> DEFINE put == H!Put(buf, at, p)
<1>1. Len(p) \in Nat /\ \A k \in 1..Len(p) : p[k] \in Octets
  BY ElementOfSeq, LenProperties DEF Messages
<1>2. put = [k \in 0..63 |-> IF k >= at /\ k < at + Len(p) THEN p[k - at + 1] ELSE buf[k]]
  BY DEF H!Put, H!BlockLen
<1> HIDE DEF put
<1>3. ASSUME NEW k \in 0..63 PROVE put[k] \in Octets
  <2>1. k >= at /\ k < at + Len(p) => k - at + 1 \in 1..Len(p)
    BY <1>1
  <2> QED BY <1>1, <1>2, <2>1 DEF HashBuf
<1>4. put \in HashBuf
  BY <1>2, <1>3 DEF HashBuf
<1>5. /\ \A k \in 0..63 : k >= at /\ k < at + Len(p) => put[k] = p[k - at + 1]
      /\ \A k \in 0..63 : k < at \/ k >= at + Len(p) => put[k] = buf[k]
  <2> SUFFICES ASSUME NEW k \in 0..63
               PROVE  /\ k >= at /\ k < at + Len(p) => put[k] = p[k - at + 1]
                      /\ k < at \/ k >= at + Len(p) => put[k] = buf[k]
    BY <1>1
  <2>1. put[k] = IF k >= at /\ k < at + Len(p) THEN p[k - at + 1] ELSE buf[k]
    BY <1>2
  <2> HIDE DEF put
  <2> QED BY <1>1, <2>1
<1> QED BY <1>4, <1>5 DEF put

(* A part of a message is a message of its length.                         *)
LEMMA PartOf ==
  ASSUME NEW p \in Messages, NEW a \in Nat, NEW b \in 0..Len(p), a <= b
  PROVE  /\ SubSeq(p, a + 1, b) \in Messages /\ Len(SubSeq(p, a + 1, b)) = b - a
         /\ \A k \in 1 .. b - a : SubSeq(p, a + 1, b)[k] = p[a + k]
<1> DEFINE part == SubSeq(p, a + 1, b)
<1>1. Len(p) \in Nat /\ \A k \in 1..Len(p) : p[k] \in Octets
  BY ElementOfSeq, LenProperties DEF Messages
<1>2. a + 1 \in Int /\ b \in Int /\ \A k \in a + 1 .. b : p[k] \in Octets
  BY <1>1
<1>3. /\ part \in Seq(Octets) /\ Len(part) = IF a + 1 <= b THEN b - (a + 1) + 1 ELSE 0
      /\ \A k \in 1 .. b - (a + 1) + 1 : part[k] = p[a + 1 + k - 1]
  BY <1>2, SubSeqProperties
<1> HIDE DEF part
<1>4. Len(part) = b - a
  BY <1>1, <1>3
<1>5. \A k \in 1 .. b - a : part[k] = p[a + k]
  <2> SUFFICES ASSUME NEW k \in 1 .. b - a PROVE part[k] = p[a + k]
    OBVIOUS
  <2>1. k \in 1 .. b - (a + 1) + 1 /\ a + 1 + k - 1 = a + k
    BY <1>1
  <2> QED BY <1>3, <2>1
<1> QED BY <1>3, <1>4, <1>5 DEF part, Messages

(* Filling changes the bytes asked for, to zero, and no other.             *)
LEMMA FillBytes ==
  ASSUME NEW buf \in HashBuf, NEW a \in Nat, NEW b \in Nat
  PROVE  /\ H!Fill(buf, a, b) \in HashBuf
         /\ \A k \in 0..63 : k >= a /\ k < b => H!Fill(buf, a, b)[k] = 0
         /\ \A k \in 0..63 : k < a \/ k >= b => H!Fill(buf, a, b)[k] = buf[k]
<1>1. 0 \in Octets
  BY DEF Octets
<1> QED BY <1>1 DEF H!Fill, H!BlockLen, HashBuf

(* WholeBlocks() as its blocks one by one.                                 *)
BlockAfter(p, from, k) == [b \in 0 .. H!BlockLen - 1 |-> p[from + (k-1) * H!BlockLen + b + 1]]
Blockwise(f, s, p, from, n) ==
  f = [k \in 0..n |-> IF k = 0 THEN s ELSE H!ProcessBlock(f[k-1], BlockAfter(p, from, k))]
States(s, p, from, n) == CHOOSE f : Blockwise(f, s, p, from, n)

(* update() processes the whole blocks, one state after the other, and     *)
(* keeps the rest.                                                         *)
LEMMA WholeBlocksIs ==
  ASSUME NEW s, NEW p, NEW from
  PROVE  LET n == (Len(p) - from) \div 64
         IN H!WholeBlocks(s, p, from) =
              [States(s, p, from, n)[n] EXCEPT
                 !.buf = H!Put(@, 0, SubSeq(p, from + n * 64 + 1, Len(p)))]
BY DEF H!WholeBlocks, States, Blockwise, BlockAfter, H!BlockLen

(* There is such a row of states.                                          *)
LEMMA BlockwiseExists ==
  ASSUME NEW s, NEW p, NEW from, NEW N \in Nat
  PROVE  \E f : Blockwise(f, s, p, from, N)
<1> DEFINE Has(n) == \E f : Blockwise(f, s, p, from, n)
           Bad == {n \in 0..N : ~Has(n)}
<1>1. SUFFICES ASSUME Bad # {} PROVE FALSE
  OBVIOUS
<1>2. PICK n \in Bad : \A k \in Bad : n <= k
  <2>1. Bad \subseteq Nat
    OBVIOUS
  <2> HIDE DEF Bad
  <2> QED BY <1>1, <2>1, Least
<1>3. n # 0
  <2>1. Blockwise([k \in 0..0 |-> s], s, p, from, 0)
    BY DEF Blockwise
  <2> QED BY <2>1
<1>4. PICK f : Blockwise(f, s, p, from, n - 1)
  <2>1. n - 1 \in 0..N /\ n - 1 \notin Bad
    BY <1>2, <1>3
  <2> QED BY <2>1
<1> DEFINE Next1(k, t) == H!ProcessBlock(t, BlockAfter(p, from, k))
           g == [k \in 0..n |-> IF k = n THEN Next1(n, f[n-1]) ELSE f[k]]
<1>5. Blockwise(g, s, p, from, n)
  <2>0. n \in Nat /\ n > 0
    BY <1>2, <1>3
  <2>1. ASSUME NEW k \in 0..n PROVE g[k] = IF k = 0 THEN s ELSE Next1(k, g[k-1])
    <3> HIDE DEF Next1
    <3>1. \A j \in 0 .. n - 1 : f[j] = IF j = 0 THEN s ELSE Next1(j, f[j-1])
      <4>1. f = [j \in 0 .. n - 1 |-> IF j = 0 THEN s ELSE Next1(j, f[j-1])]
        BY <1>4 DEF Blockwise, Next1
      <4> QED BY <4>1
    <3>2. g[n] = Next1(n, f[n-1]) /\ \A j \in 0 .. n - 1 : g[j] = f[j]
      BY <2>0
    <3> HIDE DEF g
    <3>3. CASE k = n
      BY <2>0, <3>2, <3>3
    <3>4. CASE k < n
      <4>1. k \in 0 .. n - 1 /\ (k # 0 => k - 1 \in 0 .. n - 1)
        BY <2>0, <3>4
      <4> QED BY <3>1, <3>2, <4>1
    <3> QED BY <2>0, <3>3, <3>4
  <2>2. g = [k \in 0..n |-> g[k]]
    OBVIOUS
  <2> HIDE DEF g
  <2> QED BY <2>1, <2>2 DEF Blockwise
<1> QED BY <1>2, <1>5

(* It follows its recursion.                                               *)
LEMMA StatesAre ==
  ASSUME NEW s, NEW p, NEW from, NEW N \in Nat, NEW k \in 0..N
  PROVE  States(s, p, from, N)[k] =
           IF k = 0 THEN s ELSE H!ProcessBlock(States(s, p, from, N)[k-1], BlockAfter(p, from, k))
<1> DEFINE F == States(s, p, from, N)
<1>1. Blockwise(F, s, p, from, N)
  BY BlockwiseExists DEF States
<1> HIDE DEF F
<1>2. F = [j \in 0..N |-> IF j = 0 THEN s ELSE H!ProcessBlock(F[j-1], BlockAfter(p, from, j))]
  BY <1>1 DEF Blockwise
<1>3. F[k] = IF k = 0 THEN s ELSE H!ProcessBlock(F[k-1], BlockAfter(p, from, k))
  BY <1>2
<1> QED BY <1>3 DEF F

(* Behind n blocks of the message m the rest of it is p from "from" on.    *)
Follows(m, n, p, from) ==
  /\ from \in 0..Len(p) /\ Len(m) = 64 * n + (Len(p) - from)
  /\ \A k \in 1 .. Len(p) - from : m[64 * n + k] = p[from + k]

(* After k blocks the hash has gone on by k blocks.                        *)
LEMMA StatesHash ==
  ASSUME NEW s \in HashState, NEW p \in Messages, NEW m \in Messages, NEW n \in Nat, NEW from,
         Hashed(s.blocks, m, n), Follows(m, n, p, from),
         NEW N \in Nat, 64 * N <= Len(p) - from
  PROVE  \A k \in 0..N : LET t == States(s, p, from, N)[k]
                         IN /\ t \in HashState /\ t.len = s.len /\ t.buf = s.buf
                            /\ Hashed(t.blocks, m, n + k)
<1> DEFINE t(k) == States(s, p, from, N)[k]
           Good(k) == /\ t(k) \in HashState /\ t(k).len = s.len /\ t(k).buf = s.buf
                      /\ Hashed(t(k).blocks, m, n + k)
           Bad == {k \in 0..N : ~Good(k)}
<1>1. SUFFICES ASSUME Bad # {} PROVE FALSE
  OBVIOUS
<1>2. PICK k \in Bad : \A j \in Bad : k <= j
  <2>1. Bad \subseteq Nat
    OBVIOUS
  <2> HIDE DEF Bad
  <2> QED BY <1>1, <2>1, Least
<1>0. t(0) = s /\ \A j \in 1..N : t(j) = H!ProcessBlock(t(j-1), BlockAfter(p, from, j))
  <2>1. t(0) = s
    BY StatesAre
  <2>2. ASSUME NEW j \in 1..N PROVE t(j) = H!ProcessBlock(t(j-1), BlockAfter(p, from, j))
    <3>1. j \in 0..N /\ j # 0
      OBVIOUS
    <3> QED BY <3>1, StatesAre
  <2> QED BY <2>1, <2>2
<1> HIDE DEF t
<1>3. k # 0
  <2>1. Good(0)
    BY <1>0
  <2> QED BY <1>2, <2>1
<1>4. k \in 1..N /\ k - 1 \in 0..N /\ k - 1 \in Nat /\ n + (k - 1) \in Nat
  BY <1>2, <1>3
<1>5. Good(k - 1)
  <2>1. k - 1 \notin Bad
    BY <1>2, <1>4
  <2> QED BY <1>4, <2>1
<1>6. Buffered(BlockAfter(p, from, k), m, n + (k - 1), 64)
  <2>1. Len(p) \in Nat /\ (\A j \in 1..Len(p) : p[j] \in Octets) /\ from \in 0..Len(p)
    BY ElementOfSeq, LenProperties DEF Messages, Follows
  <2>2. ASSUME NEW b \in 0..63
        PROVE  /\ p[from + (k-1) * 64 + b + 1] \in Octets
               /\ p[from + (k-1) * 64 + b + 1] = m[64 * (n + (k-1)) + b + 1]
    <3> DEFINE j == (k-1) * 64 + b + 1
    <3>1. j \in 1 .. Len(p) - from
      BY <1>4, <2>1
    <3>2. m[64 * n + j] = p[from + j]
      BY <3>1 DEF Follows
    <3>3. from + j \in 1..Len(p)
      BY <2>1, <3>1
    <3>4. p[from + j] \in Octets
      BY <2>1, <3>3
    <3>5. from + (k-1) * 64 + b + 1 = from + j /\ 64 * (n + (k-1)) + b + 1 = 64 * n + j
      BY <1>4, <2>1
    <3> QED BY <3>2, <3>4, <3>5
  <2>3. BlockAfter(p, from, k) = [b \in 0..63 |-> p[from + (k-1) * 64 + b + 1]]
    BY DEF BlockAfter, H!BlockLen
  <2> DEFINE P(b) == p[from + (k-1) * 64 + b + 1]
             M(b) == m[64 * (n + (k-1)) + b + 1]
  <2>4. \A b \in 0..63 : P(b) \in Octets /\ P(b) = M(b)
    BY <2>2
  <2>5. 0 .. 64 - 1 = 0..63
    OBVIOUS
  <2> HIDE DEF P
  <2>6. /\ [b \in 0..63 |-> P(b)] \in HashBuf
        /\ \A b \in 0 .. 64 - 1 : [c \in 0..63 |-> P(c)][b] = M(b)
    <3> HIDE DEF M
    <3> QED BY <2>4, <2>5 DEF HashBuf
  <2>7. BlockAfter(p, from, k) = [b \in 0..63 |-> P(b)]
    BY <2>3 DEF P
  <2> QED BY <2>6, <2>7 DEF Buffered
<1>7. /\ t(k) \in HashState /\ t(k).len = s.len /\ t(k).buf = s.buf
      /\ Hashed(t(k).blocks, m, n + (k - 1) + 1)
  <2>1. t(k) = H!ProcessBlock(t(k-1), BlockAfter(p, from, k))
    BY <1>0, <1>4
  <2> HIDE DEF Bad
  <2> QED BY <1>4, <1>5, <1>6, <2>1, BlockHashed
<1>8. n + (k - 1) + 1 = n + k
  BY <1>4
<1> QED BY <1>2, <1>7, <1>8

(* What follows in the message may be put or filled in behind what is in   *)
(* the buffer.                                                             *)
HoldsAt(w, n, k, p) == \A j \in 1..Len(p) : w[64 * n + k + j] = p[j]
NullsAt(w, n, k, to) == \A b \in k .. to - 1 : w[64 * n + b + 1] = 0

(* Putting the next bytes behind those in the buffer continues the         *)
(* message.                                                                *)
LEMMA PutBuffered ==
  ASSUME NEW buf, NEW w, NEW n \in Nat, NEW k \in Nat, NEW p \in Messages,
         Buffered(buf, w, n, k), HoldsAt(w, n, k, p), NEW to \in Nat, to <= 64, to = k + Len(p)
  PROVE  Buffered(H!Put(buf, k, p), w, n, to)
<1> DEFINE put == H!Put(buf, k, p)
<1>0. Len(p) \in Nat
  BY LenProperties DEF Messages
<1>1. Len(p) \in Nat /\ to = k + Len(p) /\ to <= 64
  BY <1>0
<1>2. buf \in HashBuf /\ \A b \in 0 .. k - 1 : buf[b] = w[64 * n + b + 1]
  BY DEF Buffered
<1>3. /\ put \in HashBuf
      /\ \A b \in 0..63 : b >= k /\ b < k + Len(p) => put[b] = p[b - k + 1]
      /\ \A b \in 0..63 : b < k \/ b >= k + Len(p) => put[b] = buf[b]
  <2>1. k + Len(p) <= 64
    BY <1>1
  <2> HIDE DEF put
  <2> QED BY <1>2, <2>1, PutBytes DEF put
<1> HIDE DEF put
<1>4. ASSUME NEW b \in 0 .. to - 1 PROVE put[b] = w[64 * n + b + 1]
  <2>1. b \in 0..63
    BY <1>1
  <2>2. CASE b < k
    <3>1. b \in 0 .. k - 1
      BY <2>2
    <3> QED BY <1>2, <1>3, <2>1, <2>2, <3>1
  <2>3. CASE b >= k
    <3> DEFINE j == b - k + 1
    <3>1. j \in 1..Len(p) /\ 64 * n + k + j = 64 * n + b + 1 /\ b < k + Len(p)
      BY <1>1, <2>3
    <3>2. put[b] = p[j]
      BY <1>3, <2>1, <2>3, <3>1
    <3>3. w[64 * n + k + j] = p[j]
      BY <3>1 DEF HoldsAt
    <3> QED BY <3>1, <3>2, <3>3
  <2> QED BY <2>1, <2>2, <2>3
<1> QED BY <1>3, <1>4 DEF Buffered, put

(* So does filling, where the message has zeros.                           *)
LEMMA FillBuffered ==
  ASSUME NEW buf, NEW w, NEW n \in Nat, NEW to \in Nat, NEW k \in Nat, k <= to, to <= 64,
         Buffered(buf, w, n, k), NullsAt(w, n, k, to)
  PROVE  Buffered(H!Fill(buf, k, to), w, n, to)
<1> DEFINE fill == H!Fill(buf, k, to)
<1>1. buf \in HashBuf /\ \A b \in 0 .. k - 1 : buf[b] = w[64 * n + b + 1]
  BY DEF Buffered
<1>2. /\ fill \in HashBuf
      /\ \A b \in 0..63 : b >= k /\ b < to => fill[b] = 0
      /\ \A b \in 0..63 : b < k \/ b >= to => fill[b] = buf[b]
  <2>1. k \in Nat /\ to \in Nat
    OBVIOUS
  <2> HIDE DEF fill
  <2> QED BY <1>1, <2>1, FillBytes DEF fill
<1> HIDE DEF fill
<1>3. ASSUME NEW b \in 0 .. to - 1 PROVE fill[b] = w[64 * n + b + 1]
  <2>1. b \in 0..63 /\ (b < k => b \in 0 .. k - 1) /\ (b >= k => b \in k .. to - 1)
    OBVIOUS
  <2>2. CASE b < k
    BY <1>1, <1>2, <2>1, <2>2
  <2>3. CASE b >= k
    <3>1. b < to
      OBVIOUS
    <3>2. fill[b] = 0
      BY <1>2, <2>1, <2>3, <3>1
    <3>3. w[64 * n + b + 1] = 0
      BY <2>1, <2>3 DEF NullsAt
    <3> QED BY <3>2, <3>3
  <2> QED BY <2>1, <2>2, <2>3
<1> QED BY <1>2, <1>3 DEF Buffered, fill

(* With no block begun, update() takes the whole part.                     *)
LEMMA WholeBlocksTaken ==
  ASSUME NEW s \in HashState, NEW p \in Messages, NEW m \in Messages, NEW n \in Nat, NEW from,
         Hashed(s.blocks, m, n), Follows(m, n, p, from), s.len = Len(m)
  PROVE  Taken(H!WholeBlocks(s, p, from), m)
<1> DEFINE N == (Len(p) - from) \div 64
           t == States(s, p, from, N)[N]
           rest == SubSeq(p, from + N * 64 + 1, Len(p))
           w == H!WholeBlocks(s, p, from)
<1>1. /\ Len(p) \in Nat /\ Len(m) \in Nat /\ from \in 0..Len(p)
      /\ Len(m) = 64 * n + (Len(p) - from)
  BY LenProperties DEF Messages, Follows
<1>2. N \in Nat /\ 64 * N <= Len(p) - from /\ Len(p) - from < 64 * N + 64
  BY <1>1
<1>3. w = [t EXCEPT !.buf = H!Put(@, 0, rest)]
  BY WholeBlocksIs
<1>4. /\ Len(m) \div 64 = n + N
      /\ Len(m) % 64 = Len(p) - from - 64 * N
  BY <1>1, <1>2
<1> HIDE DEF N
<1>5. t \in HashState /\ t.len = s.len /\ Hashed(t.blocks, m, n + N)
  <2>1. N \in 0..N
    BY <1>2
  <2> QED BY <1>2, <2>1, StatesHash
<1> HIDE DEF t, w
<1>6. /\ rest \in Messages /\ Len(rest) = Len(p) - from - 64 * N
      /\ \A k \in 1..Len(rest) : rest[k] = p[from + 64 * N + k]
  <2> DEFINE a == from + N * 64
  <2>1. a \in Nat /\ a <= Len(p) /\ Len(p) \in 0..Len(p) /\ a = from + 64 * N
    BY <1>1, <1>2
  <2> HIDE DEF a
  <2>2. /\ rest \in Messages /\ Len(rest) = Len(p) - a
        /\ \A k \in 1 .. Len(p) - a : rest[k] = p[a + k]
    BY <2>1, PartOf DEF a
  <2> HIDE DEF rest
  <2>3. Len(p) - a = Len(p) - from - 64 * N
    BY <1>1, <1>2, <2>1
  <2> QED BY <2>1, <2>2, <2>3
<1> HIDE DEF rest
<1>7. t.buf \in HashBuf
  BY <1>5 DEF HashState
<1> DEFINE buf == H!Put(t.buf, 0, rest)
<1>8. Buffered(buf, m, n + N, Len(rest))
  <2>1. HoldsAt(m, n + N, 0, rest)
    <3>1. ASSUME NEW b \in 1..Len(rest) PROVE m[64 * (n + N) + 0 + b] = rest[b]
      <4> DEFINE j == 64 * N + b
      <4>1. j \in 1 .. Len(p) - from
        BY <1>1, <1>2, <1>6
      <4>2. rest[b] = p[from + 64 * N + b]
        BY <1>6
      <4>3. m[64 * n + j] = p[from + j]
        BY <4>1 DEF Follows
      <4>4. 64 * (n + N) + 0 + b = 64 * n + j /\ from + 64 * N + b = from + j
        BY <1>1, <1>2
      <4> QED BY <4>2, <4>3, <4>4
    <3> QED BY <3>1 DEF HoldsAt
  <2>2. Len(rest) \in Nat /\ Len(rest) <= 64
    <3>1. Len(rest) = Len(p) - from - 64 * N
      BY <1>6
    <3> HIDE DEF rest
    <3> QED BY <1>1, <1>2, <3>1
  <2>4. Len(rest) = 0 + Len(rest) /\ n + N \in Nat
    BY <1>2, <2>2
  <2>3. Buffered(t.buf, m, n + N, 0)
    BY <1>7 DEF Buffered
  <2> HIDE DEF buf
  <2> QED BY <1>6, <2>1, <2>2, <2>3, <2>4, PutBuffered DEF buf
<1>9. w \in HashState /\ w.len = s.len /\ w.blocks = t.blocks /\ w.buf = buf
  <2> HIDE DEF buf
  <2>1. w = [t EXCEPT !.buf = buf]
    BY <1>3 DEF buf
  <2> QED BY <1>5, <1>8, <2>1 DEF HashState, Buffered
<1> HIDE DEF buf
<1> QED BY <1>4, <1>5, <1>6, <1>8, <1>9 DEF Taken, w

(* What is left of a block fits in one.                                    *)
LEMMA RestIs == \A x \in Int : x % 64 \in 0..63
  OBVIOUS

(* A length is whole blocks and a rest.                                    *)
LEMMA BlocksAndRest ==
  ASSUME NEW n \in Nat
  PROVE  n \div 64 \in Nat /\ n % 64 \in Nat /\ n % 64 < 64 /\ n = 64 * (n \div 64) + (n % 64)
  OBVIOUS

(* A message that goes on keeps its start.                                 *)
LEMMA LongerMessage ==
  ASSUME NEW m \in Messages, NEW w, NEW s, Taken(s, m),
         \A k \in 1..Len(m) : w[k] = m[k]
  PROVE  Hashed(s.blocks, w, Len(m) \div 64) /\ Buffered(s.buf, w, Len(m) \div 64, Len(m) % 64)
<1> DEFINE q == Len(m) \div 64
           r == Len(m) % 64
<1>1. Len(m) \in Nat /\ q \in Nat /\ r \in Nat /\ r < 64 /\ Len(m) = 64 * q + r
  <2>1. Len(m) \in Nat
    BY LenProperties DEF Messages
  <2> QED BY <2>1, BlocksAndRest
<1>2. Hashed(s.blocks, m, q) /\ Buffered(s.buf, m, q, r)
  BY DEF Taken
<1> HIDE DEF q, r
<1>3. ASSUME NEW i \in 1..q, NEW b \in 1..64 PROVE s.blocks[i][b] = w[64 * (i - 1) + b]
  <2>1. 64 * (i - 1) + b \in 1..Len(m)
    BY <1>1
  <2>2. s.blocks[i][b] = m[64 * (i - 1) + b]
    BY <1>2 DEF Hashed
  <2>3. w[64 * (i - 1) + b] = m[64 * (i - 1) + b]
    BY <2>1
  <2> QED BY <2>2, <2>3
<1>4. ASSUME NEW b \in 0 .. r - 1 PROVE s.buf[b] = w[64 * q + b + 1]
  <2>a. r \in Nat
    BY <1>1
  <2>0. b \in Nat /\ b < r
    BY <2>a
  <2>1. 64 * q + b + 1 \in 1..Len(m)
    BY <1>1, <2>0
  <2>2. s.buf[b] = m[64 * q + b + 1]
    BY <1>2 DEF Buffered
  <2>3. w[64 * q + b + 1] = m[64 * q + b + 1]
    BY <2>1
  <2> QED BY <2>2, <2>3
<1>5. Hashed(s.blocks, w, q)
  BY <1>2, <1>3 DEF Hashed
<1>6. Buffered(s.buf, w, q, r)
  BY <1>2, <1>4 DEF Buffered
<1> QED BY <1>5, <1>6 DEF q, r

(* sha256_init() empties the hash, whatever the buffer holds.              *)
LEMMA InitTaken ==
  ASSUME NEW s \in HashState
  PROVE  Taken(H!Init(s), <<>>)
<1> DEFINE t == H!Init(s)
<1>1. t \in HashState /\ t.len = 0 /\ t.blocks = <<>>
  <2>1. <<>> \in Seq(HashBlock)
    OBVIOUS
  <2>2. t = [s EXCEPT !.len = 0, !.blocks = <<>>]
    BY DEF H!Init
  <2> HIDE DEF t
  <2> QED BY <2>1, <2>2 DEF HashState
<1> HIDE DEF t
<1>2. Len(<<>>) = 0 /\ 0 \div 64 = 0 /\ 0 % 64 = 0
  OBVIOUS
<1>3. Hashed(t.blocks, <<>>, 0)
  BY <1>1 DEF Hashed
<1>4. Buffered(t.buf, <<>>, 0, 0)
  BY <1>1 DEF Buffered, HashState
<1> QED BY <1>1, <1>2, <1>3, <1>4 DEF Taken, t

IsJoined(w, m, p) ==
  /\ Len(m) \in Nat /\ Len(p) \in Nat
  /\ w \in Messages /\ Len(w) = Len(m) + Len(p)
  /\ \A k \in 1..Len(m) : w[k] = m[k]
  /\ \A k \in 1..Len(p) : w[Len(m) + k] = p[k]

(* Two messages behind each other: each at its place.                      *)
LEMMA Joined ==
  ASSUME NEW m \in Messages, NEW p \in Messages
  PROVE  IsJoined(m \o p, m, p)
<1> DEFINE w == m \o p
<1>1. Len(m) \in Nat /\ Len(p) \in Nat /\ w \in Messages /\ Len(w) = Len(m) + Len(p)
  BY LenProperties, ConcatProperties DEF Messages
<1>2. \A k \in 1 .. Len(m) + Len(p) : w[k] = IF k <= Len(m) THEN m[k] ELSE p[k - Len(m)]
  BY ConcatProperties DEF Messages
<1> HIDE DEF w
<1>3. ASSUME NEW k \in 1..Len(m) PROVE w[k] = m[k]
  <2>1. k \in 1 .. Len(m) + Len(p) /\ k <= Len(m)
    BY <1>1
  <2> QED BY <1>2, <2>1
<1>4. ASSUME NEW k \in 1..Len(p) PROVE w[Len(m) + k] = p[k]
  <2>1. Len(m) + k \in 1 .. Len(m) + Len(p) /\ ~(Len(m) + k <= Len(m)) /\ (Len(m) + k) - Len(m) = k
    BY <1>1
  <2> QED BY <1>2, <2>1
<1> QED BY <1>1, <1>3, <1>4 DEF IsJoined, w

(* sha256_update() takes in what it is given.                              *)
LEMMA UpdateTaken ==
  ASSUME NEW m \in Messages, NEW p \in Messages, NEW s, Taken(s, m)
  PROVE  m \o p \in Messages /\ Taken(H!Update(s, p), m \o p)
<1> DEFINE w == m \o p
           q == Len(m) \div 64
           r == s.len % 64
           t == [s EXCEPT !.len = @ + Len(p)]
           filled == H!Put(s.buf, r, SubSeq(p, 1, 64 - r))
           u == H!Update(s, p)
<1>1. /\ Len(m) \in Nat /\ Len(p) \in Nat
      /\ w \in Messages /\ Len(w) = Len(m) + Len(p)
      /\ \A k \in 1..Len(m) : w[k] = m[k]
      /\ \A k \in 1..Len(p) : w[Len(m) + k] = p[k]
  BY Joined DEF IsJoined
<1>2. s \in HashState /\ s.len = Len(m)
  BY DEF Taken
<1>3. q \in Nat /\ r \in Nat /\ r < 64 /\ Len(m) = 64 * q + r
  BY <1>1, <1>2, BlocksAndRest
<1> HIDE DEF w
<1>4. Hashed(s.blocks, w, q) /\ Buffered(s.buf, w, q, r)
  BY <1>1, <1>2, LongerMessage
<1>5. t \in HashState /\ t.len = Len(w) /\ t.buf = s.buf /\ t.blocks = s.blocks
  BY <1>1, <1>2 DEF HashState
<1>6. u = IF r = 0 THEN H!WholeBlocks(t, p, 0)
          ELSE IF Len(p) < 64 - r THEN [t EXCEPT !.buf = H!Put(@, r, p)]
          ELSE H!WholeBlocks(H!ProcessBlock([t EXCEPT !.buf = filled], filled), p, 64 - r)
  BY DEF H!Update, H!BlockLen
<1> HIDE DEF q, r, t, u
<1>7. CASE r = 0
  <2>1. Follows(w, q, p, 0)
    <3>1. 0 \in 0..Len(p) /\ Len(w) = 64 * q + (Len(p) - 0)
      BY <1>1, <1>3, <1>7
    <3>2. ASSUME NEW k \in 1 .. Len(p) - 0 PROVE w[64 * q + k] = p[0 + k]
      <4>1. k \in 1..Len(p) /\ 64 * q + k = Len(m) + k /\ 0 + k = k
        BY <1>1, <1>3, <1>7
      <4> QED BY <1>1, <4>1
    <3> QED BY <3>1, <3>2 DEF Follows
  <2>2. Taken(H!WholeBlocks(t, p, 0), w)
    BY <1>1, <1>3, <1>4, <1>5, <2>1, WholeBlocksTaken
  <2> QED BY <1>1, <1>6, <1>7, <2>2 DEF w, u
<1>8. CASE r # 0 /\ Len(p) < 64 - r
  <2> DEFINE buf == H!Put(s.buf, r, p)
             v == [t EXCEPT !.buf = buf]
  <2>1. Buffered(buf, w, q, r + Len(p))
    <3>1. HoldsAt(w, q, r, p)
      <4>1. \A j \in 1..Len(p) : w[Len(m) + j] = p[j]
        BY <1>1
      <4> QED BY <1>3, <4>1 DEF HoldsAt
    <3>0. Len(p) \in Nat
      BY <1>1
    <3>2. r + Len(p) \in Nat /\ r + Len(p) <= 64
      BY <1>3, <1>8, <3>0
    <3> QED BY <1>3, <1>4, <3>1, <3>2, PutBuffered
  <2>2. u = v
    BY <1>5, <1>6, <1>8
  <2> HIDE DEF buf
  <2>3. v \in HashState /\ v.len = Len(w) /\ v.buf = buf /\ v.blocks = s.blocks
    BY <1>5, <2>1 DEF HashState, Buffered
  <2> HIDE DEF v
  <2>4. Len(w) \div 64 = q /\ Len(w) % 64 = r + Len(p)
    BY <1>1, <1>3, <1>8
  <2>5. Taken(v, w)
    BY <1>4, <2>1, <2>3, <2>4 DEF Taken
  <2> QED BY <1>1, <2>2, <2>5 DEF w, u
<1>9. CASE r # 0 /\ Len(p) >= 64 - r
  <2> DEFINE front == SubSeq(p, 1, 64 - r)
             v == [t EXCEPT !.buf = filled]
             x == H!ProcessBlock(v, filled)
  <2>1. front \in Messages /\ Len(front) = 64 - r /\ \A k \in 1 .. 64 - r : front[k] = p[k]
    <3>1. 0 \in Nat /\ 64 - r \in 0..Len(p) /\ 0 <= 64 - r
      BY <1>1, <1>3, <1>9
    <3>2. /\ SubSeq(p, 0 + 1, 64 - r) \in Messages /\ Len(SubSeq(p, 0 + 1, 64 - r)) = 64 - r - 0
          /\ \A k \in 1 .. 64 - r - 0 : SubSeq(p, 0 + 1, 64 - r)[k] = p[0 + k]
      BY <3>1, PartOf
    <3>3. 0 + 1 = 1 /\ 64 - r - 0 = 64 - r
      BY <1>3
    <3>4. \A k \in 1 .. 64 - r : 0 + k = k
      BY <1>3
    <3> QED BY <3>2, <3>3, <3>4
  <2> HIDE DEF front
  <2>2. Buffered(filled, w, q, 64)
    <3>1. HoldsAt(w, q, r, front)
      <4> SUFFICES ASSUME NEW j \in 1..Len(front) PROVE w[64 * q + r + j] = front[j]
        BY DEF HoldsAt
      <4>1. j \in 1 .. 64 - r /\ j \in 1..Len(p) /\ 64 * q + r + j = Len(m) + j
        BY <1>1, <1>3, <1>9, <2>1
      <4> QED BY <1>1, <2>1, <4>1
    <3>2. r \in Nat /\ 64 = r + Len(front) /\ 64 \in Nat /\ 64 <= 64
      BY <1>3, <2>1
    <3>3. Buffered(H!Put(s.buf, r, front), w, q, 64)
      BY <1>3, <1>4, <2>1, <3>1, <3>2, PutBuffered
    <3> QED BY <3>3 DEF front
  <2> HIDE DEF filled
  <2>3. v \in HashState /\ v.len = Len(w) /\ v.blocks = s.blocks
    BY <1>5, <2>2 DEF HashState, Buffered
  <2> HIDE DEF v
  <2>4. x \in HashState /\ x.len = Len(w) /\ Hashed(x.blocks, w, q + 1)
    BY <1>1, <1>3, <1>4, <2>2, <2>3, BlockHashed
  <2> HIDE DEF x
  <2>5. Follows(w, q + 1, p, 64 - r)
    <3>1. 64 - r \in 0..Len(p) /\ Len(w) = 64 * (q + 1) + (Len(p) - (64 - r))
      BY <1>1, <1>3, <1>9
    <3>2. ASSUME NEW k \in 1 .. Len(p) - (64 - r)
          PROVE w[64 * (q + 1) + k] = p[(64 - r) + k]
      <4>1. /\ 64 - r + k \in 1..Len(p)
            /\ 64 * (q + 1) + k = Len(m) + (64 - r + k)
        BY <1>1, <1>3, <1>9
      <4> QED BY <1>1, <4>1
    <3> QED BY <3>1, <3>2 DEF Follows
  <2>6. Taken(H!WholeBlocks(x, p, 64 - r), w)
    <3>1. q + 1 \in Nat
      BY <1>3
    <3> QED BY <1>1, <2>4, <2>5, <3>1, WholeBlocksTaken
  <2>7. u = H!WholeBlocks(x, p, 64 - r)
    <3>1. ~(Len(p) < 64 - r)
      BY <1>1, <1>3, <1>9
    <3> QED BY <1>6, <1>9, <3>1 DEF x, v
  <2> QED BY <1>1, <2>6, <2>7 DEF w, u
<1> QED BY <1>1, <1>3, <1>7, <1>8, <1>9

(* The padded message, part by part.                                       *)
PaddedParts(w, m, length, z) ==
  /\ Len(m) \in Nat /\ z \in 0..63
  /\ w \in Messages /\ Len(w) = Len(m) + 1 + z + 8
  /\ \A k \in 1..Len(m) : w[k] = m[k]
  /\ w[Len(m) + 1] = 128
  /\ \A k \in 1..z : w[Len(m) + 1 + k] = 0
  /\ \A k \in 1..8 : w[Len(m) + 1 + z + k] = length[k]

(* The padded message: the message, the one bit, zeros up to eight bytes   *)
(* before the end of a block, and the length.                              *)
LEMMA PaddedIs ==
  ASSUME NEW m \in Messages, NEW length \in Messages, Len(length) = 8
  PROVE  PaddedParts(H!Padded(m, length), m, length, (55 - Len(m)) % 64)
<1> DEFINE w == H!Padded(m, length)
           z == (55 - Len(m)) % 64
           stop == <<128>>
           zeros == [k \in 1..z |-> 0]
           a == m \o stop
           b == a \o zeros
<1>1. w = b \o length
  BY DEF H!Padded, H!LenAt, H!BlockLen, H!Stop
<1>2. Len(m) \in Nat
  BY LenProperties DEF Messages
<1>3. z \in 0..63
  <2>1. 55 - Len(m) \in Int
    BY <1>2
  <2> QED BY <2>1, RestIs
<1>4. stop \in Messages /\ Len(stop) = 1 /\ stop[1] = 128
  BY DEF Messages, Octets
<1>a. a = m \o stop /\ b = a \o zeros
  OBVIOUS
<1> HIDE DEF z, w, a, b
<1>5. zeros \in Messages /\ Len(zeros) = z /\ \A k \in 1..z : zeros[k] = 0
  BY <1>3 DEF Messages, Octets
<1> HIDE DEF stop, zeros
<1>6. /\ a \in Messages /\ Len(a) = Len(m) + 1
      /\ \A k \in 1..Len(m) : a[k] = m[k]
      /\ a[Len(m) + 1] = 128
  <2>1. /\ a \in Messages /\ Len(a) = Len(m) + Len(stop)
        /\ \A k \in 1..Len(m) : a[k] = m[k]
        /\ \A k \in 1..Len(stop) : a[Len(m) + k] = stop[k]
    <3>1. IsJoined(a, m, stop)
      BY <1>a, <1>4, Joined
    <3> QED BY <3>1 DEF IsJoined
  <2>2. 1 \in 1..Len(stop)
    BY <1>4
  <2> QED BY <1>4, <2>1, <2>2
<1>7. /\ b \in Messages /\ Len(b) = Len(a) + Len(zeros)
      /\ \A k \in 1..Len(a) : b[k] = a[k]
      /\ \A k \in 1..Len(zeros) : b[Len(a) + k] = zeros[k]
  <2>1. IsJoined(b, a, zeros)
    BY <1>a, <1>5, <1>6, Joined
  <2> QED BY <2>1 DEF IsJoined
<1>8. /\ w \in Messages /\ Len(w) = Len(b) + Len(length)
      /\ \A k \in 1..Len(b) : w[k] = b[k]
      /\ \A k \in 1..Len(length) : w[Len(b) + k] = length[k]
  <2>1. IsJoined(w, b, length)
    BY <1>1, <1>7, Joined
  <2> QED BY <2>1 DEF IsJoined
<1>9. Len(w) = Len(m) + 1 + z + 8 /\ Len(b) = Len(m) + 1 + z
  BY <1>2, <1>3, <1>5, <1>6, <1>7, <1>8
<1>10. \A k \in 1..Len(m) : w[k] = m[k]
  <2> SUFFICES ASSUME NEW k \in 1..Len(m) PROVE w[k] = m[k]
    OBVIOUS
  <2>1. k \in 1..Len(b) /\ k \in 1..Len(a)
    BY <1>2, <1>3, <1>6, <1>9
  <2> QED BY <1>6, <1>7, <1>8, <2>1
<1>11. w[Len(m) + 1] = 128
  <2>1. Len(m) + 1 \in 1..Len(b) /\ Len(m) + 1 \in 1..Len(a)
    BY <1>2, <1>3, <1>6, <1>9
  <2> QED BY <1>6, <1>7, <1>8, <2>1
<1>12. \A k \in 1..z : w[Len(m) + 1 + k] = 0
  <2> SUFFICES ASSUME NEW k \in 1..z PROVE w[Len(m) + 1 + k] = 0
    OBVIOUS
  <2>1. Len(m) + 1 + k \in 1..Len(b) /\ k \in 1..Len(zeros) /\ Len(m) + 1 + k = Len(a) + k
    BY <1>2, <1>3, <1>5, <1>6, <1>9
  <2>2. w[Len(m) + 1 + k] = b[Len(m) + 1 + k]
    BY <1>8, <2>1
  <2>3. b[Len(a) + k] = zeros[k]
    BY <1>7, <2>1
  <2>4. zeros[k] = 0
    BY <1>5
  <2> QED BY <2>1, <2>2, <2>3, <2>4
<1>13. \A k \in 1..8 : w[Len(m) + 1 + z + k] = length[k]
  BY <1>8, <1>9
<1> QED BY <1>2, <1>3, <1>8, <1>9, <1>10, <1>11, <1>12, <1>13 DEF PaddedParts, w, z

(* The number of zeros, by what of the message is in its last block.       *)
LEMMA Wrapped ==
  ASSUME NEW k \in Nat, k < 64, NEW q \in Nat
  PROVE  (55 - k - 64 * q) % 64 = IF k > 55 THEN 119 - k ELSE 55 - k
  OBVIOUS

(* pad() processes what is left of the padded message, in one block or,    *)
(* when the length does not fit behind the message, in two.                *)
LEMMA PadHashes ==
  ASSUME NEW m \in Messages, NEW length \in Messages, Len(length) = 8, NEW s, Taken(s, m)
  PROVE  LET w == H!Padded(m, length)
         IN \E n \in Nat : Len(w) = 64 * n /\ Hashed(H!Pad(s, length).blocks, w, n)
<1> DEFINE w == H!Padded(m, length)
           z == (55 - Len(m)) % 64
           q == Len(m) \div 64
           k == s.len % 64
           r == k + 1
           stopped == H!Put(s.buf, r - 1, <<128>>)
           full == H!Fill(stopped, r, 64)
           t == IF r > 56 THEN H!ProcessBlock([s EXCEPT !.buf = full], full)
                          ELSE [s EXCEPT !.buf = stopped]
           from == IF r > 56 THEN 0 ELSE r
           filled == H!Fill(t.buf, from, 56)
           last == H!Put(filled, 56, length)
           done == [t EXCEPT !.buf = last, !.len = s.len * 8]
<1>1. /\ Len(m) \in Nat /\ z \in 0..63
      /\ w \in Messages /\ Len(w) = Len(m) + 1 + z + 8
      /\ \A j \in 1..Len(m) : w[j] = m[j]
      /\ w[Len(m) + 1] = 128
      /\ \A j \in 1..z : w[Len(m) + 1 + j] = 0
      /\ \A j \in 1..8 : w[Len(m) + 1 + z + j] = length[j]
  <2>1. PaddedParts(w, m, length, z)
    BY PaddedIs
  <2> HIDE DEF w, z
  <2> QED BY <2>1 DEF PaddedParts
<1> HIDE DEF w, z
<1>0. Len(m) \in Nat
  BY <1>1
<1>2. s \in HashState /\ s.len = Len(m)
  BY DEF Taken
<1>3. q \in Nat /\ k \in Nat /\ k < 64 /\ Len(m) = 64 * q + k
  BY <1>0, <1>2, BlocksAndRest
<1>4. z = IF k > 55 THEN 119 - k ELSE 55 - k
  <2> HIDE DEF q, k
  <2>1. 55 - Len(m) = 55 - k - 64 * q
    BY <1>3
  <2> QED BY <1>3, <2>1, Wrapped DEF z
<1>5. H!Pad(s, length) = H!ProcessBlock(done, last)
  BY DEF H!Pad, H!BlockLen, H!LenAt, H!Stop
<1>6. Hashed(s.blocks, w, q) /\ Buffered(s.buf, w, q, k)
  BY <1>1, <1>2, LongerMessage
<1> HIDE DEF q, k
<1>7. Buffered(stopped, w, q, r)
  <2> DEFINE stop == <<128>>
  <2>1. stop \in Messages /\ Len(stop) = 1 /\ stop[1] = 128
    BY DEF Messages, Octets
  <2> HIDE DEF stop
  <2>2. HoldsAt(w, q, k, stop)
    <3>1. 64 * q + k + 1 = Len(m) + 1 /\ \A j \in 1..Len(stop) : j = 1
      BY <1>3, <2>1
    <3>2. w[Len(m) + 1] = 128
      BY <1>1
    <3> QED BY <2>1, <3>1, <3>2 DEF HoldsAt
  <2>3. k \in Nat /\ r \in Nat /\ r <= 64 /\ r = k + Len(stop) /\ r - 1 = k
    BY <1>3, <2>1 DEF r
  <2> HIDE DEF r
  <2>4. Buffered(H!Put(s.buf, k, stop), w, q, r)
    <3>1. q \in Nat /\ k \in Nat /\ stop \in Messages /\ Buffered(s.buf, w, q, k)
      BY <1>3, <1>6, <2>1
    <3>2. r \in Nat /\ r <= 64 /\ r = k + Len(stop)
      BY <2>3
    <3> QED BY <2>2, <3>1, <3>2, PutBuffered
  <2> QED BY <2>3, <2>4 DEF stop, stopped
<1>8. r \in 1..64 /\ Len(m) + 1 = 64 * q + r
  BY <1>3
<1> HIDE DEF stopped, r
<1>9. CASE r > 56
  <2>0. z = 120 - r
    BY <1>3, <1>4, <1>9 DEF r
  <2>1. NullsAt(w, q, r, 64)
    <3> SUFFICES ASSUME NEW b \in r .. 64 - 1 PROVE w[64 * q + b + 1] = 0
      BY DEF NullsAt
    <3> DEFINE j == b + 1 - r
    <3>1. j \in 1..z /\ Len(m) + 1 + j = 64 * q + b + 1
      BY <1>3, <1>8, <1>9, <2>0
    <3>2. w[Len(m) + 1 + j] = 0
      BY <1>1, <3>1
    <3> QED BY <3>1, <3>2
  <2>2. Buffered(full, w, q, 64)
    <3>1. 64 \in Nat /\ 64 <= 64 /\ r \in Nat /\ r <= 64
      BY <1>8
    <3> QED BY <1>3, <1>7, <2>1, <3>1, FillBuffered
  <2> HIDE DEF full
  <2> DEFINE v == [s EXCEPT !.buf = full]
  <2>3. v \in HashState /\ v.blocks = s.blocks
    BY <1>2, <2>2 DEF HashState, Buffered
  <2>4. t = H!ProcessBlock(v, full)
    BY <1>9
  <2> HIDE DEF v, t
  <2>5. t \in HashState /\ Hashed(t.blocks, w, q + 1)
    BY <1>1, <1>3, <1>6, <2>2, <2>3, <2>4, BlockHashed
  <2>6. Buffered(filled, w, q + 1, 56)
    <3>1. Buffered(t.buf, w, q + 1, 0)
      BY <2>5 DEF Buffered, HashState
    <3>2. NullsAt(w, q + 1, 0, 56)
      <4> SUFFICES ASSUME NEW b \in 0 .. 56 - 1 PROVE w[64 * (q + 1) + b + 1] = 0
        BY DEF NullsAt
      <4> DEFINE j == 64 - r + b + 1
      <4>1. j \in 1..z /\ Len(m) + 1 + j = 64 * (q + 1) + b + 1
        BY <1>3, <1>8, <1>9, <2>0
      <4>2. w[Len(m) + 1 + j] = 0
        BY <1>1, <4>1
      <4> QED BY <4>1, <4>2
    <3>3. from = 0
      BY <1>9
    <3> HIDE DEF from
    <3>4. q + 1 \in Nat /\ 56 \in Nat /\ 56 <= 64 /\ 0 \in Nat /\ 0 <= 56
      BY <1>3
    <3> QED BY <3>1, <3>2, <3>3, <3>4, FillBuffered
  <2> HIDE DEF filled
  <2>7. Buffered(last, w, q + 1, 64)
    <3>1. HoldsAt(w, q + 1, 56, length)
      <4> SUFFICES ASSUME NEW j \in 1..Len(length) PROVE w[64 * (q + 1) + 56 + j] = length[j]
        BY DEF HoldsAt
      <4>1. j \in 1..8 /\ Len(m) + 1 + z + j = 64 * (q + 1) + 56 + j
        BY <1>3, <1>8, <2>0
      <4>2. w[Len(m) + 1 + z + j] = length[j]
        BY <1>1, <4>1
      <4> QED BY <4>1, <4>2
    <3>2. q + 1 \in Nat /\ 56 \in Nat /\ 64 \in Nat /\ 64 <= 64 /\ 64 = 56 + Len(length)
      BY <1>3
    <3> QED BY <2>6, <3>1, <3>2, PutBuffered
  <2> HIDE DEF last
  <2>8. done \in HashState /\ done.blocks = t.blocks
    <3>1. s.len * 8 \in Nat /\ last \in HashBuf
      BY <1>1, <1>2, <2>7 DEF Buffered
    <3> QED BY <2>5, <3>1 DEF HashState
  <2> HIDE DEF done
  <2>9. Hashed(H!ProcessBlock(done, last).blocks, w, q + 1 + 1)
    <3>1. q + 1 \in Nat
      BY <1>3
    <3> QED BY <1>1, <2>5, <2>7, <2>8, <3>1, BlockHashed
  <2>10. q + 1 + 1 \in Nat /\ Len(w) = 64 * (q + 1 + 1)
    BY <1>1, <1>3, <1>8, <2>0
  <2> QED BY <1>5, <2>9, <2>10 DEF w
<1>10. CASE r <= 56
  <2>0. z = 56 - r
    BY <1>3, <1>4, <1>10 DEF r
  <2>1. t = [s EXCEPT !.buf = stopped] /\ from = r
    <3>1. ~(r > 56)
      BY <1>8, <1>10
    <3> QED BY <3>1
  <2> HIDE DEF t, from
  <2>2. t \in HashState /\ t.blocks = s.blocks /\ t.buf = stopped
    BY <1>2, <1>7, <2>1 DEF HashState, Buffered
  <2>3. Buffered(filled, w, q, 56)
    <3>1. NullsAt(w, q, r, 56)
      <4> SUFFICES ASSUME NEW b \in r .. 56 - 1 PROVE w[64 * q + b + 1] = 0
        BY DEF NullsAt
      <4> DEFINE j == b + 1 - r
      <4>1. j \in 1..z /\ Len(m) + 1 + j = 64 * q + b + 1
        BY <1>3, <1>8, <1>10, <2>0
      <4>2. w[Len(m) + 1 + j] = 0
        BY <1>1, <4>1
      <4> QED BY <4>1, <4>2
    <3>2. 56 \in Nat /\ 56 <= 64 /\ r \in Nat /\ r <= 56
      BY <1>8, <1>10
    <3> QED BY <1>3, <1>7, <2>1, <2>2, <3>1, <3>2, FillBuffered
  <2> HIDE DEF filled
  <2>4. Buffered(last, w, q, 64)
    <3>1. HoldsAt(w, q, 56, length)
      <4> SUFFICES ASSUME NEW j \in 1..Len(length) PROVE w[64 * q + 56 + j] = length[j]
        BY DEF HoldsAt
      <4>1. j \in 1..8 /\ Len(m) + 1 + z + j = 64 * q + 56 + j
        BY <1>3, <1>8, <2>0
      <4>2. w[Len(m) + 1 + z + j] = length[j]
        BY <1>1, <4>1
      <4> QED BY <4>1, <4>2
    <3>2. 56 \in Nat /\ 64 \in Nat /\ 64 <= 64 /\ 64 = 56 + Len(length)
      OBVIOUS
    <3> QED BY <1>3, <2>3, <3>1, <3>2, PutBuffered
  <2> HIDE DEF last
  <2>5. done \in HashState /\ done.blocks = s.blocks
    <3>1. s.len * 8 \in Nat /\ last \in HashBuf
      BY <1>1, <1>2, <2>4 DEF Buffered
    <3> QED BY <2>2, <3>1 DEF HashState
  <2> HIDE DEF done
  <2>6. Hashed(H!ProcessBlock(done, last).blocks, w, q + 1)
    BY <1>1, <1>3, <1>6, <2>4, <2>5, BlockHashed
  <2>7. q + 1 \in Nat /\ Len(w) = 64 * (q + 1)
    BY <1>1, <1>3, <1>8, <2>0
  <2> QED BY <1>5, <2>6, <2>7 DEF w
<1> QED BY <1>8, <1>9, <1>10

(* Blocks that are a message's, one behind the other, are the message.     *)
LEMMA ConcatIs ==
  ASSUME NEW blocks, NEW w \in Messages, NEW n \in Nat, Len(w) = 64 * n, Hashed(blocks, w, n)
  PROVE  H!Concat(blocks) = w
<1> DEFINE c == H!Concat(blocks)
           At(k) == blocks[((k - 1) \div 64) + 1][((k - 1) % 64) + 1]
<1>1. Len(blocks) = n /\ \A i \in 1..n, b \in 1..64 : blocks[i][b] = w[64 * (i - 1) + b]
  BY DEF Hashed
<1>2. c = [k \in 1 .. 64 * n |-> At(k)]
  BY <1>1 DEF H!Concat, H!BlockLen
<1>3. ASSUME NEW k \in 1 .. 64 * n PROVE At(k) = w[k]
  <2> DEFINE i == (k - 1) \div 64
             b == (k - 1) % 64
  <2>1. k - 1 \in Nat
    BY <1>3
  <2>2. i \in Nat /\ b \in Nat /\ b < 64 /\ k - 1 = 64 * i + b
    BY <2>1, BlocksAndRest
  <2>3. At(k) = blocks[i + 1][b + 1]
    OBVIOUS
  <2> HIDE DEF i, b
  <2>4. i + 1 \in 1..n /\ b + 1 \in 1..64 /\ 64 * ((i + 1) - 1) + (b + 1) = k
    BY <1>3, <2>2
  <2> HIDE DEF At
  <2> QED BY <1>1, <2>3, <2>4
<1>4. w = [k \in 1 .. 64 * n |-> w[k]]
  BY DEF Messages
<1> HIDE DEF At, c
<1>5. c = w
  BY <1>2, <1>3, <1>4
<1> QED BY <1>5 DEF c

(* What is processed once a message taken in is padded is the padded       *)
(* message.                                                                *)
LEMMA PadConcat ==
  ASSUME NEW m \in Messages, NEW length \in Messages, Len(length) = 8, NEW s, Taken(s, m)
  PROVE  H!Concat(H!Pad(s, length).blocks) = H!Padded(m, length)
<1> DEFINE w == H!Padded(m, length)
           blocks == H!Pad(s, length).blocks
<1>1. PICK n \in Nat : Len(w) = 64 * n /\ Hashed(blocks, w, n)
  BY PadHashes
<1>2. w \in Messages
  BY PaddedIs DEF PaddedParts
<1> HIDE DEF w, blocks
<1>3. H!Concat(blocks) = w
  BY <1>1, <1>2, ConcatIs
<1> QED BY <1>3 DEF w, blocks

(* The length takes eight bytes in either order.                           *)
LEMMA LengthBytes ==
  ASSUME NEW v \in Nat
  PROVE  /\ H!BigEndian(v) \in Messages /\ Len(H!BigEndian(v)) = 8
         /\ H!LittleEndian(v) \in Messages /\ Len(H!LittleEndian(v)) = 8
<1>1. \A k \in 0..7 : H!ByteOf(v, k) \in Octets
  BY DEF Octets
<1>2. \A k \in 1..8 : 8 - k \in 0..7 /\ k - 1 \in 0..7
  OBVIOUS
<1>3. /\ H!BigEndian(v) = [k \in 1..8 |-> H!ByteOf(v, 8 - k)]
      /\ H!LittleEndian(v) = [k \in 1..8 |-> H!ByteOf(v, k - 1)]
  BY DEF H!BigEndian, H!LittleEndian
<1>4. /\ \A k \in 1..8 : H!ByteOf(v, 8 - k) \in Octets
      /\ \A k \in 1..8 : H!ByteOf(v, k - 1) \in Octets
  BY <1>1, <1>2
<1> QED BY <1>3, <1>4 DEF Messages

(* The length in the padding is that of the message in bits.               *)
Bits(m) == 8 * Len(m)

(* Both hashes pad with the length in bits, in their order of bytes.       *)
LEMMA PadsRight ==
  ASSUME NEW m \in Messages, NEW s, Taken(s, m)
  PROVE  /\ H!Concat(H!PadSha256(s).blocks) = H!Padded(m, H!BigEndian(Bits(m)))
         /\ H!Concat(H!PadMd5(s).blocks) = H!Padded(m, H!LittleEndian(Bits(m)))
<1>1. s.len = Len(m) /\ Len(m) \in Nat
  BY LenProperties DEF Taken, Messages
<1>2. s.len * 8 = Bits(m) /\ Bits(m) \in Nat
  BY <1>1 DEF Bits
<1> DEFINE big == H!BigEndian(Bits(m))
           little == H!LittleEndian(Bits(m))
<1>3. H!PadSha256(s) = H!Pad(s, big) /\ H!PadMd5(s) = H!Pad(s, little)
  BY <1>2 DEF H!PadSha256, H!PadMd5
<1>4. big \in Messages /\ Len(big) = 8 /\ little \in Messages /\ Len(little) = 8
  BY <1>2, LengthBytes
<1> HIDE DEF big, little
<1>5. /\ H!Concat(H!Pad(s, big).blocks) = H!Padded(m, big)
      /\ H!Concat(H!Pad(s, little).blocks) = H!Padded(m, little)
  BY <1>4, PadConcat
<1> QED BY <1>3, <1>5 DEF big, little

(* A whole message is taken in whatever the structure held before.         *)
LEMMA TakenWhole ==
  ASSUME NEW stack \in HashState, NEW m \in Messages
  PROVE  Taken(H!Update(H!Init(stack), m), m)
<1>1. Taken(H!Init(stack), <<>>) /\ <<>> \in Messages
  BY InitTaken DEF Messages
<1>2. Taken(H!Update(H!Init(stack), m), <<>> \o m)
  BY <1>1, UpdateTaken
<1>3. <<>> \o m = m
  BY ConcatEmptySeq DEF Messages
<1> QED BY <1>2, <1>3

(* get_hash() hashes the padded message, for every message and whatever    *)
(* the structure on the stack held (get_hash(), hash.c:29).                *)
THEOREM HashesPadded ==
  ASSUME NEW stack \in HashState, NEW m \in Messages, NEW type
  PROVE  H!Concat(H!GetHash(type, m, stack)) =
           H!Padded(m, IF type = "SHA_256" THEN H!BigEndian(8 * Len(m))
                                           ELSE H!LittleEndian(8 * Len(m)))
<1> DEFINE s == H!Update(H!Init(stack), m)
<1>1. Taken(s, m)
  BY TakenWhole
<1>2. H!GetHash(type, m, stack) =
        IF type = "SHA_256" THEN H!PadSha256(s).blocks ELSE H!PadMd5(s).blocks
  BY DEF H!GetHash, H!UpdateMd5, H!InitMd5
<1> HIDE DEF s
<1>3. /\ H!Concat(H!PadSha256(s).blocks) = H!Padded(m, H!BigEndian(8 * Len(m)))
      /\ H!Concat(H!PadMd5(s).blocks) = H!Padded(m, H!LittleEndian(8 * Len(m)))
  BY <1>1, PadsRight DEF Bits
<1> QED BY <1>2, <1>3

(* What the stack holds before init() is a state of the structure.         *)
LEMMA StackState == Stack \in HashState
<1>1. H!Stale \in Octets
  BY DEF H!Stale, Octets
<1>2. <<>> \in Seq(HashBlock)
  OBVIOUS
<1> QED BY <1>1, <1>2 DEF Stack, HashState, HashBuf

(* The message of a length has it.                                         *)
LEMMA MessageIs ==
  ASSUME NEW n \in Nat
  PROVE  Message(n) \in Messages /\ Len(Message(n)) = n
<1>1. \A k \in 1..n : k % 5 \in Octets
  BY DEF Octets
<1> QED BY <1>1 DEF Message, Messages

(* What is answered to the questions about hashes.                         *)
HashAnswer ==
  question.kind = "hash" =>
    /\ question.n \in Nat /\ question.m \in Nat
    /\ answer # NoAnswer =>
         LET whole == Message(question.n + question.m)
             first == SubSeq(whole, 1, question.n)
             second == SubSeq(whole, question.n + 1, Len(whole))
         IN answer = <<H!GetHash(question.type, whole, Stack),
                       H!PadSha256(H!Update(H!Update(H!Init(Stack), first), second)).blocks>>

(* The blocks that are hashed are the padded message, also of a message    *)
(* that comes in two parts (get_hash(), sha256_update(), pad()).           *)
THEOREM HashIsPadded == Spec => []HashPadded
<1>1. Init => HashAnswer
  <2> SUFFICES ASSUME Init, question.kind = "hash"
               PROVE  question.n \in Nat /\ question.m \in Nat /\ answer = NoAnswer
    BY DEF HashAnswer
  <2>1. PICK type \in {"SHA_256", "MD5"}, n \in Lengths, m \in Lengths : question = AskHash(type, n, m)
    BY DEF Init, AskElf, AskMemory, AskStrings, AskTables, AskStrip, AskPrint
  <2>2. n \in Nat /\ m \in Nat
    BY DEF Lengths
  <2> QED BY <2>1, <2>2 DEF Init, AskHash
<1>2. HashAnswer /\ [Next]_vars => HashAnswer'
  <2> SUFFICES ASSUME HashAnswer, [Next]_vars, question'.kind = "hash"
               PROVE  HashAnswer'
    BY DEF HashAnswer
  <2>1. CASE HashMessage
    BY <2>1 DEF HashMessage, Asked, HashAnswer
  <2>2. ASSUME NEW kind, kind # "hash", Asked(kind)
        PROVE  FALSE
    BY <2>2 DEF Asked
  <2>3. ~ReadElf
    BY <2>2 DEF ReadElf
  <2>4. ~MoveMemory /\ ~CompareStrings
    BY <2>2 DEF MoveMemory, CompareStrings
  <2>5. ~MapKernel /\ ~PrintLine /\ ~StripArchive
    BY <2>2 DEF MapKernel, PrintLine, StripArchive
  <2>6. CASE UNCHANGED vars
    BY <2>6 DEF vars, HashAnswer
  <2> QED BY <2>1, <2>3, <2>4, <2>5, <2>6 DEF Next
<1>3. HashAnswer => HashPadded
  <2> DEFINE n == question.n
             whole == Message(question.n + question.m)
             first == SubSeq(whole, 1, n)
             second == SubSeq(whole, n + 1, Len(whole))
             one == H!Update(H!Init(Stack), first)
             two == H!Update(one, second)
  <2> SUFFICES ASSUME HashAnswer, Answered("hash")
               PROVE  /\ H!Concat(answer[1]) =
                           H!Padded(whole, IF question.type = "SHA_256"
                                             THEN H!BigEndian(8 * Len(whole))
                                             ELSE H!LittleEndian(8 * Len(whole)))
                      /\ H!Concat(answer[2]) = H!Padded(whole, H!BigEndian(8 * Len(whole)))
    BY DEF HashPadded
  <2>1. /\ n \in Nat /\ question.m \in Nat
        /\ answer[1] = H!GetHash(question.type, whole, Stack)
        /\ answer[2] = H!PadSha256(two).blocks
    BY DEF HashAnswer, Answered
  <2>2. whole \in Messages /\ Len(whole) = n + question.m
    BY <2>1, MessageIs
  <2> HIDE DEF n, whole
  <2>3. first \in Messages /\ second \in Messages /\ first \o second = whole
    <3>1. 1 \in 1 .. Len(whole) + 1 /\ n \in 1 - 1 .. Len(whole) /\ Len(whole) \in n .. Len(whole)
      BY <2>1, <2>2
    <3>2. first \o second = SubSeq(whole, 1, Len(whole))
      BY <2>2, <3>1, ConcatAdjacentSubSeq DEF Messages
    <3>3. SubSeq(whole, 1, Len(whole)) = whole
      BY <2>2, SubSeqFull DEF Messages
    <3>4. /\ SubSeq(whole, 0 + 1, n) \in Messages
          /\ SubSeq(whole, n + 1, Len(whole)) \in Messages
      <4>1. 0 \in Nat /\ n \in 0..Len(whole) /\ 0 <= n /\ Len(whole) \in 0..Len(whole) /\ n <= Len(whole)
        BY <2>1, <2>2
      <4> QED BY <2>1, <2>2, <4>1, PartOf
    <3>5. 0 + 1 = 1
      OBVIOUS
    <3> QED BY <3>2, <3>3, <3>4, <3>5
  <2> HIDE DEF first, second
  <2>4. Taken(one, first)
    BY <2>3, StackState, TakenWhole
  <2> HIDE DEF one
  <2>5. Taken(two, whole)
    BY <2>3, <2>4, UpdateTaken
  <2> HIDE DEF two
  <2>6. H!Concat(answer[2]) = H!Padded(whole, H!BigEndian(8 * Len(whole)))
    BY <2>1, <2>2, <2>5, PadsRight DEF Bits
  <2> QED BY <2>1, <2>2, <2>6, StackState, HashesPadded
<1> QED BY <1>1, <1>2, <1>3, PTL DEF Spec

(***************************************************************************)
(* cpio-strip, the whole of it: what it leaves of an archive               *)
(***************************************************************************)
Files == Seq([name : Nat, size : Nat])

(* Where the headers of the files lie, one behind the last.                *)
HeadersOf(h, files, n) ==
  h = [k \in 1 .. n + 1 |->
         IF k = 1 THEN 0
         ELSE NextHeader(DataAt(h[k-1], files[k-1].name), files[k-1].size)]
HeaderList(files) == CHOOSE h : HeadersOf(h, files, Len(files))

(* The list of headers is a function that exists, for any number of files. *)
LEMMA HeadersExist ==
  ASSUME NEW files, NEW N \in Nat
  PROVE  \E h : HeadersOf(h, files, N)
<1> DEFINE Has(n) == \E h : HeadersOf(h, files, n)
           Bad == {n \in 0..N : ~Has(n)}
<1>1. SUFFICES ASSUME Bad # {} PROVE FALSE
  OBVIOUS
<1>2. PICK n \in Bad : \A k \in Bad : n <= k
  <2>1. Bad \subseteq Nat
    OBVIOUS
  <2> HIDE DEF Bad
  <2> QED BY <1>1, <2>1, Least
<1>3. n # 0
  <2>1. HeadersOf([k \in 1 .. 0 + 1 |-> 0], files, 0)
    BY DEF HeadersOf
  <2> QED BY <2>1
<1>4. PICK f : HeadersOf(f, files, n - 1)
  <2>1. n - 1 \in 0..N /\ n - 1 \notin Bad
    BY <1>2, <1>3
  <2> QED BY <2>1
<1>5. n \in Nat /\ n > 0 /\ n - 1 + 1 = n
  BY <1>2, <1>3
<1> DEFINE Behind(k, x) == NextHeader(DataAt(x, files[k-1].name), files[k-1].size)
           g == [k \in 1 .. n + 1 |-> IF k = n + 1 THEN Behind(n + 1, f[n]) ELSE f[k]]
<1>6. HeadersOf(g, files, n)
  <2>1. ASSUME NEW k \in 1 .. n + 1 PROVE g[k] = IF k = 1 THEN 0 ELSE Behind(k, g[k-1])
    <3>1. f = [j \in 1..n |-> IF j = 1 THEN 0 ELSE Behind(j, f[j-1])]
      BY <1>4, <1>5 DEF HeadersOf
    <3> HIDE DEF Behind
    <3>2. \A j \in 1..n : f[j] = IF j = 1 THEN 0 ELSE Behind(j, f[j-1])
      BY <3>1
    <3>3. g[n + 1] = Behind(n + 1, f[n]) /\ \A j \in 1..n : g[j] = f[j]
      BY <1>5
    <3> HIDE DEF g
    <3>4. CASE k = n + 1
      <4>1. k - 1 = n /\ n \in 1..n /\ k # 1
        BY <1>5, <3>4
      <4> QED BY <3>3, <3>4, <4>1
    <3>5. CASE k < n + 1
      <4>1. k \in 1..n /\ (k # 1 => k - 1 \in 1..n)
        BY <1>5, <3>5
      <4> QED BY <3>2, <3>3, <4>1
    <3> QED BY <1>5, <3>4, <3>5
  <2>2. g = [k \in 1 .. n + 1 |-> g[k]]
    OBVIOUS
  <2> HIDE DEF g
  <2> QED BY <2>1, <2>2 DEF HeadersOf
<1> QED BY <1>2, <1>6

(* The headers are aligned and no two lie at one place.                    *)
LEMMA HeadersAre ==
  ASSUME NEW files \in Files
  PROVE  /\ HeaderList(files)[1] = 0
         /\ \A k \in 1..Len(files) :
              HeaderList(files)[k + 1] =
                NextHeader(DataAt(HeaderList(files)[k], files[k].name), files[k].size)
         /\ \A k \in 1..Len(files) :
              /\ HeaderList(files)[k] \in Nat /\ HeaderList(files)[k] % CPIO_ALIGNMENT = 0
              /\ \A j \in 1 .. k - 1 : HeaderList(files)[j] < HeaderList(files)[k]
<1> DEFINE h == HeaderList(files)
           n == Len(files)
           Behind(k, x) == NextHeader(DataAt(x, files[k-1].name), files[k-1].size)
<1>1. n \in Nat /\ \A k \in 1..n : files[k].name \in Nat /\ files[k].size \in Nat
  <2>1. n \in Nat
    BY LenProperties DEF Files
  <2>2. \A k \in 1..n : files[k] \in [name : Nat, size : Nat]
    BY ElementOfSeq DEF Files
  <2> QED BY <2>1, <2>2
<1>2. HeadersOf(h, files, n)
  <2> HIDE DEF n
  <2>1. \E x : HeadersOf(x, files, n)
    BY <1>1, HeadersExist
  <2> QED BY <2>1 DEF HeaderList, n
<1> HIDE DEF h, n
<1>3. \A k \in 1 .. n + 1 : h[k] = IF k = 1 THEN 0 ELSE Behind(k, h[k-1])
  <2>1. h = [k \in 1 .. n + 1 |-> IF k = 1 THEN 0 ELSE Behind(k, h[k-1])]
    BY <1>2 DEF HeadersOf
  <2> HIDE DEF Behind
  <2> QED BY <2>1
<1>4. h[1] = 0
  <2>1. 1 \in 1 .. n + 1
    BY <1>1
  <2> QED BY <1>3, <2>1
<1>5. \A k \in 1..n : h[k + 1] = NextHeader(DataAt(h[k], files[k].name), files[k].size)
  <2> SUFFICES ASSUME NEW k \in 1..n PROVE h[k + 1] = Behind(k + 1, h[k])
    <3>1. \A k \in 1..n : k + 1 - 1 = k
      BY <1>1
    <3> QED BY <3>1
  <2> HIDE DEF Behind
  <2>1. k + 1 \in 1 .. n + 1 /\ k + 1 # 1 /\ k + 1 - 1 = k
    BY <1>1
  <2> QED BY <1>3, <2>1
<1> HIDE DEF Behind
<1> DEFINE Good(k) == /\ h[k] \in Nat /\ h[k] % CPIO_ALIGNMENT = 0
                      /\ \A j \in 1 .. k - 1 : h[j] < h[k]
           Bad == {k \in 1..n : ~Good(k)}
<1>6. Bad = {}
  <2>1. SUFFICES ASSUME Bad # {} PROVE FALSE
    OBVIOUS
  <2>2. PICK k \in Bad : \A j \in Bad : k <= j
    <3>1. Bad \subseteq Nat
      OBVIOUS
    <3> HIDE DEF Bad
    <3> QED BY <2>1, <3>1, Least
  <2>3. Good(1)
    <3>1. 0 % CPIO_ALIGNMENT = 0
      BY CpioAssumption
    <3> QED BY <1>4, <3>1
  <2>4. k \in 1..n /\ k - 1 \in 1..n /\ k - 1 + 1 = k /\ ~(k <= k - 1)
    BY <1>1, <2>2, <2>3
  <2>5. Good(k - 1)
    BY <2>2, <2>4
  <2>6. h[k] = NextHeader(DataAt(h[k-1], files[k-1].name), files[k-1].size)
    BY <1>5, <2>4
  <2> HIDE DEF Bad
  <2>7. /\ h[k] % CPIO_ALIGNMENT = 0 /\ h[k] > h[k-1] /\ h[k] \in Nat
    <3>1. files[k-1].name \in Nat /\ files[k-1].size \in Nat
      BY <1>1, <2>4
    <3> DEFINE name == files[k-1].name
               size == files[k-1].size
    <3>2. name \in Nat /\ size \in Nat /\ h[k-1] \in Nat /\ h[k-1] % CPIO_ALIGNMENT = 0
      BY <2>5, <3>1
    <3>3. h[k] = NextHeader(DataAt(h[k-1], name), size)
      BY <2>6
    <3> HIDE DEF name, size, Good
    <3>4. DataAt(h[k-1], name) \in Nat
      <4>1. h[k-1] + HeaderSize + name + 1 \in Nat
        BY <3>2, CpioAssumption
      <4> QED BY <4>1, AlignedUp DEF DataAt
    <3>5. h[k] \in Nat
      <4>1. DataAt(h[k-1], name) + size \in Nat
        BY <3>2, <3>4
      <4> QED BY <3>3, <4>1, AlignedUp DEF NextHeader
    <3> QED BY <3>2, <3>3, <3>5, HeaderFound
  <2>8. \A j \in 1 .. k - 1 : h[j] < h[k]
    <3> SUFFICES ASSUME NEW j \in 1 .. k - 1 PROVE h[j] < h[k]
      OBVIOUS
    <3>1. CASE j = k - 1
      BY <2>5, <2>7, <3>1
    <3>2. CASE j < k - 1
      <4>0. k \in 1..n /\ j \in 1 .. k - 1 /\ j < k - 1
        BY <2>4, <3>2
      <4>1. j \in 1 .. (k - 1) - 1 /\ j \in 1..n /\ ~(k <= j)
        BY <1>1, <4>0
      <4>2. h[j] < h[k-1]
        BY <2>5, <4>1
      <4>3. h[j] \in Nat
        BY <2>2, <4>1 DEF Bad
      <4> QED BY <2>5, <2>7, <4>2, <4>3
    <3> QED BY <2>4, <3>1, <3>2
  <2>9. Good(k)
    BY <2>7, <2>8
  <2> QED BY <2>2, <2>9 DEF Bad
<1>7. \A k \in 1..n : Good(k)
  BY <1>6
<1> QED BY <1>4, <1>5, <1>7 DEF h, n

(* The archive when the headers of the first i files are rewritten.        *)
Packed(owner, k) == [c_ino |-> owner + k, c_uid |-> owner, c_gid |-> owner, c_mtime |-> owner]
Cleaned(k) == [c_ino |-> Inode(k - 1), c_uid |-> 0, c_gid |-> 0, c_mtime |-> 0]
EntryOf(files, owner, i, k) ==
  [namesize |-> files[k].name, filesize |-> files[k].size,
   meta |-> IF k <= i THEN Cleaned(k) ELSE Packed(owner, k)]
DataOf(files, k) == DataAt(HeaderList(files)[k], files[k].name)
PlacesOf(files) ==
  {HeaderList(files)[k] : k \in DOMAIN files}
    \union {DataOf(files, k) : k \in {j \in DOMAIN files : files[j].size > 0}}
HeaderNumber(files, a) == CHOOSE k \in DOMAIN files : HeaderList(files)[k] = a
HeaderIsAt(files, a) == \E k \in DOMAIN files : HeaderList(files)[k] = a
PartlyStripped(files, owner, i) ==
  [a \in PlacesOf(files) |->
     IF HeaderIsAt(files, a) THEN EntryOf(files, owner, i, HeaderNumber(files, a))
     ELSE [contents |-> CHOOSE k \in DOMAIN files : DataOf(files, k) = a]]

(* What cpio writes is the archive with no header rewritten yet.           *)
LEMMA ArchivedIs ==
  ASSUME NEW files \in Files, NEW owner
  PROVE  Archived(files, owner) = PartlyStripped(files, owner, 0)
<1> DEFINE L == HeaderList(files)
           At(k) == [namesize |-> files[k].name, filesize |-> files[k].size,
                     meta |-> Packed(owner, k)]
           Raw == [a \in PlacesOf(files) |->
                     IF HeaderIsAt(files, a) THEN At(HeaderNumber(files, a))
                     ELSE [contents |-> CHOOSE k \in DOMAIN files : DataOf(files, k) = a]]
<1>1. Archived(files, owner) = Raw
  BY DEF Archived, HeaderList, HeadersOf, Packed, DataOf, PlacesOf, HeaderNumber, HeaderIsAt
<1>2. DOMAIN files \subseteq Nat /\ \A k \in DOMAIN files : ~(k <= 0)
  BY LenProperties DEF Files
<1>3. \A k \in DOMAIN files : EntryOf(files, owner, 0, k) = At(k)
  BY <1>2 DEF EntryOf
<1>4. \A a : HeaderIsAt(files, a) => HeaderNumber(files, a) \in DOMAIN files
  BY DEF HeaderIsAt, HeaderNumber
<1> HIDE DEF At
<1>5. Raw = PartlyStripped(files, owner, 0)
  BY <1>3, <1>4 DEF PartlyStripped
<1> QED BY <1>1, <1>5

(* At the place of a file's header is that file's entry: no other header   *)
(* lies there.                                                             *)
LEMMA EntryThere ==
  ASSUME NEW files \in Files, NEW owner, NEW i, NEW k \in 1..Len(files)
  PROVE  /\ HeaderList(files)[k] \in PlacesOf(files)
         /\ HeaderIsAt(files, HeaderList(files)[k])
         /\ HeaderNumber(files, HeaderList(files)[k]) = k
         /\ PartlyStripped(files, owner, i)[HeaderList(files)[k]] = EntryOf(files, owner, i, k)
<1> DEFINE L == HeaderList(files)
           c == HeaderNumber(files, L[k])
<1>1. Len(files) \in Nat /\ DOMAIN files = 1..Len(files)
  BY LenProperties DEF Files
<1>2. /\ \A m \in 1..Len(files) : L[m] \in Nat
      /\ \A m \in 1..Len(files) : \A j \in 1 .. m - 1 : L[j] < L[m]
  BY HeadersAre
<1> HIDE DEF L
<1>3. c \in DOMAIN files /\ L[c] = L[k]
  BY <1>1 DEF HeaderNumber, L
<1> HIDE DEF c
<1>4. c = k
  <2>1. ~(c < k)
    <3>1. c < k => c \in 1 .. k - 1
      BY <1>1, <1>3
    <3>2. c \in 1..Len(files)
      BY <1>1, <1>3
    <3> QED BY <1>2, <1>3, <3>1, <3>2
  <2>2. ~(k < c)
    <3>1. k < c => k \in 1 .. c - 1
      BY <1>1, <1>3
    <3>2. c \in 1..Len(files)
      BY <1>1, <1>3
    <3> QED BY <1>2, <1>3, <3>1, <3>2
  <2>3. c \in Nat /\ k \in Nat
    BY <1>1, <1>3
  <2> QED BY <2>1, <2>2, <2>3
<1>5. L[k] \in PlacesOf(files) /\ HeaderIsAt(files, L[k])
  BY <1>1 DEF PlacesOf, HeaderIsAt, L
<1> QED BY <1>4, <1>5 DEF PartlyStripped, c, L

(* Entry i is found from its header, whatever has been rewritten.          *)
LEMMA EntryFound ==
  ASSUME NEW files \in Files, NEW owner, NEW done, NEW i \in 0 .. Len(files) - 1
  PROVE  EntryAt(PartlyStripped(files, owner, done), i) =
           [filename |-> files[i + 1].name, data |-> DataOf(files, i + 1)]
<1> DEFINE archive == PartlyStripped(files, owner, done)
           L == HeaderList(files)
           n == Len(files)
           Behind(x) == NextHeader(DataAt(x, archive[x].namesize), archive[x].filesize)
           Is(h) == h = [k \in 0..i |-> IF k = 0 THEN 0 ELSE Behind(h[k-1])]
           H0 == CHOOSE h : Is(h)
<1>1. n \in Nat
  BY LenProperties DEF Files
<1>2. EntryAt(archive, i) = [filename |-> archive[H0[i]].namesize,
                             data |-> DataAt(H0[i], archive[H0[i]].namesize)]
  BY DEF EntryAt
<1>3. /\ \A k \in 1..n : archive[L[k]].namesize = files[k].name /\ archive[L[k]].filesize = files[k].size
      /\ L[1] = 0 /\ \A k \in 1..n : L[k + 1] = Behind(L[k])
  <2>1. \A k \in 1..n : archive[L[k]] = EntryOf(files, owner, done, k)
    BY EntryThere
  <2>2. \A k \in 1..n : archive[L[k]].namesize = files[k].name /\ archive[L[k]].filesize = files[k].size
    <3>1. \A k : /\ EntryOf(files, owner, done, k).namesize = files[k].name
                 /\ EntryOf(files, owner, done, k).filesize = files[k].size
      BY DEF EntryOf
    <3> HIDE DEF archive, L, n
    <3> QED BY <2>1, <3>1
  <2>3. /\ L[1] = 0
        /\ \A k \in 1..n : L[k + 1] = NextHeader(DataAt(L[k], files[k].name), files[k].size)
    BY HeadersAre
  <2> HIDE DEF archive, L
  <2> QED BY <2>2, <2>3
<1> HIDE DEF archive, L, n, Behind
<1>4. \E h : Is(h)
  <2> DEFINE w == [k \in 0..i |-> L[k + 1]]
  <2>1. ASSUME NEW k \in 0..i PROVE w[k] = IF k = 0 THEN 0 ELSE Behind(w[k-1])
    <3>1. CASE k = 0
      BY <1>3, <3>1
    <3>2. CASE k # 0
      <4>1. k \in 1..n /\ k - 1 \in 0..i /\ k - 1 + 1 = k
        BY <1>1, <3>2 DEF n
      <4>2. w[k-1] = L[k] /\ w[k] = L[k + 1]
        BY <4>1
      <4> HIDE DEF w
      <4> QED BY <1>3, <3>2, <4>1, <4>2
    <3> QED BY <3>1, <3>2
  <2>2. w = [k \in 0..i |-> w[k]]
    OBVIOUS
  <2> HIDE DEF w
  <2>3. Is(w)
    BY <2>1, <2>2
  <2> QED BY <2>3
<1>5. Is(H0)
  BY <1>4
<1> HIDE DEF H0
<1>6. \A k \in 0..i : H0[k] = IF k = 0 THEN 0 ELSE Behind(H0[k-1])
  BY <1>5
<1> DEFINE Bad == {k \in 0..i : H0[k] # L[k + 1]}
<1>7. Bad = {}
  <2>1. SUFFICES ASSUME Bad # {} PROVE FALSE
    OBVIOUS
  <2>2. PICK k \in Bad : \A j \in Bad : k <= j
    <3>1. Bad \subseteq Nat
      OBVIOUS
    <3> HIDE DEF Bad
    <3> QED BY <2>1, <3>1, Least
  <2>3. k # 0
    BY <1>3, <1>6, <2>2
  <2>4. k \in 0..i /\ k \in 1..n /\ k - 1 \in 0..i /\ k - 1 + 1 = k /\ ~(k <= k - 1)
    BY <1>1, <2>2, <2>3 DEF n
  <2>5. H0[k-1] = L[k]
    BY <2>2, <2>4
  <2>6. H0[k] = L[k + 1]
    BY <1>3, <1>6, <2>3, <2>4, <2>5
  <2> QED BY <2>2, <2>6
<1>8. i \in 0..i /\ i + 1 \in 1..n
  BY <1>1 DEF n
<1>9. H0[i] = L[i + 1]
  BY <1>7, <1>8
<1>10. archive[L[i + 1]].namesize = files[i + 1].name
  BY <1>3, <1>8
<1> QED BY <1>2, <1>9, <1>10 DEF archive, L, DataOf

(* One round of the loop rewrites the next header and nothing else.        *)
LEMMA EntryStripped ==
  ASSUME NEW files \in Files, NEW owner, NEW i \in 0 .. Len(files) - 1
  PROVE  StripEntry(PartlyStripped(files, owner, i), i) = PartlyStripped(files, owner, i + 1)
<1> DEFINE archive == PartlyStripped(files, owner, i)
           after == PartlyStripped(files, owner, i + 1)
           k == i + 1
           header == HeaderList(files)[k]
           P == PlacesOf(files)
<1>1. Len(files) \in Nat /\ k \in 1..Len(files) /\ DOMAIN files = 1..Len(files) /\ k - 1 = i
  BY LenProperties DEF Files
<1>2. header \in Nat /\ header % CPIO_ALIGNMENT = 0 /\ files[k].name \in Nat
  <2>1. files[k] \in [name : Nat, size : Nat]
    BY <1>1, ElementOfSeq DEF Files
  <2> HIDE DEF k
  <2> QED BY <1>1, <2>1, HeadersAre
<1>3. GetHeader(DataOf(files, k), files[k].name) = header
  <2>1. 0 \in Nat
    OBVIOUS
  <2> HIDE DEF k
  <2> QED BY <1>2, <2>1, HeaderFound DEF DataOf
<1>4. EntryAt(archive, i) = [filename |-> files[k].name, data |-> DataOf(files, k)]
  BY EntryFound
<1>5. /\ header \in P /\ HeaderIsAt(files, header) /\ HeaderNumber(files, header) = k
      /\ archive[header] = EntryOf(files, owner, i, k)
      /\ after[header] = EntryOf(files, owner, i + 1, k)
  <2> HIDE DEF k
  <2> QED BY <1>1, EntryThere
<1>6. DOMAIN archive = P /\ DOMAIN after = P
  BY DEF PartlyStripped
<1> DEFINE new == [archive[header] EXCEPT
                     !.meta = [c_ino |-> Inode(i), c_uid |-> 0, c_gid |-> 0, c_mtime |-> 0]]
<1>7. StripEntry(archive, i) = [a \in P |-> IF a # header THEN archive[a] ELSE new]
  <2>1. P \union {header} = P
    BY <1>5
  <2> HIDE DEF archive, after, header, k, P
  <2> QED BY <1>3, <1>4, <1>5, <1>6, <2>1 DEF StripEntry
<1>8. new = after[header]
  <2>1. Cleaned(k) = [c_ino |-> Inode(i), c_uid |-> 0, c_gid |-> 0, c_mtime |-> 0]
    BY <1>1 DEF Cleaned
  <2>2. k <= i + 1 /\ ~(k <= i)
    BY <1>1
  <2> HIDE DEF archive, after, header, k
  <2> QED BY <1>5, <2>1, <2>2 DEF EntryOf
<1>9. \A a \in P : a # header => archive[a] = after[a]
  <2> SUFFICES ASSUME NEW a \in P, a # header PROVE archive[a] = after[a]
    OBVIOUS
  <2>1. CASE HeaderIsAt(files, a)
    <3> DEFINE c == HeaderNumber(files, a)
    <3>1. c \in 1..Len(files) /\ HeaderList(files)[c] = a
      BY <1>1, <2>1 DEF HeaderIsAt, HeaderNumber
    <3>2. c # k
      BY <3>1
    <3>3. c <= i <=> c <= i + 1
      BY <1>1, <3>1, <3>2
    <3> HIDE DEF c
    <3>4. EntryOf(files, owner, i, c) = EntryOf(files, owner, i + 1, c)
      BY <3>3 DEF EntryOf
    <3> QED BY <2>1, <3>4 DEF PartlyStripped, c
  <2>2. CASE ~HeaderIsAt(files, a)
    BY <2>2 DEF PartlyStripped
  <2> QED BY <2>1, <2>2
<1>10. after = [a \in P |-> after[a]]
  BY DEF PartlyStripped
<1> HIDE DEF archive, after, header, new, P
<1>11. StripEntry(archive, i) = after
  BY <1>7, <1>8, <1>9, <1>10
<1> QED BY <1>11 DEF archive, after

(* The whole loop rewrites every header.                                   *)
LEMMA StripIs ==
  ASSUME NEW files \in Files, NEW owner
  PROVE  Strip(Archived(files, owner), Len(files)) = PartlyStripped(files, owner, Len(files))
<1> DEFINE n == Len(files)
           S(k) == PartlyStripped(files, owner, k)
           Is(f) == f = [k \in 0..n |-> IF k = 0 THEN S(0) ELSE StripEntry(f[k-1], k - 1)]
           D == CHOOSE f : Is(f)
<1>1. n \in Nat
  BY LenProperties DEF Files
<1>2. Strip(Archived(files, owner), n) = D[n]
  <2>1. Archived(files, owner) = S(0)
    BY ArchivedIs
  <2> HIDE DEF S
  <2> QED BY <2>1 DEF Strip
<1>3. \A k \in 1..n : StripEntry(S(k-1), k - 1) = S(k)
  <2> SUFFICES ASSUME NEW k \in 1..n PROVE StripEntry(S(k-1), k - 1) = S(k)
    OBVIOUS
  <2>1. k - 1 \in 0 .. n - 1 /\ k - 1 + 1 = k
    BY <1>1
  <2>2. StripEntry(S(k-1), k - 1) = S(k - 1 + 1)
    BY <2>1, EntryStripped
  <2> QED BY <2>1, <2>2
<1> HIDE DEF S, n
<1>4. \E f : Is(f)
  <2> DEFINE w == [k \in 0..n |-> S(k)]
  <2>1. ASSUME NEW k \in 0..n PROVE w[k] = IF k = 0 THEN S(0) ELSE StripEntry(w[k-1], k - 1)
    <3>1. k # 0 => k \in 1..n /\ k - 1 \in 0..n
      BY <1>1
    <3>2. w[k] = S(k) /\ (k # 0 => w[k-1] = S(k-1))
      BY <3>1
    <3> HIDE DEF w
    <3> QED BY <1>3, <3>1, <3>2
  <2>2. w = [k \in 0..n |-> w[k]]
    OBVIOUS
  <2> HIDE DEF w
  <2>3. Is(w)
    BY <2>1, <2>2
  <2> QED BY <2>3
<1>5. Is(D)
  BY <1>4
<1> HIDE DEF D
<1>6. \A k \in 0..n : D[k] = IF k = 0 THEN S(0) ELSE StripEntry(D[k-1], k - 1)
  BY <1>5
<1> DEFINE Bad == {k \in 0..n : D[k] # S(k)}
<1>7. Bad = {}
  <2>1. SUFFICES ASSUME Bad # {} PROVE FALSE
    OBVIOUS
  <2>2. PICK k \in Bad : \A j \in Bad : k <= j
    <3>1. Bad \subseteq Nat
      OBVIOUS
    <3> HIDE DEF Bad
    <3> QED BY <2>1, <3>1, Least
  <2>3. k # 0
    BY <1>6, <2>2
  <2>4. k \in 1..n /\ k \in 0..n /\ k - 1 \in 0..n /\ ~(k <= k - 1)
    BY <1>1, <2>2, <2>3
  <2>5. D[k-1] = S(k-1)
    BY <2>2, <2>4
  <2>6. D[k] = S(k)
    BY <1>3, <1>6, <2>3, <2>4, <2>5
  <2> QED BY <2>2, <2>6
<1>8. n \in 0..n
  BY <1>1
<1>9. D[n] = S(n)
  BY <1>7, <1>8
<1> QED BY <1>2, <1>9 DEF S, n

(* For any files, of any names and sizes, cpio-strip leaves each at its    *)
(* place and rewrites every header and only in its metadata, to what does  *)
(* not depend on who packed them (cpio-strip.c:56 main).                   *)
THEOREM OnlyMetadata ==
  ASSUME NEW files \in Files, NEW owner, NEW other
  PROVE  LET archive == Archived(files, owner)
             stripped == Strip(archive, Len(files))
         IN /\ DOMAIN stripped = DOMAIN archive
            /\ \A a \in DOMAIN archive :
                 IF Meta(archive, a) THEN [stripped[a] EXCEPT !.meta = archive[a].meta] = archive[a]
                                     ELSE stripped[a] = archive[a]
            /\ Strip(Archived(files, other), Len(files)) = stripped
<1> DEFINE n == Len(files)
           archive == Archived(files, owner)
           stripped == Strip(archive, n)
           P == PlacesOf(files)
<1>1. /\ archive = PartlyStripped(files, owner, 0)
      /\ stripped = PartlyStripped(files, owner, n)
      /\ Strip(Archived(files, other), n) = PartlyStripped(files, other, n)
  BY ArchivedIs, StripIs
<1>2. n \in Nat /\ DOMAIN files = 1..n
  BY LenProperties DEF Files
<1> HIDE DEF n, archive, stripped
<1>3. DOMAIN archive = P /\ DOMAIN stripped = P
  BY <1>1 DEF PartlyStripped
<1>4. ASSUME NEW a \in P
      PROVE  IF Meta(archive, a) THEN [stripped[a] EXCEPT !.meta = archive[a].meta] = archive[a]
                                 ELSE stripped[a] = archive[a]
  <2>1. CASE HeaderIsAt(files, a)
    <3> DEFINE c == HeaderNumber(files, a)
    <3>1. archive[a] = EntryOf(files, owner, 0, c) /\ stripped[a] = EntryOf(files, owner, n, c)
      BY <1>1, <2>1 DEF PartlyStripped
    <3> HIDE DEF c
    <3>2. Meta(archive, a)
      BY <3>1 DEF Meta, EntryOf
    <3>3. [stripped[a] EXCEPT !.meta = archive[a].meta] = archive[a]
      BY <3>1 DEF EntryOf
    <3> QED BY <3>2, <3>3
  <2>2. CASE ~HeaderIsAt(files, a)
    <3>1. /\ archive[a] = [contents |-> CHOOSE k \in DOMAIN files : DataOf(files, k) = a]
          /\ stripped[a] = archive[a]
      BY <1>1, <2>2 DEF PartlyStripped
    <3>2. ~Meta(archive, a)
      <4>1. DOMAIN archive[a] = {"contents"}
        BY <3>1
      <4>2. "meta" # "contents"
        OBVIOUS
      <4> QED BY <4>1, <4>2 DEF Meta
    <3> QED BY <3>1, <3>2
  <2> QED BY <2>1, <2>2
<1>5. PartlyStripped(files, other, n) = PartlyStripped(files, owner, n)
  <2>1. \A a \in P : HeaderIsAt(files, a) =>
          EntryOf(files, other, n, HeaderNumber(files, a)) = EntryOf(files, owner, n, HeaderNumber(files, a))
    <3> SUFFICES ASSUME NEW a \in P, HeaderIsAt(files, a), NEW c, c = HeaderNumber(files, a)
                 PROVE  EntryOf(files, other, n, c) = EntryOf(files, owner, n, c)
      OBVIOUS
    <3>1. c \in 1..n
      BY <1>2 DEF HeaderIsAt, HeaderNumber
    <3>2. c <= n
      BY <1>2, <3>1
    <3> QED BY <3>2 DEF EntryOf
  <2> QED BY <2>1 DEF PartlyStripped
<1> QED BY <1>1, <1>3, <1>4, <1>5 DEF n, archive, stripped

(* What is answered to the questions about cpio-strip.                     *)
StripAnswer ==
  question.kind = "strip" =>
    /\ question.files \in Files
    /\ answer # NoAnswer =>
         answer = <<Strip(Archived(question.files, question.owner), Len(question.files))>>

(* A stripped archive is the one packed but for the metadata, and the same *)
(* whoever packed it (cpio-strip.c, "idempotent builds").                  *)
THEOREM ArchiveIsStripped == Spec => []Stripped
<1>1. Init => StripAnswer
  <2> SUFFICES ASSUME Init, question.kind = "strip"
               PROVE  question.files \in Files /\ answer = NoAnswer
    BY DEF StripAnswer
  <2>1. PICK files \in FileLists, owner \in {0, 7} : question = AskStrip(files, owner)
    BY DEF Init, AskElf, AskMemory, AskStrings, AskHash, AskTables, AskPrint
  <2>2. PICK n \in 1..2 : files \in [1..n -> [name : 1..5, size : {0, 1, 6}]]
    BY DEF FileLists
  <2>3. files \in [1..n -> [name : Nat, size : Nat]]
    <3>1. \A f \in [name : 1..5, size : {0, 1, 6}] : f \in [name : Nat, size : Nat]
      OBVIOUS
    <3> QED BY <2>2, <3>1
  <2>4. files \in Files
    <3> DEFINE R == [name : Nat, size : Nat]
    <3>1. n \in Nat /\ files \in [1..n -> R]
      BY <2>2, <2>3
    <3> HIDE DEF R
    <3>2. files \in Seq(R)
      BY <3>1, SeqDef
    <3> QED BY <3>2 DEF Files, R
  <2> QED BY <2>1, <2>4 DEF Init, AskStrip
<1>2. StripAnswer /\ [Next]_vars => StripAnswer'
  <2> SUFFICES ASSUME StripAnswer, [Next]_vars, question'.kind = "strip"
               PROVE  StripAnswer'
    BY DEF StripAnswer
  <2>1. CASE StripArchive
    BY <2>1 DEF StripArchive, Asked, StripAnswer
  <2>2. ASSUME NEW kind, kind # "strip", Asked(kind)
        PROVE  FALSE
    BY <2>2 DEF Asked
  <2>3. ~ReadElf
    BY <2>2 DEF ReadElf
  <2>4. ~MoveMemory /\ ~CompareStrings
    BY <2>2 DEF MoveMemory, CompareStrings
  <2>5. ~MapKernel /\ ~PrintLine /\ ~HashMessage
    BY <2>2 DEF MapKernel, PrintLine, HashMessage
  <2>6. CASE UNCHANGED vars
    BY <2>6 DEF vars, StripAnswer
  <2> QED BY <2>1, <2>3, <2>4, <2>5, <2>6 DEF Next
<1>3. StripAnswer => Stripped
  <2> DEFINE files == question.files
             archive == Archived(files, question.owner)
  <2> SUFFICES ASSUME StripAnswer, Answered("strip")
               PROVE  /\ DOMAIN answer[1] = DOMAIN archive
                      /\ \A a \in DOMAIN archive :
                           IF Meta(archive, a)
                             THEN [answer[1][a] EXCEPT !.meta = archive[a].meta] = archive[a]
                             ELSE answer[1][a] = archive[a]
                      /\ \A owner \in {0, 3, 7} :
                           Strip(Archived(files, owner), Len(files)) = answer[1]
    BY DEF Stripped
  <2>1. files \in Files /\ answer[1] = Strip(archive, Len(files))
    BY DEF StripAnswer, Answered
  <2> HIDE DEF files
  <2> QED BY <2>1, OnlyMetadata
<1> QED BY <1>1, <1>2, <1>3, PTL DEF Spec

(***************************************************************************)
(* printf(): the digits of a number read back as the number                *)
(***************************************************************************)
Bases == {10, 16}
Digits == {Digit[d] : d \in 1..16}
DigitOf(c, base) == CHOOSE d \in 1..base : Digit[d] = c

(* No two digits are one character.                                        *)
LEMMA DigitsDiffer == \A d, e \in 1..16 : Digit[d] = Digit[e] => d = e
BY DEF Digit

(* A digit's character tells the digit.                                    *)
LEMMA DigitRead ==
  ASSUME NEW base \in Bases, NEW d \in 1..base
  PROVE  DigitOf(Digit[d], base) = d /\ Digit[d] \in Digits
<1>1. 1..base \subseteq 1..16
  BY DEF Bases
<1>2. \A e \in 1..base : Digit[e] = Digit[d] => e = d
  BY <1>1, DigitsDiffer
<1>3. DigitOf(Digit[d], base) = d
  BY <1>2 DEF DigitOf
<1> QED BY <1>1, <1>3 DEF Digits

(* write_num()'s digits, for every number up to n.                         *)
WrittenBy(f, base, n) ==
  f = [k \in 0..n |-> IF k = 0 THEN <<>> ELSE Append(f[k \div base], Digit[(k % base) + 1])]

(* What is left of a number without its last digit.                        *)
LEMMA Quotient ==
  ASSUME NEW base \in Bases, NEW k \in Nat \ {0}
  PROVE  /\ k \div base \in 0 .. k - 1 /\ k % base \in 0 .. base - 1
         /\ k = base * (k \div base) + (k % base)
         /\ k \div base = 0 => k % base # 0
<1>1. CASE base = 10
  BY <1>1
<1>2. CASE base = 16
  BY <1>2
<1> QED BY <1>1, <1>2 DEF Bases

(* write_num()'s recursion defines a function.                             *)
LEMMA WrittenExists ==
  ASSUME NEW base \in Bases, NEW N \in Nat
  PROVE  \E f : WrittenBy(f, base, N)
<1> DEFINE Has(n) == \E f : WrittenBy(f, base, n)
           Bad == {n \in 0..N : ~Has(n)}
<1>1. SUFFICES ASSUME Bad # {} PROVE FALSE
  OBVIOUS
<1>2. PICK n \in Bad : \A k \in Bad : n <= k
  <2>1. Bad \subseteq Nat
    OBVIOUS
  <2> HIDE DEF Bad
  <2> QED BY <1>1, <2>1, Least
<1>3. n # 0
  <2>1. WrittenBy([k \in 0..0 |-> <<>>], base, 0)
    BY DEF WrittenBy
  <2> QED BY <2>1
<1>4. PICK f : WrittenBy(f, base, n - 1)
  <2>1. n - 1 \in 0..N /\ n - 1 \notin Bad
    BY <1>2, <1>3
  <2> QED BY <2>1
<1>5. n \in Nat /\ n > 0
  BY <1>2, <1>3
<1> DEFINE Up(k) == k \div base
           More(k, t) == Append(t, Digit[(k % base) + 1])
           g == [k \in 0..n |-> IF k = n THEN More(n, f[Up(n)]) ELSE f[k]]
<1>6. \A k \in 1..n : Up(k) \in 0 .. k - 1
  BY <1>5, Quotient
<1>7. f = [j \in 0 .. n - 1 |-> IF j = 0 THEN <<>> ELSE More(j, f[Up(j)])]
  BY <1>4 DEF WrittenBy
<1> HIDE DEF Up, More
<1>8. ASSUME NEW k \in 0..n PROVE g[k] = IF k = 0 THEN <<>> ELSE More(k, g[Up(k)])
  <2>1. \A j \in 0 .. n - 1 : f[j] = IF j = 0 THEN <<>> ELSE More(j, f[Up(j)])
    BY <1>7
  <2>2. g[n] = More(n, f[Up(n)]) /\ \A j \in 0 .. n - 1 : g[j] = f[j]
    BY <1>5
  <2> HIDE DEF g
  <2>3. CASE k = n
    <3>1. Up(n) \in 0 .. n - 1
      BY <1>5, <1>6
    <3> QED BY <1>5, <2>2, <2>3, <3>1
  <2>4. CASE k < n
    <3>1. k \in 0 .. n - 1 /\ (k # 0 => k \in 1..n)
      BY <1>5, <2>4
    <3>2. k # 0 => Up(k) \in 0 .. n - 1
      BY <1>5, <1>6, <3>1
    <3> QED BY <2>1, <2>2, <3>1, <3>2
  <2> QED BY <1>5, <2>3, <2>4
<1>9. g = [k \in 0..n |-> g[k]]
  OBVIOUS
<1> HIDE DEF g
<1>10. WrittenBy(g, base, n)
  BY <1>8, <1>9 DEF WrittenBy, More, Up
<1> QED BY <1>2, <1>10

(* Reading digits from the left.                                           *)
ReadBy(f, text, base, n) ==
  f = [k \in 0..n |-> IF k = 0 THEN 0 ELSE base * f[k-1] + DigitOf(text[k], base) - 1]

(* So does reading.                                                        *)
LEMMA ReadExists ==
  ASSUME NEW base, NEW text, NEW N \in Nat
  PROVE  \E f : ReadBy(f, text, base, N)
<1> DEFINE Has(n) == \E f : ReadBy(f, text, base, n)
           Bad == {n \in 0..N : ~Has(n)}
<1>1. SUFFICES ASSUME Bad # {} PROVE FALSE
  OBVIOUS
<1>2. PICK n \in Bad : \A k \in Bad : n <= k
  <2>1. Bad \subseteq Nat
    OBVIOUS
  <2> HIDE DEF Bad
  <2> QED BY <1>1, <2>1, Least
<1>3. n # 0
  <2>1. ReadBy([k \in 0..0 |-> 0], text, base, 0)
    BY DEF ReadBy
  <2> QED BY <2>1
<1>4. PICK f : ReadBy(f, text, base, n - 1)
  <2>1. n - 1 \in 0..N /\ n - 1 \notin Bad
    BY <1>2, <1>3
  <2> QED BY <2>1
<1>5. n \in Nat /\ n > 0
  BY <1>2, <1>3
<1> DEFINE More(k, x) == base * x + DigitOf(text[k], base) - 1
           g == [k \in 0..n |-> IF k = n THEN More(n, f[n-1]) ELSE f[k]]
<1>6. f = [j \in 0 .. n - 1 |-> IF j = 0 THEN 0 ELSE More(j, f[j-1])]
  BY <1>4 DEF ReadBy
<1> HIDE DEF More
<1>7. ASSUME NEW k \in 0..n PROVE g[k] = IF k = 0 THEN 0 ELSE More(k, g[k-1])
  <2>1. \A j \in 0 .. n - 1 : f[j] = IF j = 0 THEN 0 ELSE More(j, f[j-1])
    BY <1>6
  <2>2. g[n] = More(n, f[n-1]) /\ \A j \in 0 .. n - 1 : g[j] = f[j]
    BY <1>5
  <2> HIDE DEF g
  <2>3. CASE k = n
    <3>1. n - 1 \in 0 .. n - 1
      BY <1>5
    <3> QED BY <1>5, <2>2, <2>3, <3>1
  <2>4. CASE k < n
    <3>1. k \in 0 .. n - 1 /\ (k # 0 => k - 1 \in 0 .. n - 1)
      BY <1>5, <2>4
    <3> QED BY <2>1, <2>2, <3>1
  <2> QED BY <1>5, <2>3, <2>4
<1>8. g = [k \in 0..n |-> g[k]]
  OBVIOUS
<1> HIDE DEF g
<1>9. ReadBy(g, text, base, n)
  BY <1>7, <1>8 DEF ReadBy, More
<1> QED BY <1>2, <1>9

(* The value of a text, digit by digit.                                    *)
LEMMA ReadIs ==
  ASSUME NEW base, NEW text, Len(text) \in Nat
  PROVE  \E f : /\ Value(text, base) = f[Len(text)]
                /\ f[0] = 0
                /\ \A k \in 1..Len(text) : f[k] = base * f[k-1] + DigitOf(text[k], base) - 1
<1> DEFINE n == Len(text)
           More(k, x) == base * x + DigitOf(text[k], base) - 1
           F == CHOOSE f : ReadBy(f, text, base, n)
<1>1. ReadBy(F, text, base, n)
  <2>1. \E f : ReadBy(f, text, base, n)
    BY ReadExists
  <2> QED BY <2>1
<1>2. Value(text, base) = F[n]
  BY DEF Value, ReadBy, DigitOf
<1> HIDE DEF F
<1>3. F = [k \in 0..n |-> IF k = 0 THEN 0 ELSE More(k, F[k-1])]
  BY <1>1 DEF ReadBy
<1> HIDE DEF More
<1>4. \A k \in 0..n : F[k] = IF k = 0 THEN 0 ELSE More(k, F[k-1])
  BY <1>3
<1>5. F[0] = 0 /\ \A k \in 1..n : F[k] = More(k, F[k-1])
  BY <1>4
<1> QED BY <1>2, <1>5 DEF More

(* No digits are worth nothing.                                            *)
LEMMA ValueEmpty ==
  ASSUME NEW base
  PROVE  Value(<<>>, base) = 0
<1> DEFINE text == <<>>
<1>1. Len(text) = 0
  OBVIOUS
<1> HIDE DEF text
<1>2. PICK f : Value(text, base) = f[Len(text)] /\ f[0] = 0
  BY ReadIs
<1>3. Value(text, base) = 0
  BY <1>1, <1>2
<1> QED BY <1>3 DEF text

(* One more digit is worth the base times the rest, and itself.            *)
LEMMA ValueAppend ==
  ASSUME NEW base, NEW S, NEW text \in Seq(S), NEW c \in S
  PROVE  Value(Append(text, c), base) = base * Value(text, base) + DigitOf(c, base) - 1
<1> DEFINE n == Len(text)
           long == Append(text, c)
           More(d, x) == base * x + DigitOf(d, base) - 1
<1>1. /\ n \in Nat /\ Len(long) = n + 1 /\ long[n + 1] = c
      /\ \A k \in 1..n : long[k] = text[k]
  BY LenProperties, AppendProperties
<1>2. PICK f : /\ Value(text, base) = f[n] /\ f[0] = 0
               /\ \A k \in 1..n : f[k] = More(text[k], f[k-1])
  <2>1. n \in Nat
    BY <1>1
  <2> QED BY <2>1, ReadIs
<1>3. PICK g : /\ Value(long, base) = g[Len(long)] /\ g[0] = 0
               /\ \A k \in 1..Len(long) : g[k] = More(long[k], g[k-1])
  <2>1. Len(long) \in Nat
    BY <1>1
  <2> HIDE DEF long
  <2> QED BY <2>1, ReadIs
<1> HIDE DEF long, More, n
<1> DEFINE Bad == {k \in 0..n : g[k] # f[k]}
<1>4. Bad = {}
  <2>1. SUFFICES ASSUME Bad # {} PROVE FALSE
    OBVIOUS
  <2>2. PICK k \in Bad : \A j \in Bad : k <= j
    <3>1. Bad \subseteq Nat
      OBVIOUS
    <3> HIDE DEF Bad
    <3> QED BY <2>1, <3>1, Least
  <2>3. k # 0
    BY <1>2, <1>3, <2>2
  <2>4. k \in 1..n /\ k \in 1..Len(long) /\ k - 1 \in 0..n /\ ~(k <= k - 1)
    BY <1>1, <2>2, <2>3
  <2>5. g[k-1] = f[k-1]
    BY <2>2, <2>4
  <2>6. g[k] = f[k]
    BY <1>1, <1>2, <1>3, <2>4, <2>5
  <2> QED BY <2>2, <2>6
<1>5. n \in 0..n /\ n + 1 \in 1..Len(long) /\ n + 1 - 1 = n
  BY <1>1
<1>6. g[n] = f[n]
  BY <1>4, <1>5
<1>7. g[n + 1] = More(c, g[n])
  BY <1>1, <1>3, <1>5
<1>8. Value(long, base) = More(c, Value(text, base))
  BY <1>1, <1>2, <1>3, <1>6, <1>7
<1> QED BY <1>8 DEF long, More

(* write_num() writes a number's digits, the last one last and no zero in  *)
(* front, for any number and in both bases (printf.c:44 write_num).        *)
THEOREM DigitsReadBack ==
  ASSUME NEW base \in Bases, NEW n \in Nat
  PROVE  /\ WriteNum(base, n) \in Seq(Digits) /\ WriteNum(base, n) # <<>>
         /\ Value(WriteNum(base, n), base) = n
         /\ WriteNum(base, n)[1] = "0" => WriteNum(base, n) = <<"0">>
<1>1. CASE n = 0
  <2> DEFINE zero == <<"0">>
  <2>1. WriteNum(base, n) = zero
    BY <1>1 DEF WriteNum
  <2>2. 1 \in 1..base /\ Digit[1] = "0"
    BY DEF Digit, Bases
  <2>3. "0" \in Digits /\ DigitOf("0", base) = 1
    BY <2>2, DigitRead
  <2>4. zero \in Seq(Digits) /\ zero # <<>> /\ zero = Append(<<>>, "0") /\ <<>> \in Seq(Digits)
    BY <2>3
  <2>5. Value(zero, base) = base * 0 + 1 - 1
    BY <2>3, <2>4, ValueAppend, ValueEmpty
  <2>6. base * 0 + 1 - 1 = 0
    BY DEF Bases
  <2> QED BY <1>1, <2>1, <2>4, <2>5, <2>6
<1>2. CASE n # 0
  <2> DEFINE F == CHOOSE f : WrittenBy(f, base, n)
             Up(k) == k \div base
             Last(k) == Digit[(k % base) + 1]
             Good(k) == /\ F[k] \in Seq(Digits) /\ Value(F[k], base) = k
                        /\ k # 0 => F[k] # <<>> /\ F[k][1] # "0"
             Bad == {k \in 0..n : ~Good(k)}
  <2>1. WriteNum(base, n) = F[n]
    BY <1>2 DEF WriteNum, WrittenBy
  <2>2. WrittenBy(F, base, n)
    BY WrittenExists
  <2> HIDE DEF F
  <2>3. F = [k \in 0..n |-> IF k = 0 THEN <<>> ELSE Append(F[Up(k)], Last(k))]
    BY <2>2 DEF WrittenBy
  <2> HIDE DEF Up, Last
  <2>4. \A k \in 0..n : F[k] = IF k = 0 THEN <<>> ELSE Append(F[Up(k)], Last(k))
    BY <2>3
  <2>5. Bad = {}
    <3>1. SUFFICES ASSUME Bad # {} PROVE FALSE
      OBVIOUS
    <3>2. PICK k \in Bad : \A j \in Bad : k <= j
      <4>1. Bad \subseteq Nat
        OBVIOUS
      <4> HIDE DEF Bad
      <4> QED BY <3>1, <4>1, Least
    <3>3. k # 0
      <4>1. F[0] = <<>> /\ <<>> \in Seq(Digits)
        BY <2>4
      <4>2. Good(0)
        BY <4>1, ValueEmpty
      <4> QED BY <3>2, <4>2
    <3>4. k \in 1..n /\ k \in Nat \ {0} /\ k \in 0..n
      BY <3>2, <3>3
    <3>5. /\ Up(k) \in 0 .. k - 1 /\ k % base \in 0 .. base - 1
          /\ k = base * Up(k) + (k % base)
          /\ Up(k) = 0 => k % base # 0
      BY <3>4, Quotient DEF Up
    <3>6. Good(Up(k))
      <4>1. Up(k) \in 0..n /\ ~(k <= Up(k))
        BY <3>4, <3>5
      <4> QED BY <3>2, <4>1
    <3> DEFINE d == k % base
               t == F[Up(k)]
    <3>7. d + 1 \in 1..base /\ base \in Nat /\ base <= 16
      BY <3>5 DEF Bases
    <3>8. Last(k) = Digit[d + 1]
      BY DEF Last
    <3> HIDE DEF d, t
    <3>9. DigitOf(Last(k), base) = d + 1 /\ Last(k) \in Digits
      BY <3>7, <3>8, DigitRead
    <3>10. t \in Seq(Digits) /\ Value(t, base) = Up(k) /\ (Up(k) # 0 => t # <<>> /\ t[1] # "0")
      BY <3>6 DEF t
    <3>11. F[k] = Append(t, Last(k))
      BY <2>4, <3>3, <3>4 DEF t
    <3>12. Value(F[k], base) = base * Up(k) + (d + 1) - 1
      BY <3>9, <3>10, <3>11, ValueAppend
    <3>13. base * Up(k) + (d + 1) - 1 = k
      <4>1. base * Up(k) \in Int
        BY <3>5, <3>7
      <4>2. k = base * Up(k) + d /\ d \in Int
        BY <3>5 DEF d
      <4> QED BY <4>1, <4>2
    <3>14. F[k] \in Seq(Digits) /\ F[k] # <<>>
      BY <3>9, <3>10, <3>11
    <3>15. F[k][1] # "0"
      <4>1. CASE Up(k) = 0
        <5>1. F[0] = <<>>
          BY <2>4
        <5>2. F[k] = <<Last(k)>>
          BY <3>11, <4>1, <5>1 DEF t
        <5>3. d # 0 /\ d \in Int
          BY <3>5, <4>1 DEF d
        <5>4. d + 1 # 1 /\ d + 1 \in 1..16 /\ 1 \in 1..16
          BY <3>7, <5>3
        <5>0. Digit[1] = "0"
          BY DEF Digit
        <5>5. Last(k) # "0"
          BY <3>8, <5>0, <5>4, DigitsDiffer
        <5> QED BY <5>2, <5>5
      <4>2. CASE Up(k) # 0
        <5>1. t # <<>> /\ t[1] # "0"
          BY <3>10, <4>2
        <5>2. 1 \in 1..Len(t)
          BY <3>10, <5>1, EmptySeq, LenProperties
        <5>3. F[k][1] = t[1]
          BY <3>9, <3>10, <3>11, <5>2, AppendProperties
        <5> QED BY <5>1, <5>3
      <4> QED BY <4>1, <4>2
    <3>16. Good(k)
      BY <3>12, <3>13, <3>14, <3>15
    <3> QED BY <3>2, <3>16
  <2>6. n \in 0..n
    OBVIOUS
  <2>7. Good(n)
    BY <2>5, <2>6
  <2> QED BY <1>2, <2>1, <2>7
<1> QED BY <1>1, <1>2

(***************************************************************************)
(* printf(): the line around the number                                    *)
(***************************************************************************)
(* f follows vxprintf() through a format.                                  *)
StartState == [out |-> <<>>, mode |-> "plain", arg |-> 1]
Steps(f, format, args, n) ==
  f = [k \in 0..n |-> IF k = 0 THEN StartState ELSE Character(f[k-1], format[k], args)]

(* The states of vxprintf() along a format are a function.                 *)
LEMMA StepsExist ==
  ASSUME NEW format, NEW args, NEW N \in Nat
  PROVE  \E f : Steps(f, format, args, N)
<1> DEFINE Has(n) == \E f : Steps(f, format, args, n)
           Bad == {n \in 0..N : ~Has(n)}
<1>1. SUFFICES ASSUME Bad # {} PROVE FALSE
  OBVIOUS
<1>2. PICK n \in Bad : \A k \in Bad : n <= k
  <2>1. Bad \subseteq Nat
    OBVIOUS
  <2> HIDE DEF Bad
  <2> QED BY <1>1, <2>1, Least
<1>3. n # 0
  <2>1. Steps([k \in 0..0 |-> StartState], format, args, 0)
    BY DEF Steps
  <2> QED BY <2>1
<1>4. PICK f : Steps(f, format, args, n - 1)
  <2>1. n - 1 \in 0..N /\ n - 1 \notin Bad
    BY <1>2, <1>3
  <2> QED BY <2>1
<1>5. n \in Nat /\ n > 0
  BY <1>2, <1>3
<1> DEFINE More(k, st) == Character(st, format[k], args)
           g == [k \in 0..n |-> IF k = n THEN More(n, f[n-1]) ELSE f[k]]
<1>6. f = [j \in 0 .. n - 1 |-> IF j = 0 THEN StartState ELSE More(j, f[j-1])]
  BY <1>4 DEF Steps
<1> HIDE DEF More
<1>7. ASSUME NEW k \in 0..n PROVE g[k] = IF k = 0 THEN StartState ELSE More(k, g[k-1])
  <2>1. \A j \in 0 .. n - 1 : f[j] = IF j = 0 THEN StartState ELSE More(j, f[j-1])
    BY <1>6
  <2>2. g[n] = More(n, f[n-1]) /\ \A j \in 0 .. n - 1 : g[j] = f[j]
    BY <1>5
  <2> HIDE DEF g
  <2>3. CASE k = n
    <3>1. n - 1 \in 0 .. n - 1
      BY <1>5
    <3> QED BY <1>5, <2>2, <2>3, <3>1
  <2>4. CASE k < n
    <3>1. k \in 0 .. n - 1 /\ (k # 0 => k - 1 \in 0 .. n - 1)
      BY <1>5, <2>4
    <3> QED BY <2>1, <2>2, <3>1
  <2> QED BY <1>5, <2>3, <2>4
<1>8. g = [k \in 0..n |-> g[k]]
  OBVIOUS
<1> HIDE DEF g
<1>9. Steps(g, format, args, n)
  BY <1>7, <1>8 DEF Steps, More
<1> QED BY <1>2, <1>9

(* The states of vxprintf() from one to a later one of a format.           *)
Follow(f, at, chars, args) ==
  \A k \in 1..Len(chars) : f[at + k] = Character(f[at + k - 1], chars[k], args)

(* vxprintf()'s output is that of the last state.                          *)
LEMMA StepsAre ==
  ASSUME NEW format, Len(format) \in Nat, NEW args
  PROVE  \E f : /\ Vxprintf(format, args) = f[Len(format)].out
                /\ f[0] = StartState
                /\ \A k \in 1..Len(format) : f[k] = Character(f[k-1], format[k], args)
<1> DEFINE n == Len(format)
           More(k, st) == Character(st, format[k], args)
           F == CHOOSE f : Steps(f, format, args, n)
<1>1. Steps(F, format, args, n)
  <2>1. \E f : Steps(f, format, args, n)
    BY StepsExist
  <2> QED BY <2>1
<1>2. Vxprintf(format, args) = F[n].out
  BY DEF Vxprintf, Steps, StartState
<1> HIDE DEF F
<1>3. F = [k \in 0..n |-> IF k = 0 THEN StartState ELSE More(k, F[k-1])]
  BY <1>1 DEF Steps
<1> HIDE DEF More
<1>4. \A k \in 0..n : F[k] = IF k = 0 THEN StartState ELSE More(k, F[k-1])
  BY <1>3
<1>5. F[0] = StartState /\ \A k \in 1..n : F[k] = More(k, F[k-1])
  BY <1>4
<1> QED BY <1>2, <1>5 DEF More

(* A number of no sign bit is written as it is, by every conversion.       *)
LEMMA NotExtended ==
  ASSUME NEW n \in 0 .. (IntVals \div 2) - 1
  PROVE  SignExtended(n) = n /\ n % LongVals = n
<1>1. IntVals \in Nat /\ LongVals \in Nat /\ IntVals <= LongVals
  BY PrintfAssumption
<1>2. n \in Nat /\ n < IntVals \div 2 /\ n < IntVals /\ n < LongVals
  BY <1>1
<1>3. \A w \in Nat : n < w => n % w = n
  BY <1>2
<1>4. n % IntVals = n /\ n % LongVals = n
  BY <1>1, <1>2, <1>3
<1> QED BY <1>2, <1>4 DEF SignExtended

(* A state of vxprintf(), by how the next character will be taken.         *)
State(st, out, mode, arg) == st = [out |-> out, mode |-> mode, arg |-> arg]
Escaped(st, out, arg) == State(st, out, "escape", arg)
Plain(st, out, arg) == State(st, out, "plain", arg)
Long(st, out, arg) == State(st, out, "long", arg)

(* What is written for an argument is put behind the rest.                 *)
LEMMA Emitted ==
  ASSUME NEW st, NEW out, NEW mode, NEW arg, NEW w, State(st, out, mode, arg)
  PROVE  State(EmitArg(st, w), out \o w, "plain", arg + 1)
<1> DEFINE more == out \o w
           next == arg + 1
<1>1. Emit(st, w) = [out |-> more, mode |-> "plain", arg |-> arg]
  <2>0. st.out = out
    BY DEF State
  <2>1. Emit(st, w) = [st EXCEPT !.out = more, !.mode = "plain"]
    BY <2>0 DEF Emit
  <2> HIDE DEF more
  <2> QED BY <2>1 DEF State
<1>2. EmitArg(st, w) = [Emit(st, w) EXCEPT !.arg = Emit(st, w).arg + 1]
  BY DEF EmitArg
<1>3. Emit(st, w).arg + 1 = next
  BY <1>1
<1> HIDE DEF more, next
<1>4. EmitArg(st, w) = [out |-> more, mode |-> "plain", arg |-> next]
  BY <1>1, <1>2, <1>3
<1> QED BY <1>4 DEF State, more, next

(* The characters told apart.                                              *)
LEMMA CharacterIs ==
  ASSUME NEW st, NEW out, NEW arg, NEW args
  PROVE  /\ Plain(st, out, arg) => /\ Plain(Character(st, "<", args), out \o <<"<">>, arg)
                                   /\ Escaped(Character(st, "%", args), out, arg)
         /\ Escaped(st, out, arg) =>
              /\ \A c \in {"0", "8"} : Escaped(Character(st, c, args), out, arg)
              /\ Long(Character(st, "l", args), out, arg)
              /\ Plain(Character(st, "s", args), out \o args[arg], arg + 1)
              /\ Plain(Character(st, "p", args), out \o WriteNum(16, args[arg] % LongVals), arg + 1)
              /\ Plain(Character(st, "x", args), out \o WriteNum(16, SignExtended(args[arg])), arg + 1)
              /\ \A c \in {"d", "u"} :
                   Plain(Character(st, c, args), out \o WriteNum(10, SignExtended(args[arg])), arg + 1)
         /\ Long(st, out, arg) =>
              /\ Plain(Character(st, "u", args), out \o WriteNum(10, args[arg] % LongVals), arg + 1)
              /\ Plain(Character(st, "x", args), out \o WriteNum(16, args[arg] % LongVals), arg + 1)
<1>1. ASSUME Plain(st, out, arg)
      PROVE  /\ Plain(Character(st, "<", args), out \o <<"<">>, arg)
             /\ Escaped(Character(st, "%", args), out, arg)
  BY <1>1 DEF Plain, Escaped, State, Character, Emit
<1>2. ASSUME Escaped(st, out, arg)
      PROVE  /\ \A c \in {"0", "8"} : Escaped(Character(st, c, args), out, arg)
             /\ Long(Character(st, "l", args), out, arg)
             /\ Plain(Character(st, "s", args), out \o args[arg], arg + 1)
             /\ Plain(Character(st, "p", args), out \o WriteNum(16, args[arg] % LongVals), arg + 1)
             /\ Plain(Character(st, "x", args), out \o WriteNum(16, SignExtended(args[arg])), arg + 1)
             /\ \A c \in {"d", "u"} :
                  Plain(Character(st, c, args), out \o WriteNum(10, SignExtended(args[arg])), arg + 1)
  <2>1. \A c : c # "%" => Character(st, c, args) = Convert(st, c, args)
    BY <1>2 DEF Escaped, State, Character
  <2>2. \A w : Plain(EmitArg(st, w), out \o w, arg + 1)
    BY <1>2, Emitted DEF Escaped, Plain
  <2>3. st.arg = arg /\ Long([st EXCEPT !.mode = "long"], out, arg)
    BY <1>2 DEF Escaped, Long, State
  <2>4. \A c \in {"0", "8"} : Character(st, c, args) = st
    BY <2>1 DEF Convert, Modifiers
  <2>5. Character(st, "l", args) = [st EXCEPT !.mode = "long"]
    BY <2>1 DEF Convert, Modifiers
  <2>6. Character(st, "s", args) = EmitArg(st, args[arg])
    BY <2>1, <2>3 DEF Convert, Modifiers
  <2>7. Character(st, "p", args) = EmitArg(st, WriteNum(16, args[arg] % LongVals))
    BY <2>1, <2>3 DEF Convert, Modifiers
  <2>8. Character(st, "x", args) = EmitArg(st, WriteNum(16, SignExtended(args[arg])))
    BY <2>1, <2>3 DEF Convert, Modifiers
  <2>9. \A c \in {"d", "u"} : Character(st, c, args) = EmitArg(st, WriteNum(10, SignExtended(args[arg])))
    BY <2>1, <2>3 DEF Convert, Modifiers
  <2> QED BY <1>2, <2>2, <2>3, <2>4, <2>5, <2>6, <2>7, <2>8, <2>9
<1>3. ASSUME Long(st, out, arg)
      PROVE  /\ Plain(Character(st, "u", args), out \o WriteNum(10, args[arg] % LongVals), arg + 1)
             /\ Plain(Character(st, "x", args), out \o WriteNum(16, args[arg] % LongVals), arg + 1)
  <2>1. \A c : Character(st, c, args) = ConvertLong(st, c, args)
    BY <1>3 DEF Long, State, Character
  <2>2. \A w : Plain(EmitArg(st, w), out \o w, arg + 1)
    BY <1>3, Emitted DEF Long, Plain
  <2>3. st.arg = arg
    BY <1>3 DEF Long, State
  <2>4. /\ Character(st, "u", args) = EmitArg(st, WriteNum(10, args[arg] % LongVals))
        /\ Character(st, "x", args) = EmitArg(st, WriteNum(16, args[arg] % LongVals))
    BY <2>1, <2>3 DEF ConvertLong
  <2> QED BY <2>2, <2>4
<1> QED BY <1>1, <1>2, <1>3

(* A conversion writes the number in its base and takes one argument.      *)
LEMMA Converted ==
  ASSUME NEW f, NEW at \in Nat, NEW conversion \in Conversions, NEW args, NEW out, NEW arg,
         Escaped(f[at], out, arg), Follow(f, at, conversion, args),
         args[arg] \in 0 .. (IntVals \div 2) - 1
  PROVE  Plain(f[at + Len(conversion)],
               out \o WriteNum(BaseOf(conversion), args[arg]), arg + 1)
<1> DEFINE n == args[arg]
<1>0. SignExtended(n) = n /\ n % LongVals = n
  BY NotExtended
<1> HIDE DEF n
<1>1. CASE conversion \in {<<"d">>, <<"x">>, <<"p">>}
  <2>1. /\ Len(conversion) = 1 /\ conversion[1] \in {"d", "x", "p"}
        /\ BaseOf(conversion) = IF conversion[1] = "d" THEN 10 ELSE 16
    BY <1>1 DEF BaseOf
  <2>2. f[at + 1] = Character(f[at], conversion[1], args)
    <3>1. 1 \in 1..Len(conversion) /\ at + 1 - 1 = at
      BY <2>1
    <3> QED BY <3>1 DEF Follow
  <2> QED BY <1>0, <2>1, <2>2, CharacterIs DEF n
<1>2. CASE conversion \in {<<"l", "u">>, <<"l", "x">>}
  <2>1. /\ Len(conversion) = 2 /\ conversion[1] = "l" /\ conversion[2] \in {"u", "x"}
        /\ BaseOf(conversion) = IF conversion[2] = "u" THEN 10 ELSE 16
    BY <1>2 DEF BaseOf
  <2>2. /\ f[at + 1] = Character(f[at], conversion[1], args)
        /\ f[at + 2] = Character(f[at + 1], conversion[2], args)
    <3>1. 1 \in 1..Len(conversion) /\ at + 1 - 1 = at /\ 2 \in 1..Len(conversion) /\ at + 2 - 1 = at + 1
      BY <2>1
    <3> QED BY <3>1 DEF Follow
  <2>3. Long(f[at + 1], out, arg)
    BY <2>1, <2>2, CharacterIs
  <2> QED BY <1>0, <2>1, <2>2, <2>3, CharacterIs DEF n
<1>3. CASE conversion = <<"0", "8", "u">>
  <2>1. /\ Len(conversion) = 3 /\ conversion[1] = "0" /\ conversion[2] = "8" /\ conversion[3] = "u"
        /\ BaseOf(conversion) = 10
    BY <1>3 DEF BaseOf
  <2>2. /\ f[at + 1] = Character(f[at], conversion[1], args)
        /\ f[at + 2] = Character(f[at + 1], conversion[2], args)
        /\ f[at + 3] = Character(f[at + 2], conversion[3], args)
    <3>1. /\ 1 \in 1..Len(conversion) /\ at + 1 - 1 = at
          /\ 2 \in 1..Len(conversion) /\ at + 2 - 1 = at + 1
          /\ 3 \in 1..Len(conversion) /\ at + 3 - 1 = at + 2
      BY <2>1
    <3> QED BY <3>1 DEF Follow
  <2>3. Escaped(f[at + 1], out, arg)
    BY <2>1, <2>2, CharacterIs
  <2>4. Escaped(f[at + 2], out, arg)
    BY <2>1, <2>2, <2>3, CharacterIs
  <2> QED BY <1>0, <2>1, <2>2, <2>4, CharacterIs DEF n
<1> QED BY <1>1, <1>2, <1>3 DEF Conversions
(* The n characters of one sequence behind the m of another.               *)
Behind(both, s, t, m, n) ==
  /\ Len(both) = m + n
  /\ \A k \in 1..m : both[k] = s[k]
  /\ \A k \in 1..n : both[m + k] = t[k]

(* That is what the concatenation of two sequences is.                     *)
LEMMA PutBehind ==
  ASSUME NEW S, NEW s \in Seq(S), NEW t \in Seq(S), NEW m, NEW n, m = Len(s), n = Len(t)
  PROVE  s \o t \in Seq(S) /\ m \in Nat /\ n \in Nat /\ Behind(s \o t, s, t, m, n)
<1> DEFINE both == s \o t
<1>1. m \in Nat /\ n \in Nat
  BY LenProperties
<1>2. /\ both \in Seq(S) /\ Len(both) = m + n
      /\ \A k \in 1 .. m + n : both[k] = IF k <= m THEN s[k] ELSE t[k - m]
  BY ConcatProperties
<1> HIDE DEF both
<1>3. ASSUME NEW k \in 1..m PROVE both[k] = s[k]
  <2>1. k \in 1 .. m + n /\ k <= m
    BY <1>1
  <2> QED BY <1>2, <2>1
<1>4. ASSUME NEW k \in 1..n PROVE both[m + k] = t[k]
  <2> DEFINE j == m + k
  <2>1. j \in 1 .. m + n /\ ~(j <= m) /\ j - m = k
    BY <1>1
  <2> HIDE DEF j
  <2>2. both[j] = t[k]
    BY <1>2, <2>1
  <2> QED BY <2>2 DEF j
<1> QED BY <1>1, <1>2, <1>3, <1>4 DEF both, Behind

(* A format of a prefix, a conversion and a suffix.                        *)
Characters == {"<", ">", "%", "d", "0", "8", "u", "x", "p", "l", "s"} \union Digits

(* The conversions asked for are sequences of characters.                  *)
LEMMA ConversionIs ==
  ASSUME NEW conversion \in Conversions
  PROVE  conversion \in Seq(Characters) /\ Len(conversion) \in Nat
<1>1. /\ <<"d">> \in Seq(Characters) /\ <<"x">> \in Seq(Characters) /\ <<"p">> \in Seq(Characters)
      /\ <<"l", "u">> \in Seq(Characters) /\ <<"l", "x">> \in Seq(Characters)
      /\ <<"0", "8", "u">> \in Seq(Characters)
  BY DEF Characters
<1>2. conversion \in Seq(Characters)
  BY <1>1 DEF Conversions
<1> QED BY <1>2, LenProperties

(* The whole line: the text in front, the number, the text behind.         *)
LEMMA LinePrinted ==
  ASSUME NEW conversion \in Conversions, NEW n \in 0 .. (IntVals \div 2) - 1, NEW last
  PROVE  Vxprintf(<<"<", "%">> \o conversion \o <<"%", "s">>, <<n, last>>) =
           ((<<>> \o <<"<">>) \o WriteNum(BaseOf(conversion), n)) \o last
<1> DEFINE pre == <<"<", "%">>
           post == <<"%", "s">>
           head == pre \o conversion
           format == head \o post
           args == <<n, last>>
           c == Len(conversion)
<1>1. /\ pre \in Seq(Characters) /\ post \in Seq(Characters)
      /\ Len(pre) = 2 /\ pre[1] = "<" /\ pre[2] = "%"
      /\ Len(post) = 2 /\ post[1] = "%" /\ post[2] = "s"
  BY DEF Characters
<1>2. conversion \in Seq(Characters) /\ c \in Nat
  BY ConversionIs
<1> HIDE DEF pre, post, c
<1>3. /\ head \in Seq(Characters) /\ Len(head) = 2 + c
      /\ \A k \in 1..2 : head[k] = pre[k]
      /\ \A k \in 1..c : head[2 + k] = conversion[k]
  <2>1. c = Len(conversion) /\ 2 = Len(pre)
    BY <1>1 DEF c
  <2>2. head \in Seq(Characters) /\ Behind(head, pre, conversion, 2, c)
    BY <1>1, <1>2, <2>1, PutBehind
  <2> HIDE DEF head
  <2> QED BY <2>2 DEF Behind
<1> HIDE DEF head
<1>4. /\ format \in Seq(Characters) /\ Len(format) = Len(head) + 2
      /\ \A k \in 1..Len(head) : format[k] = head[k]
      /\ \A k \in 1..2 : format[Len(head) + k] = post[k]
  <2>1. format \in Seq(Characters) /\ Behind(format, head, post, Len(head), 2)
    BY <1>1, <1>3, PutBehind
  <2> HIDE DEF format
  <2> QED BY <2>1 DEF Behind
<1> HIDE DEF format
<1>5. /\ Len(format) = c + 4 /\ format[1] = "<" /\ format[2] = "%"
      /\ \A k \in 1..c : format[2 + k] = conversion[k]
      /\ format[c + 3] = "%" /\ format[c + 4] = "s"
  <2>1. Len(format) = c + 4
    BY <1>2, <1>3, <1>4
  <2>2. 1 \in 1..Len(head) /\ 2 \in 1..Len(head)
    BY <1>2, <1>3
  <2>3. format[1] = "<" /\ format[2] = "%"
    BY <1>1, <1>3, <1>4, <2>2
  <2>4. \A k \in 1..c : 2 + k \in 1..Len(head)
    BY <1>2, <1>3
  <2>5. Len(head) + 1 = c + 3 /\ Len(head) + 2 = c + 4
    BY <1>2, <1>3
  <2> QED BY <1>1, <1>3, <1>4, <2>1, <2>3, <2>4, <2>5
<1>6. args[1] = n /\ args[2] = last
  OBVIOUS
<1> HIDE DEF args
<1>7. PICK f : /\ Vxprintf(format, args) = f[Len(format)].out
               /\ f[0] = StartState
               /\ \A k \in 1..Len(format) : f[k] = Character(f[k-1], format[k], args)
  <2>1. Len(format) \in Nat
    BY <1>2, <1>5
  <2> QED BY <2>1, StepsAre
<1>8. /\ f[1] = Character(f[0], "<", args) /\ f[2] = Character(f[1], "%", args)
      /\ f[c + 3] = Character(f[c + 2], "%", args) /\ f[c + 4] = Character(f[c + 3], "s", args)
  <2>1. /\ 1 \in 1..Len(format) /\ 2 \in 1..Len(format)
        /\ c + 3 \in 1..Len(format) /\ c + 4 \in 1..Len(format)
        /\ 1 - 1 = 0 /\ 2 - 1 = 1 /\ c + 3 - 1 = c + 2 /\ c + 4 - 1 = c + 3
    BY <1>2, <1>5
  <2>2. f[1] = Character(f[0], format[1], args) /\ f[2] = Character(f[1], format[2], args)
    BY <1>7, <2>1
  <2> DEFINE y == c + 3
             z == c + 4
  <2>3. /\ f[y] = Character(f[y - 1], format[y], args)
        /\ f[z] = Character(f[z - 1], format[z], args)
    <3>1. y \in 1..Len(format) /\ z \in 1..Len(format)
      BY <2>1
    <3> HIDE DEF y, z
    <3> QED BY <1>7, <3>1
  <2>4. y - 1 = c + 2 /\ z - 1 = c + 3 /\ format[y] = "%" /\ format[z] = "s"
    <3>1. y - 1 = c + 2 /\ z - 1 = c + 3
      BY <1>2
    <3>2. format[y] = "%" /\ format[z] = "s"
      BY <1>5, Zenon
    <3> QED BY <3>1, <3>2
  <2>5. f[y] = Character(f[c + 2], "%", args) /\ f[z] = Character(f[c + 3], "s", args)
    <3> HIDE DEF y, z
    <3> QED BY <2>3, <2>4
  <2>6. f[1] = Character(f[0], "<", args) /\ f[2] = Character(f[1], "%", args)
    BY <1>5, <2>2
  <2> QED BY <2>5, <2>6
<1> DEFINE begun == <<>> \o <<"<">>
           number == WriteNum(BaseOf(conversion), n)
<1>9. Plain(f[0], <<>>, 1)
  BY <1>7 DEF Plain, State, StartState
<1>10. Plain(f[1], begun, 1)
  BY <1>8, <1>9, CharacterIs
<1> HIDE DEF begun
<1>11. Escaped(f[2], begun, 1)
  BY <1>8, <1>10, CharacterIs
<1>12. Follow(f, 2, conversion, args)
  <2> SUFFICES ASSUME NEW k \in 1..c PROVE f[2 + k] = Character(f[2 + k - 1], conversion[k], args)
    BY DEF Follow, c
  <2>1. 2 + k \in 1..Len(format)
    BY <1>2, <1>5
  <2> QED BY <1>5, <1>7, <2>1
<1>13. Plain(f[c + 2], begun \o number, 2)
  <2>1. 2 \in Nat /\ 1 + 1 = 2 /\ 2 + Len(conversion) = c + 2
    BY <1>2 DEF c
  <2>2. Plain(f[2 + Len(conversion)], begun \o WriteNum(BaseOf(conversion), args[1]), 1 + 1)
    BY <1>6, <1>11, <1>12, Converted
  <2> QED BY <1>6, <2>1, <2>2
<1> HIDE DEF number
<1>14. Escaped(f[c + 3], begun \o number, 2)
  BY <1>8, <1>13, CharacterIs
<1>15. Plain(f[c + 4], (begun \o number) \o last, 2 + 1)
  BY <1>6, <1>8, <1>14, CharacterIs
<1>16. f[c + 4].out = (begun \o number) \o last
  BY <1>15 DEF Plain, State
<1> QED BY <1>5, <1>7, <1>16 DEF format, head, pre, post, args, begun, number

(* The number alone.                                                       *)
LEMMA NumberPrinted ==
  ASSUME NEW conversion \in Conversions, NEW n \in 0 .. (IntVals \div 2) - 1
  PROVE  Vxprintf(<<"%">> \o conversion, <<n>>) = <<>> \o WriteNum(BaseOf(conversion), n)
<1> DEFINE pre == <<"%">>
           format == pre \o conversion
           args == <<n>>
           c == Len(conversion)
<1>1. pre \in Seq(Characters) /\ Len(pre) = 1 /\ pre[1] = "%"
  BY DEF Characters
<1>2. conversion \in Seq(Characters) /\ c \in Nat
  BY ConversionIs
<1> HIDE DEF pre, c
<1>3. /\ Len(format) = 1 + c
      /\ \A k \in 1..1 : format[k] = pre[k]
      /\ \A k \in 1..c : format[1 + k] = conversion[k]
  <2>1. c = Len(conversion) /\ 1 = Len(pre)
    BY <1>1 DEF c
  <2>2. Behind(format, pre, conversion, 1, c)
    BY <1>1, <1>2, <2>1, PutBehind
  <2> HIDE DEF format
  <2> QED BY <2>2 DEF Behind
<1> HIDE DEF format
<1>4. args[1] = n
  OBVIOUS
<1> HIDE DEF args
<1>5. PICK f : /\ Vxprintf(format, args) = f[Len(format)].out
               /\ f[0] = StartState
               /\ \A k \in 1..Len(format) : f[k] = Character(f[k-1], format[k], args)
  <2>1. Len(format) \in Nat
    BY <1>2, <1>3
  <2> QED BY <2>1, StepsAre
<1>6. f[1] = Character(f[0], "%", args)
  <2>1. 1 \in 1..Len(format) /\ 1 - 1 = 0 /\ 1 \in 1..1
    BY <1>2, <1>3
  <2> QED BY <1>1, <1>3, <1>5, <2>1
<1>7. Plain(f[0], <<>>, 1)
  BY <1>5 DEF Plain, State, StartState
<1>8. Escaped(f[1], <<>>, 1)
  BY <1>6, <1>7, CharacterIs
<1>9. Follow(f, 1, conversion, args)
  <2> SUFFICES ASSUME NEW k \in 1..c PROVE f[1 + k] = Character(f[1 + k - 1], conversion[k], args)
    BY DEF Follow, c
  <2>1. 1 + k \in 1..Len(format)
    BY <1>2, <1>3
  <2> QED BY <1>3, <1>5, <2>1
<1>10. Plain(f[1 + c], <<>> \o WriteNum(BaseOf(conversion), args[1]), 1 + 1)
  BY <1>4, <1>8, <1>9, Converted DEF c
<1> QED BY <1>3, <1>4, <1>5, <1>10 DEF Plain, State, format, pre, args

(* From its characters, a part of a sequence.                              *)
IsPart(s, t, a, b) == b = a + Len(t) - 1 /\ \A k \in 1..Len(t) : s[a + k - 1] = t[k]

(* A part is told by its characters.                                       *)
LEMMA PartIs ==
  ASSUME NEW S, NEW s \in Seq(S), NEW t \in Seq(S), NEW a \in Nat \ {0}, NEW b \in Nat,
         b <= Len(s), IsPart(s, t, a, b)
  PROVE  SubSeq(s, a, b) = t
<1> DEFINE part == SubSeq(s, a, b)
<1>1. Len(t) \in Nat /\ Len(s) \in Nat
  BY LenProperties
<1>2. b = a + Len(t) - 1 /\ \A k \in 1..Len(t) : s[a + k - 1] = t[k]
  BY DEF IsPart
<1>3. a \in Int /\ b \in Int /\ \A k \in a..b : s[k] \in S
  <2>1. \A k \in a..b : k \in 1..Len(s)
    BY <1>1
  <2>2. \A k \in 1..Len(s) : s[k] \in S
    BY ElementOfSeq
  <2> QED BY <2>1, <2>2
<1>4. /\ part \in Seq(S) /\ Len(part) = IF a <= b THEN b - a + 1 ELSE 0
      /\ \A k \in 1 .. b - a + 1 : part[k] = s[a + k - 1]
  BY <1>3, SubSeqProperties
<1> HIDE DEF part
<1>5. Len(part) = Len(t) /\ b - a + 1 = Len(t)
  BY <1>1, <1>2, <1>4
<1>6. \A k \in 1..Len(part) : part[k] = t[k]
  BY <1>2, <1>4, <1>5
<1>7. part = t
  BY <1>4, <1>5, <1>6, SeqEqual
<1> QED BY <1>7 DEF part

(* What stands between the brackets is the number.                         *)
LEMMA LineParts ==
  ASSUME NEW w \in Seq(Characters), NEW line, line = ((<<>> \o <<"<">>) \o w) \o <<">", "%">>
  PROVE  /\ line[1] = "<" /\ SubSeq(line, Len(line) - 1, Len(line)) = <<">", "%">>
         /\ SubSeq(line, 2, Len(line) - 2) = w
<1> DEFINE open == <<"<">>
           close == <<">", "%">>
           head == open \o w
           n == Len(w)
<1>1. /\ open \in Seq(Characters) /\ Len(open) = 1 /\ open[1] = "<"
      /\ close \in Seq(Characters) /\ Len(close) = 2
  BY DEF Characters
<1>2. <<>> \o open = open
  BY <1>1, ConcatEmptySeq
<1> HIDE DEF open, close
<1>3. /\ head \in Seq(Characters) /\ Len(head) = 1 + n /\ n \in Nat
      /\ \A k \in 1..1 : head[k] = open[k]
      /\ \A k \in 1..n : head[1 + k] = w[k]
  <2>1. 1 = Len(open)
    BY <1>1
  <2>2. head \in Seq(Characters) /\ n \in Nat /\ Behind(head, open, w, 1, n)
    BY <1>1, <2>1, PutBehind
  <2> HIDE DEF head, n
  <2> QED BY <2>2 DEF Behind
<1>4. line = head \o close
  BY <1>2 DEF open, close
<1> HIDE DEF head, n
<1>5. /\ line \in Seq(Characters) /\ Len(line) = Len(head) + 2
      /\ \A k \in 1..Len(head) : line[k] = head[k]
      /\ \A k \in 1..2 : line[Len(head) + k] = close[k]
  <2>0. 2 = Len(close)
    BY <1>1
  <2> DEFINE m == Len(head)
             both == head \o close
  <2>1. both \in Seq(Characters) /\ Behind(both, head, close, m, 2)
    <3>1. head \in Seq(Characters) /\ close \in Seq(Characters)
      BY <1>1, <1>3
    <3> QED BY <2>0, <3>1, PutBehind
  <2>2. line = both
    BY <1>4
  <2> HIDE DEF both
  <2> QED BY <2>1, <2>2 DEF Behind
<1>6. Len(line) = n + 3
  BY <1>3, <1>5
<1>7. line[1] = "<"
  <2>1. 1 \in 1..Len(head) /\ 1 \in 1..1
    BY <1>3
  <2> QED BY <1>1, <1>3, <1>5, <2>1
<1>8. ASSUME NEW t \in Seq(Characters), NEW a \in Nat \ {0}, NEW b \in Nat, b <= n + 3, IsPart(line, t, a, b)
      PROVE  SubSeq(line, a, b) = t
  BY <1>5, <1>6, <1>8, PartIs
<1>9. SubSeq(line, 2, Len(line) - 2) = w
  <2>1. 2 \in Nat \ {0} /\ n + 1 \in Nat /\ n + 1 <= n + 3 /\ n + 1 = 2 + n - 1 /\ Len(line) - 2 = n + 1
    BY <1>3, <1>6
  <2>2. ASSUME NEW k \in 1..n PROVE line[2 + k - 1] = w[k]
    <3>1. 1 + k \in 1..Len(head) /\ 2 + k - 1 = 1 + k
      BY <1>3
    <3> QED BY <1>3, <1>5, <3>1
  <2>3. IsPart(line, w, 2, n + 1)
    BY <2>1, <2>2 DEF IsPart, n
  <2> QED BY <1>8, <2>1, <2>3
<1>10. SubSeq(line, Len(line) - 1, Len(line)) = close
  <2>1. /\ n + 2 \in Nat \ {0} /\ n + 3 \in Nat /\ n + 3 <= n + 3 /\ n + 3 = n + 2 + Len(close) - 1
        /\ Len(line) - 1 = n + 2
    BY <1>1, <1>3, <1>6
  <2>2. ASSUME NEW k \in 1..2 PROVE line[n + 2 + k - 1] = close[k]
    <3>1. n + 2 + k - 1 = Len(head) + k
      BY <1>3
    <3> QED BY <1>5, <3>1
  <2>3. IsPart(line, close, n + 2, n + 3)
    BY <1>1, <2>1, <2>2 DEF IsPart
  <2>4. SubSeq(line, n + 2, n + 3) = close
    BY <1>1, <1>8, <2>1, <2>3
  <2> QED BY <1>6, <2>1, <2>4
<1> QED BY <1>7, <1>9, <1>10 DEF close

(* What is answered to the questions about printf().                       *)
PrintAnswer ==
  question.kind = "print" =>
    /\ question.conversion \in Conversions /\ question.n \in -2 .. 40
    /\ answer # NoAnswer =>
         /\ answer[1] = Vxprintf(<<"<", "%">> \o question.conversion \o <<"%", "s">>,
                                 <<question.n, <<">", "%">>>>)
         /\ answer[4] = Returned(<<"%">> \o question.conversion, <<question.n>>)

(* printf() writes each number as its digits, with the text around it as   *)
(* given and the length returned, where an int holds the numbers asked for *)
(* (printf.c:74 vxprintf).                                                 *)
THEOREM NumberIsPrinted ==
  ASSUME IntVals \div 2 > 40
  PROVE  Spec => []PrintedNumber
<1>1. Init => PrintAnswer
  <2> SUFFICES ASSUME Init, question.kind = "print"
               PROVE  question.conversion \in Conversions /\ question.n \in -2 .. 40 /\ answer = NoAnswer
    BY DEF PrintAnswer
  <2>1. PICK c \in Conversions, n \in {-2} \union 0..40 : question = AskPrint(c, n)
    BY DEF Init, AskElf, AskMemory, AskStrings, AskHash, AskTables, AskStrip
  <2>2. n \in -2 .. 40
    OBVIOUS
  <2> QED BY <2>1, <2>2 DEF Init, AskPrint
<1>2. PrintAnswer /\ [Next]_vars => PrintAnswer'
  <2> SUFFICES ASSUME PrintAnswer, [Next]_vars, question'.kind = "print"
               PROVE  PrintAnswer'
    BY DEF PrintAnswer
  <2>1. CASE PrintLine
    <3> DEFINE a == Vxprintf(<<"<", "%">> \o question.conversion \o <<"%", "s">>,
                             <<question.n, <<">", "%">>>>)
               b == Puts(<<"a">>)
               c == PrintHash(<<question.n % 256>>)
               d == Returned(<<"%">> \o question.conversion, <<question.n>>)
    <3>1. answer' = <<a, b, c, d>> /\ question' = question /\ question.kind = "print"
      BY <2>1 DEF PrintLine, Asked
    <3> HIDE DEF a, b, c, d
    <3>2. answer'[1] = a /\ answer'[4] = d
      BY <3>1
    <3> QED BY <3>1, <3>2 DEF PrintAnswer, a, d
  <2>2. ASSUME NEW kind, kind # "print", Asked(kind)
        PROVE  FALSE
    BY <2>2 DEF Asked
  <2>3. ~ReadElf
    BY <2>2 DEF ReadElf
  <2>4. ~MoveMemory /\ ~CompareStrings
    BY <2>2 DEF MoveMemory, CompareStrings
  <2>5. ~MapKernel /\ ~HashMessage /\ ~StripArchive
    BY <2>2 DEF MapKernel, HashMessage, StripArchive
  <2>6. CASE UNCHANGED vars
    BY <2>6 DEF vars, PrintAnswer
  <2> QED BY <2>1, <2>3, <2>4, <2>5, <2>6 DEF Next
<1>3. PrintAnswer => PrintedNumber
  <2> DEFINE line == answer[1]
             number == SubSeq(line, 2, Len(line) - 2)
             base == BaseOf(question.conversion)
             w == WriteNum(base, question.n)
  <2> SUFFICES ASSUME PrintAnswer, Answered("print"), question.n >= 0
               PROVE  /\ line[1] = "<" /\ SubSeq(line, Len(line) - 1, Len(line)) = <<">", "%">>
                      /\ number # <<>> /\ Value(number, base) = question.n
                      /\ number[1] = "0" => number = <<"0">>
                      /\ answer[4] = Len(number)
    BY DEF PrintedNumber
  <2>1. /\ question.conversion \in Conversions /\ question.n \in -2 .. 40
        /\ line = Vxprintf(<<"<", "%">> \o question.conversion \o <<"%", "s">>,
                           <<question.n, <<">", "%">>>>)
        /\ answer[4] = Len(Vxprintf(<<"%">> \o question.conversion, <<question.n>>))
    BY DEF PrintAnswer, Answered, Returned
  <2>2. question.n \in 0 .. (IntVals \div 2) - 1 /\ question.n \in Nat /\ base \in Bases
    <3>1. IntVals \div 2 > 40 /\ IntVals \div 2 \in Int
      BY PrintfAssumption
    <3>2. base \in Bases
      BY DEF BaseOf, Bases
    <3> DEFINE half == IntVals \div 2
               m == question.n
    <3>3. m \in 0 .. half - 1 /\ m \in Nat
      <4>1. half \in Int /\ half > 40 /\ m \in -2 .. 40 /\ m >= 0
        BY <2>1, <3>1
      <4> HIDE DEF half, m
      <4> QED BY <4>1
    <3> QED BY <3>2, <3>3
  <2>3. line = ((<<>> \o <<"<">>) \o w) \o <<">", "%">>
    BY <2>1, <2>2, LinePrinted
  <2>4. answer[4] = Len(<<>> \o w)
    BY <2>1, <2>2, NumberPrinted
  <2> HIDE DEF line, base
  <2>5. /\ w \in Seq(Digits) /\ w # <<>> /\ Value(w, base) = question.n
        /\ w[1] = "0" => w = <<"0">>
    BY <2>2, DigitsReadBack
  <2> HIDE DEF w
  <2>6. w \in Seq(Characters) /\ <<>> \o w = w
    <3>1. Digits \subseteq Characters
      BY DEF Characters
    <3>2. <<>> \o w = w
      BY <2>5, ConcatEmptySeq
    <3>3. w \in Seq(Characters)
      <4>1. PICK m \in Nat : w \in [1..m -> Digits]
        BY <2>5, SeqDef
      <4>2. w \in [1..m -> Characters]
        BY <3>1, <4>1
      <4> QED BY <4>2, SeqDef
    <3> QED BY <3>2, <3>3
  <2>7. /\ line[1] = "<" /\ SubSeq(line, Len(line) - 1, Len(line)) = <<">", "%">>
        /\ number = w
    BY <2>3, <2>6, LineParts
  <2> HIDE DEF number
  <2> QED BY <2>4, <2>5, <2>6, <2>7
<1> QED BY <1>1, <1>2, <1>3, PTL DEF Spec
=============================================================================
