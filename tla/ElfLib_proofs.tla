---------------------------- MODULE ElfLib_proofs ----------------------------
(***************************************************************************)
(* Proofs about the ELF library: reads of members, the headers, sections   *)
(* and bounds of a file, and elf_loadFile(), for files with any number of  *)
(* segments and sections; and about the files MCLib asks about.            *)
(***************************************************************************)
EXTENDS MCLib_proofs

(* A load's value, unit after unit from the most significant one.          *)
Sums(S, file, a, n, h) ==
  /\ S = [k \in 0..h |-> S[k]] /\ S[0] = 0
  /\ \A k \in 1..h : S[k] = Unit * S[k-1] + file.mem[a + n - 2*k]

(* That is what a load returns.                                            *)
LEMMA LoadIs ==
  ASSUME NEW file, NEW a, NEW n, NEW h \in Nat, n \div 2 = h, a % n = 0, NEW S,
         Sums(S, file, a, n, h)
  PROVE  Load(file, a, n) = S[h]
<1> DEFINE Next1(x, k) == Unit * x + file.mem[a + n - 2*k]
           Is(f) == f = [k \in 0..h |-> IF k = 0 THEN 0 ELSE Next1(f[k-1], k)]
           D == CHOOSE f : Is(f)
<1>1. Load(file, a, n) = D[h]
  BY DEF Load
<1>2. \A k \in 1..h : S[k] = Next1(S[k-1], k)
  BY DEF Sums
<1> HIDE DEF Next1
<1>3. Is(S)
  <2>1. ASSUME NEW k \in 0..h PROVE S[k] = IF k = 0 THEN 0 ELSE Next1(S[k-1], k)
    <3>1. k # 0 => k \in 1..h
      OBVIOUS
    <3> QED BY <1>2, <3>1 DEF Sums
  <2>2. S = [k \in 0..h |-> S[k]]
    BY DEF Sums
  <2> QED BY <2>1, <2>2
<1>4. Is(D)
  BY <1>3
<1> HIDE DEF D
<1>5. \A k \in 0..h : D[k] = IF k = 0 THEN 0 ELSE Next1(D[k-1], k)
  BY <1>4
<1> DEFINE Bad == {k \in 0..h : D[k] # S[k]}
<1>6. Bad = {}
  <2>1. SUFFICES ASSUME Bad # {} PROVE FALSE
    OBVIOUS
  <2>2. PICK k \in Bad : \A j \in Bad : k <= j
    <3>1. Bad \subseteq Nat
      OBVIOUS
    <3> HIDE DEF Bad
    <3> QED BY <2>1, <3>1, Least
  <2>3. k # 0
    <3>1. D[0] = 0 /\ S[0] = 0
      BY <1>5 DEF Sums
    <3> QED BY <2>2, <3>1
  <2>4. k \in 1..h /\ k \in 0..h /\ k - 1 \in 0..h /\ ~(k <= k - 1)
    BY <2>2, <2>3
  <2>5. D[k-1] = S[k-1]
    BY <2>2, <2>4
  <2>6. D[k] = Next1(D[k-1], k)
    BY <1>5, <2>3, <2>4
  <2>7. S[k] = Next1(S[k-1], k)
    BY <1>2, <2>4
  <2>8. D[k] = S[k]
    BY <2>5, <2>6, <2>7, Zenon
  <2> QED BY <2>2, <2>8
<1>7. h \in 0..h
  OBVIOUS
<1> QED BY <1>1, <1>6, <1>7

(* The value of n units in memory, little-endian.                          *)
Pair(file, a) == Unit * file.mem[a + 2] + file.mem[a]
Quad(file, a) == Unit * (Unit * Pair(file, a + 4) + file.mem[a + 2]) + file.mem[a]
UnitsAt(file, a) == \A k \in 0..3 : file.mem[a + 2*k] \in 0 .. Unit - 1

(* An aligned load of four bytes is two units.                             *)
LEMMA PairLoaded ==
  ASSUME NEW file, NEW a \in Int, a % 4 = 0, file.mem[a] \in Nat, file.mem[a + 2] \in Nat
  PROVE  Load(file, a, 4) = Pair(file, a) /\ Pair(file, a) \in Nat
<1> DEFINE lo == file.mem[a]
           hi == file.mem[a + 2]
           S == [k \in 0..2 |-> CASE k = 0 -> 0 [] k = 1 -> hi [] k = 2 -> Unit * hi + lo]
<1>1. S[0] = 0 /\ S[1] = hi /\ S[2] = Unit * hi + lo
  OBVIOUS
<1>2. Unit \in Nat /\ Unit * 0 = 0
  BY UnitAssumption
<1>3. \A k \in 1..2 : S[k] = Unit * S[k-1] + file.mem[a + 4 - 2*k]
  <2>1. S[1] = Unit * S[0] + file.mem[a + 4 - 2*1]
    <3>1. a + 4 - 2*1 = a + 2
      OBVIOUS
    <3> HIDE DEF S
    <3> QED BY <1>1, <1>2, <3>1
  <2>2. S[2] = Unit * S[1] + file.mem[a + 4 - 2*2]
    <3>1. a + 4 - 2*2 = a
      OBVIOUS
    <3> HIDE DEF S
    <3> QED BY <1>1, <3>1
  <2>3. \A k \in 1..2 : k = 1 \/ k = 2
    OBVIOUS
  <2> HIDE DEF S
  <2>4. ASSUME NEW k \in 1..2 PROVE S[k] = Unit * S[k-1] + file.mem[a + 4 - 2*k]
    <3>1. CASE k = 1
      <4>1. k - 1 = 0
        BY <3>1
      <4> QED BY <2>1, <3>1, <4>1
    <3>2. CASE k = 2
      <4>1. k - 1 = 1
        BY <3>2
      <4> QED BY <2>2, <3>2, <4>1
    <3> QED BY <2>3, <3>1, <3>2
  <2> QED BY <2>4
<1>4. S = [k \in 0..2 |-> S[k]]
  OBVIOUS
<1>5. 4 \div 2 = 2
  OBVIOUS
<1> HIDE DEF S
<1>6. Load(file, a, 4) = S[2]
  <2>1. Sums(S, file, a, 4, 2)
    BY <1>1, <1>3, <1>4 DEF Sums
  <2> QED BY <1>5, <2>1, LoadIs
<1>7. Unit * hi \in Nat
  BY <1>2, Times, UnitAssumption
<1> QED BY <1>1, <1>6, <1>7 DEF Pair

(* An aligned load of eight bytes is four.                                 *)
LEMMA QuadLoaded ==
  ASSUME NEW file, NEW a \in Int, a % 8 = 0, file.mem[a] \in Nat, file.mem[a + 2] \in Nat,
         file.mem[a + 4] \in Nat, file.mem[a + 6] \in Nat
  PROVE  Load(file, a, 8) = Quad(file, a)
<1> DEFINE u0 == file.mem[a]
           u1 == file.mem[a + 2]
           u2 == file.mem[a + 4]
           u3 == file.mem[a + 6]
           p == Unit * u3 + u2
           S == [k \in 0..4 |-> CASE k = 0 -> 0 [] k = 1 -> u3 [] k = 2 -> p
                                  [] k = 3 -> Unit * p + u1 [] k = 4 -> Unit * (Unit * p + u1) + u0]
<1>1. S[0] = 0 /\ S[1] = u3 /\ S[2] = p /\ S[3] = Unit * p + u1 /\ S[4] = Unit * (Unit * p + u1) + u0
  OBVIOUS
<1>2. Unit \in Nat /\ Unit * 0 = 0
  BY UnitAssumption
<1>3. S = [k \in 0..4 |-> S[k]]
  OBVIOUS
<1> HIDE DEF S
<1>4. ASSUME NEW k \in 1..4 PROVE S[k] = Unit * S[k-1] + file.mem[a + 8 - 2*k]
  <2>1. CASE k = 1
    <3>1. k - 1 = 0 /\ a + 8 - 2*k = a + 6
      BY <2>1
    <3> QED BY <1>1, <1>2, <2>1, <3>1
  <2>2. CASE k = 2
    <3>1. k - 1 = 1 /\ a + 8 - 2*k = a + 4
      BY <2>2
    <3> QED BY <1>1, <2>2, <3>1
  <2>3. CASE k = 3
    <3>1. k - 1 = 2 /\ a + 8 - 2*k = a + 2
      BY <2>3
    <3> HIDE DEF p
    <3> QED BY <1>1, <2>3, <3>1
  <2>4. CASE k = 4
    <3>1. k - 1 = 3 /\ a + 8 - 2*k = a
      BY <2>4
    <3> HIDE DEF p
    <3> QED BY <1>1, <2>4, <3>1
  <2>5. k = 1 \/ k = 2 \/ k = 3 \/ k = 4
    OBVIOUS
  <2> QED BY <2>1, <2>2, <2>3, <2>4, <2>5
<1>5. 8 \div 2 = 4
  OBVIOUS
<1>6. Load(file, a, 8) = S[4]
  <2>1. Sums(S, file, a, 8, 4)
    BY <1>1, <1>3, <1>4 DEF Sums
  <2> QED BY <1>5, <2>1, LoadIs
<1>7. a + 4 + 2 = a + 6
  OBVIOUS
<1> QED BY <1>1, <1>6, <1>7 DEF Quad, Pair

(* elf64_read64() of a member of a file on a 4-byte boundary is its value, *)
(* with loads that are aligned to their size only; the load of eight bytes *)
(* it takes the place of faults where the member is not on an 8-byte       *)
(* boundary (elf64.h:167 elf64_read64).                                    *)
THEOREM MemberRead ==
  ASSUME NEW file, NEW a \in Int, a % 4 = 0, UnitsAt(file, a)
  PROVE  Read64(file, a) = Quad(file, a) /\ (a % 8 # 0 => Load(file, a, 8) = Fault)
<1>1. /\ file.mem[a] \in Nat /\ file.mem[a + 2] \in Nat
      /\ file.mem[a + 4] \in Nat /\ file.mem[a + 6] \in Nat
  <2>1. Unit \in Nat
    BY UnitAssumption
  <2>2. \A k \in 0..3 : file.mem[a + 2*k] \in Nat
    BY <2>1 DEF UnitsAt
  <2>3. a + 2*0 = a /\ a + 2*1 = a + 2 /\ a + 2*2 = a + 4 /\ a + 2*3 = a + 6
    OBVIOUS
  <2>4. 0 \in 0..3 /\ 1 \in 0..3 /\ 2 \in 0..3 /\ 3 \in 0..3
    OBVIOUS
  <2>5. file.mem[a + 2*0] \in Nat /\ file.mem[a + 2*1] \in Nat /\ file.mem[a + 2*2] \in Nat
        /\ file.mem[a + 2*3] \in Nat
    BY <2>2, <2>4
  <2> QED BY <2>3, <2>5
<1>2. a % 8 # 0 => Load(file, a, 8) = Fault
  BY DEF Load
<1>3. CASE a % 8 = 0
  BY <1>1, <1>3, QuadLoaded DEF Read64
<1>4. CASE a % 8 # 0
  <2> DEFINE lo == Load(file, a, 4)
             hi == Load(file, a + 4, 4)
  <2>1. lo = Pair(file, a)
    BY <1>1, PairLoaded
  <2>2. hi = Pair(file, a + 4) /\ Pair(file, a + 4) \in Nat
    <3>1. (a + 4) % 4 = 0 /\ a + 4 + 2 = a + 6 /\ a + 4 \in Int
      OBVIOUS
    <3> QED BY <1>1, <3>1, PairLoaded
  <2> DEFINE p == Pair(file, a + 4)
  <2>3. Read64(file, a) = p * (Unit * Unit) + (Unit * file.mem[a + 2] + file.mem[a])
    BY <1>4, <2>1, <2>2 DEF Read64, Pair
  <2>4. Quad(file, a) = Unit * (Unit * p + file.mem[a + 2]) + file.mem[a]
    BY DEF Quad
  <2>5. Unit \in Nat /\ p \in Nat
    BY <2>2, UnitAssumption
  <2> HIDE DEF p
  <2> DEFINE x == file.mem[a + 2]
  <2>6. Unit * p \in Nat /\ Unit * Unit \in Nat /\ Unit * x \in Nat
    BY <1>1, <2>5, UnitAssumption, Times
  <2>7. Unit * (Unit * p + x) = Unit * (Unit * p) + Unit * x
    BY <1>1, <2>6, UnitAssumption, Times
  <2>8. p * (Unit * Unit) = Unit * (Unit * p)
    <3>1. (Unit * Unit) * p = Unit * (Unit * p)
      BY <2>5, UnitAssumption, Times
    <3>2. \A v, w \in Nat : v * w = w * v
      OBVIOUS
    <3> QED BY <2>5, <2>6, <3>1, <3>2
  <2>9. Unit * (Unit * p) \in Nat
    BY <2>5, <2>6, UnitAssumption, Times
  <2>10. \A A, B, C \in Nat : A + (B + C) = (A + B) + C
    OBVIOUS
  <2> DEFINE A == Unit * (Unit * p)
             B == Unit * x
             C == file.mem[a]
  <2>11. Read64(file, a) = A + (B + C)
    BY <2>3, <2>8
  <2>12. Quad(file, a) = (A + B) + C
    BY <2>4, <2>7
  <2>13. A \in Nat /\ B \in Nat /\ C \in Nat
    BY <1>1, <2>6, <2>9
  <2> HIDE DEF A, B, C
  <2> QED BY <1>2, <2>10, <2>11, <2>12, <2>13
<1> QED BY <1>2, <1>3, <1>4

(* A segment, by its program header: where it goes, and what is at each    *)
(* address of it, bytes of the file and zeros behind them.                 *)
Dest(file, ph, phys) == AddressOf(file, ph, phys)
FileBytes(file, ph) == ProgramHeader(file, ph, "p_filesz")
MemBytes(file, ph) == ProgramHeader(file, ph, "p_memsz")
FileOffset(file, ph) == ProgramHeader(file, ph, "p_offset")
Covered(file, ph, phys) == Dest(file, ph, phys) .. Dest(file, ph, phys) + MemBytes(file, ph) - 1
ByteAt(file, ph, phys, a) ==
  IF a < Dest(file, ph, phys) + FileBytes(file, ph)
    THEN FileOffset(file, ph) + (a - Dest(file, ph, phys)) ELSE ZeroByte

(* No segment is longer in the file than in memory, or wraps.              *)
SegmentFits(file, ph, phys) ==
  /\ Dest(file, ph, phys) \in Nat /\ FileBytes(file, ph) \in Nat /\ MemBytes(file, ph) \in Nat
  /\ FileBytes(file, ph) <= MemBytes(file, ph)
  /\ MemBytes(file, ph) < Word64 /\ Dest(file, ph, phys) + MemBytes(file, ph) <= Word64

(* What the first n headers leave in memory: each address they cover, with *)
(* what the last one that covers it puts there.                            *)
LoadedTo(mem, file, phys, n) ==
  /\ \A a : a \in DOMAIN mem <=> \E ph \in 0 .. n - 1 : a \in Covered(file, ph, phys)
  /\ \A ph \in 0 .. n - 1 : \A a \in Covered(file, ph, phys) :
       (\A q \in ph + 1 .. n - 1 : a \notin Covered(file, q, phys)) =>
         mem[a] = ByteAt(file, ph, phys, a)

(* An address space has at least one address.                              *)
LEMMA WordPositive == Word64 \in Nat \ {0}
<1>1. \A u \in Nat \ {0} : u * u \in Nat \ {0}
  <2> SUFFICES ASSUME NEW u \in Nat \ {0} PROVE u * u \in Nat \ {0}
    OBVIOUS
  <2>1. u * u \in Nat /\ u * 1 <= u * u
    BY Times
  <2> QED BY <2>1
<1>2. Unit \in Nat \ {0}
  BY UnitAssumption
<1> QED BY <1>1, <1>2 DEF Word64

(* The zeros behind a segment's bytes are as many as are missing.          *)
LEMMA ZerosBehind ==
  ASSUME NEW x \in Nat, x < Word64
  PROVE  x % Word64 = x
<1>1. 0 * Word64 = 0
  BY WordPositive
<1>2. Word64 * 0 = 0
  BY WordPositive
<1>3. x \in 0 .. Word64 - 1 /\ Word64 * 0 + x = x
  BY <1>2, WordPositive
<1> QED BY <1>3, WordPositive, Unsplit

(* elf_loadFile()'s round for a header adds its segment.                   *)
LEMMA SegmentLoaded ==
  ASSUME NEW file, NEW phys, NEW n \in Nat, NEW mem, SegmentFits(file, n, phys),
         LoadedTo(mem, file, phys, n)
  PROVE  LoadedTo(LoadSegment(file, n, phys, mem), file, phys, n + 1)
<1> DEFINE d == Dest(file, n, phys)
           f == FileBytes(file, n)
           m == MemBytes(file, n)
           o == FileOffset(file, n)
           C(ph) == Covered(file, ph, phys)
           B(ph, a) == ByteAt(file, ph, phys, a)
           new == LoadSegment(file, n, phys, mem)
<1>1. /\ d \in Nat /\ f \in Nat /\ m \in Nat /\ f <= m /\ m < Word64
  BY DEF SegmentFits
<1>2. (m - f) % Word64 = m - f
  <2>1. m - f \in Nat /\ m - f < Word64
    BY <1>1, WordPositive
  <2> QED BY <2>1, ZerosBehind
<1>3. d .. d + f + (m - f) - 1 = C(n)
  <2>1. d + f + (m - f) - 1 = d + m - 1
    BY <1>1
  <2> QED BY <2>1 DEF Covered
<1>4. new = [a \in DOMAIN mem \union C(n) |-> IF a \notin C(n) THEN mem[a] ELSE B(n, a)]
  <2>1. new = [a \in DOMAIN mem \union (d .. d + f + ((m - f) % Word64) - 1) |->
                 IF a \notin d .. d + f + ((m - f) % Word64) - 1 THEN mem[a]
                 ELSE IF a < d + f THEN o + (a - d) ELSE ZeroByte]
    BY DEF LoadSegment, Dest, FileBytes, MemBytes, FileOffset
  <2>2. \A a : B(n, a) = IF a < d + f THEN o + (a - d) ELSE ZeroByte
    BY DEF ByteAt
  <2> HIDE DEF d, f, m, o, C, B, new
  <2>3. new = [a \in DOMAIN mem \union C(n) |->
                 IF a \notin C(n) THEN mem[a] ELSE IF a < d + f THEN o + (a - d) ELSE ZeroByte]
    BY <1>2, <1>3, <2>1
  <2> QED BY <2>2, <2>3
<1>5. /\ \A a : a \in DOMAIN mem <=> \E ph \in 0 .. n - 1 : a \in C(ph)
      /\ \A ph \in 0 .. n - 1 : \A a \in C(ph) :
           (\A q \in ph + 1 .. n - 1 : a \notin C(q)) => mem[a] = B(ph, a)
  BY DEF LoadedTo
<1> HIDE DEF d, f, m, o, C, B, new
<1>6. \A ph \in 0..n : ph \in 0 .. n - 1 \/ ph = n
  OBVIOUS
<1>7. \A ph \in 0 .. n - 1 : ph \in 0..n /\ n \in ph + 1 .. n /\ n \in 0..n
  OBVIOUS
<1>8. ASSUME NEW a PROVE a \in DOMAIN new <=> \E ph \in 0..n : a \in C(ph)
  <2>1. a \in DOMAIN new <=> a \in DOMAIN mem \/ a \in C(n)
    BY <1>4
  <2>2. n \in 0..n
    OBVIOUS
  <2> QED BY <1>5, <1>6, <1>7, <2>1, <2>2
<1>9. ASSUME NEW ph \in 0..n, NEW a \in C(ph), \A q \in ph + 1 .. n : a \notin C(q)
      PROVE  new[a] = B(ph, a)
  <2>1. CASE ph = n
    BY <1>4, <1>9, <2>1
  <2>2. CASE ph \in 0 .. n - 1
    <3>1. a \notin C(n)
      BY <1>7, <1>9, <2>2
    <3>2. a \in DOMAIN mem
      BY <1>5, <2>2
    <3>3. new[a] = mem[a]
      BY <1>4, <3>1, <3>2
    <3>4. \A q \in ph + 1 .. n - 1 : q \in ph + 1 .. n
      BY <2>2
    <3>5. mem[a] = B(ph, a)
      BY <1>5, <1>9, <2>2, <3>4
    <3> QED BY <3>3, <3>5
  <2> QED BY <1>6, <2>1, <2>2
<1>10. n + 1 - 1 = n
  OBVIOUS
<1>11. /\ \A a : a \in DOMAIN new <=> \E ph \in 0..n : a \in C(ph)
       /\ \A ph \in 0..n : \A a \in C(ph) : (\A q \in ph + 1 .. n : a \notin C(q)) => new[a] = B(ph, a)
  BY <1>8, <1>9
<1> QED BY <1>10, <1>11 DEF LoadedTo, C, B, new

(* The rounds of elf_loadFile().                                           *)
Rounds(f, file, phys, n) ==
  f = [k \in 0..n |-> IF k = 0 THEN <<>> ELSE LoadSegment(file, k - 1, phys, f[k-1])]

(* There is such a row of rounds.                                          *)
LEMMA RoundsExist ==
  ASSUME NEW file, NEW phys, NEW N \in Nat
  PROVE  \E f : Rounds(f, file, phys, N)
<1> DEFINE More(k, x) == LoadSegment(file, k - 1, phys, x)
           Bad == {n \in 0..N : ~ \E f : Rounds(f, file, phys, n)}
<1>1. SUFFICES ASSUME Bad # {} PROVE FALSE
  <2>1. N \in 0..N
    OBVIOUS
  <2> QED BY <2>1
<1>2. PICK n \in Bad : \A k \in Bad : n <= k
  <2>1. Bad \subseteq Nat
    OBVIOUS
  <2> HIDE DEF Bad
  <2> QED BY <1>1, <2>1, Least
<1>3. n # 0
  <2>1. Rounds([k \in 0..0 |-> <<>>], file, phys, 0)
    BY DEF Rounds
  <2> QED BY <2>1
<1>4. PICK f : Rounds(f, file, phys, n - 1)
  <2>1. n - 1 \in 0..N /\ n - 1 \notin Bad
    BY <1>2, <1>3
  <2> QED BY <2>1
<1>5. n \in Nat /\ n > 0 /\ n - 1 \in 0 .. n - 1
  BY <1>2, <1>3
<1> DEFINE g == [k \in 0..n |-> IF k = n THEN More(n, f[n-1]) ELSE f[k]]
<1>6. f = [j \in 0 .. n - 1 |-> IF j = 0 THEN <<>> ELSE More(j, f[j-1])]
  BY <1>4 DEF Rounds
<1> HIDE DEF More
<1>7. \A j \in 0 .. n - 1 : f[j] = IF j = 0 THEN <<>> ELSE More(j, f[j-1])
  BY <1>6
<1>8. g[n] = More(n, f[n-1]) /\ \A j \in 0 .. n - 1 : g[j] = f[j]
  BY <1>5
<1>9. g = [k \in 0..n |-> g[k]]
  OBVIOUS
<1> HIDE DEF g
<1>10. ASSUME NEW k \in 0..n PROVE g[k] = IF k = 0 THEN <<>> ELSE More(k, g[k-1])
  <2>1. CASE k = n
    BY <1>3, <1>5, <1>8, <2>1
  <2>2. CASE k < n
    <3>1. k \in 0 .. n - 1 /\ (k # 0 => k - 1 \in 0 .. n - 1)
      BY <1>5, <2>2
    <3> QED BY <1>7, <1>8, <3>1
  <2> QED BY <1>5, <2>1, <2>2
<1>11. Rounds(g, file, phys, n)
  BY <1>9, <1>10 DEF Rounds, More
<1> QED BY <1>2, <1>11

Headers(file) == 0 .. NumProgramHeaders(file) - 1

(* elf_loadFile() of a file with any number of segments writes just what   *)
(* the program headers cover, and each address as the last header that     *)
(* covers it says: the file's bytes, then zeros up to memsz (elf.c:327     *)
(* elf_loadFile).                                                          *)
THEOREM FileIsLoaded ==
  ASSUME NEW file, NEW phys, CheckFile(file) = 0, NumProgramHeaders(file) \in Nat,
         \A ph \in Headers(file) : SegmentFits(file, ph, phys)
  PROVE  LET mem == LoadFile(file, phys)
         IN /\ \A a : a \in DOMAIN mem <=> \E ph \in Headers(file) : a \in Covered(file, ph, phys)
            /\ \A ph \in Headers(file) : \A a \in Covered(file, ph, phys) :
                 (\A q \in ph + 1 .. NumProgramHeaders(file) - 1 : a \notin Covered(file, q, phys)) =>
                   mem[a] = ByteAt(file, ph, phys, a)
<1> DEFINE n == NumProgramHeaders(file)
           D == CHOOSE f : Rounds(f, file, phys, n)
<1>1. LoadFile(file, phys) = D[n]
  BY DEF LoadFile, Rounds
<1>2. Rounds(D, file, phys, n)
  BY RoundsExist
<1> DEFINE Good(k) == LoadedTo(D[k], file, phys, k)
           Bad == {k \in 0..n : ~Good(k)}
<1> HIDE DEF D
<1>3. n \in Nat /\ \A ph \in 0 .. n - 1 : SegmentFits(file, ph, phys)
  BY DEF Headers
<1> HIDE DEF n
<1>4. \A k \in 0..n : D[k] = IF k = 0 THEN <<>> ELSE LoadSegment(file, k - 1, phys, D[k-1])
  <2> DEFINE More(k, x) == LoadSegment(file, k - 1, phys, x)
  <2>1. D = [k \in 0..n |-> IF k = 0 THEN <<>> ELSE More(k, D[k-1])]
    BY <1>2 DEF Rounds
  <2> HIDE DEF More
  <2>2. \A k \in 0..n : D[k] = IF k = 0 THEN <<>> ELSE More(k, D[k-1])
    BY <2>1
  <2> QED BY <2>2 DEF More
<1>5. Good(0)
  <2>1. 0 \in 0..n
    BY <1>3
  <2>2. D[0] = <<>>
    BY <1>4, <2>1
  <2>3. LoadedTo(<<>>, file, phys, 0)
    BY DEF LoadedTo
  <2> QED BY <2>2, <2>3
<1>6. ASSUME NEW k \in 0 .. n - 1, Good(k) PROVE Good(k + 1)
  <2>1. k \in Nat /\ k + 1 \in 0..n /\ k + 1 # 0 /\ k + 1 - 1 = k
    BY <1>3
  <2>2. D[k+1] = LoadSegment(file, k, phys, D[k])
    BY <1>4, <2>1
  <2>3. SegmentFits(file, k, phys)
    BY <1>3
  <2>4. LoadedTo(LoadSegment(file, k, phys, D[k]), file, phys, k + 1)
    BY <1>6, <2>1, <2>3, SegmentLoaded
  <2> QED BY <2>2, <2>4
<1> HIDE DEF Good
<1>7. Bad = {}
  <2>1. SUFFICES ASSUME Bad # {} PROVE FALSE
    OBVIOUS
  <2>2. PICK k \in Bad : \A j \in Bad : k <= j
    <3>1. Bad \subseteq Nat
      OBVIOUS
    <3> HIDE DEF Bad
    <3> QED BY <2>1, <3>1, Least
  <2>3. k # 0 /\ k \in 0..n
    BY <1>5, <2>2
  <2>4. k - 1 \in 0 .. n - 1 /\ k - 1 \in 0..n /\ ~(k <= k - 1) /\ k - 1 + 1 = k
    BY <1>3, <2>3
  <2>5. Good(k - 1)
    BY <2>2, <2>4
  <2>6. Good(k)
    BY <1>6, <2>4, <2>5
  <2> QED BY <2>2, <2>6
<1>8. Good(n)
  <2>1. n \in 0..n
    BY <1>3
  <2> QED BY <1>7, <2>1
<1> QED BY <1>1, <1>8 DEF Good, LoadedTo, Headers, n

(* No two segments of a file share an address.                             *)
SegmentsApart(file, phys) ==
  \A p, q \in Headers(file) : \A a \in Covered(file, p, phys) :
    a \in Covered(file, q, phys) => p = q

(* A segment apart from the others is in memory as a whole.                *)
LEMMA SegmentIsLoaded ==
  ASSUME NEW file, NEW phys, CheckFile(file) = 0, NumProgramHeaders(file) \in Nat,
         \A ph \in Headers(file) : SegmentFits(file, ph, phys), SegmentsApart(file, phys),
         NEW ph \in Headers(file), NEW a \in Covered(file, ph, phys)
  PROVE  LoadFile(file, phys)[a] = ByteAt(file, ph, phys, a)
<1> DEFINE n == NumProgramHeaders(file)
           C(q) == Covered(file, q, phys)
           mem == LoadFile(file, phys)
           B == ByteAt(file, ph, phys, a)
<1>1. (\A q \in ph + 1 .. n - 1 : a \notin C(q)) => mem[a] = B
  BY FileIsLoaded
<1>2. \A q \in ph + 1 .. n - 1 : q \in Headers(file) /\ q # ph
  BY DEF Headers
<1>3. \A q \in Headers(file) : a \in C(q) => ph = q
  BY DEF SegmentsApart
<1> HIDE DEF C, mem, B, n
<1>4. mem[a] = B
  BY <1>1, <1>2, <1>3
<1> QED BY <1>4 DEF mem, B

(* A virtual address of a segment that elf_vtopProgramHeader() translates  *)
(* is found in the file loaded by physical address just as in the one      *)
(* loaded by virtual address, whatever the segments (elf.c:315             *)
(* elf_vtopProgramHeader).                                                 *)
THEOREM LoadedAlike ==
  ASSUME NEW file, CheckFile(file) = 0, NumProgramHeaders(file) \in Nat,
         \A phys \in BOOLEAN : /\ \A ph \in Headers(file) : SegmentFits(file, ph, phys)
                               /\ SegmentsApart(file, phys),
         NEW ph \in Headers(file), NEW a \in Covered(file, ph, FALSE)
  PROVE  LET p == VtopProgramHeader(file, ph, a)
         IN p \in Covered(file, ph, TRUE) /\ LoadFile(file, TRUE)[p] = LoadFile(file, FALSE)[a]
<1> DEFINE v0 == ProgramHeader(file, ph, "p_vaddr")
           p0 == ProgramHeader(file, ph, "p_paddr")
           f == FileBytes(file, ph)
           m == MemBytes(file, ph)
           p == VtopProgramHeader(file, ph, a)
<1>1. Dest(file, ph, FALSE) = v0 /\ Dest(file, ph, TRUE) = p0
  BY DEF Dest, AddressOf
<1>2. v0 \in Nat /\ p0 \in Nat /\ f \in Nat /\ m \in Nat /\ f <= m /\ p0 + m <= Word64
  <2>1. SegmentFits(file, ph, FALSE) /\ SegmentFits(file, ph, TRUE)
    OBVIOUS
  <2> QED BY <1>1, <2>1 DEF SegmentFits
<1>3. a \in v0 .. v0 + m - 1
  BY <1>1 DEF Covered
<1>4. p = a - v0 + p0
  <2>1. p = (a - v0 + p0) % Word64
    BY DEF VtopProgramHeader
  <2>2. a - v0 + p0 \in Nat /\ a - v0 + p0 < Word64
    BY <1>2, <1>3, WordPositive
  <2> HIDE DEF p, v0, p0
  <2> QED BY <2>1, <2>2, ZerosBehind
<1>5. p \in Covered(file, ph, TRUE)
  <2>1. Covered(file, ph, TRUE) = p0 .. p0 + m - 1
    BY <1>1 DEF Covered
  <2> HIDE DEF p, v0, p0, f, m
  <2>2. \A x, y, l \in Int : \A z \in x .. x + l - 1 : z - x + y \in y .. y + l - 1
    OBVIOUS
  <2>3. a - v0 + p0 \in p0 .. p0 + m - 1
    BY <1>2, <1>3, <2>2
  <2> QED BY <1>4, <2>1, <2>3
<1>6. /\ LoadFile(file, TRUE)[p] = ByteAt(file, ph, TRUE, p)
      /\ LoadFile(file, FALSE)[a] = ByteAt(file, ph, FALSE, a)
  <2> HIDE DEF p
  <2> QED BY <1>5, SegmentIsLoaded
<1>7. ByteAt(file, ph, TRUE, p) = ByteAt(file, ph, FALSE, a)
  <2> DEFINE o == FileOffset(file, ph)
  <2>1. ByteAt(file, ph, FALSE, a) = IF a < v0 + f THEN o + (a - v0) ELSE ZeroByte
    BY <1>1 DEF ByteAt
  <2>2. ByteAt(file, ph, TRUE, p) = IF p < p0 + f THEN o + (p - p0) ELSE ZeroByte
    BY <1>1 DEF ByteAt
  <2> HIDE DEF p, v0, p0, f, m, o
  <2>3. p - p0 = a - v0 /\ (p < p0 + f <=> a < v0 + f)
    <3>1. \A x, y, l, z \in Int : z - x + y - y = z - x /\ (z - x + y < y + l <=> z < x + l)
      OBVIOUS
    <3>2. a \in Int /\ v0 \in Int /\ p0 \in Int /\ f \in Int
      BY <1>2, <1>3
    <3> QED BY <1>4, <3>1, <3>2
  <2>4. CASE a < v0 + f
    <3>1. ByteAt(file, ph, FALSE, a) = o + (a - v0)
      BY <2>1, <2>4
    <3>2. ByteAt(file, ph, TRUE, p) = o + (p - p0)
      BY <2>2, <2>3, <2>4
    <3> QED BY <2>3, <3>1, <3>2
  <2>5. CASE ~(a < v0 + f)
    BY <2>1, <2>2, <2>3, <2>5
  <2> QED BY <2>4, <2>5
<1> QED BY <1>5, <1>6, <1>7

(***************************************************************************)
(* The ELF library reads what the linker wrote                             *)
(***************************************************************************)
Classes == {1, 2, 3}
Structs == {"ehdr", "phdr", "shdr"}

(* The members of a struct lie in it, each on its own.                     *)
LaidOut(members, size) ==
  /\ \A l \in members :
       /\ l[2] \in Nat /\ l[2] % 2 = 0 /\ l[3] \in {2, 4, 8} /\ l[2] + l[3] <= size
       /\ (l[3] # 2 => l[2] % 4 = 0) /\ (l[3] = 8 => l[2] % 8 = 0)
  /\ \A k, l \in members : k = l \/ l[2] + l[3] <= k[2] \/ k[2] + k[3] <= l[2]

(* The ELF standard's layouts are such structs.                            *)
LEMMA LayoutsApart ==
  ASSUME NEW class \in Classes, NEW struct \in Structs
  PROVE  LaidOut(Layout(class, struct), SizeOf(class, struct))
<1> DEFINE L == Layout(class, struct)
<1>1. CASE class = 1 /\ struct = "ehdr"
  <2>1. L = {<<"e_entry", 24, 4>>, <<"e_phoff", 28, 4>>, <<"e_shoff", 32, 4>>, <<"e_ehsize", 40, 2>>,
        <<"e_phentsize", 42, 2>>, <<"e_phnum", 44, 2>>, <<"e_shnum", 48, 2>>, <<"e_shstrndx", 50, 2>>}
    BY <1>1 DEF Layout
  <2>2. SizeOf(class, struct) = 52
    BY <1>1 DEF SizeOf
  <2> HIDE DEF L
  <2>3. LaidOut(L, 52)
    <3>1. \A l \in L :
            /\ l[2] \in Nat /\ l[2] % 2 = 0 /\ l[3] \in {2, 4, 8} /\ l[2] + l[3] <= 52
            /\ (l[3] # 2 => l[2] % 4 = 0) /\ (l[3] = 8 => l[2] % 8 = 0)
      BY <2>1
    <3>2. \A k, l \in L : k = l \/ l[2] + l[3] <= k[2] \/ k[2] + k[3] <= l[2]
      BY <2>1
    <3> QED BY <3>1, <3>2 DEF LaidOut
  <2> QED BY <2>2, <2>3 DEF L
<1>2. CASE class # 1 /\ struct = "ehdr"
  <2>1. L = {<<"e_entry", 24, 8>>, <<"e_phoff", 32, 8>>, <<"e_shoff", 40, 8>>, <<"e_ehsize", 52, 2>>,
        <<"e_phentsize", 54, 2>>, <<"e_phnum", 56, 2>>, <<"e_shnum", 60, 2>>, <<"e_shstrndx", 62, 2>>}
    BY <1>2 DEF Layout
  <2>2. SizeOf(class, struct) = 64
    BY <1>2 DEF SizeOf
  <2> HIDE DEF L
  <2>3. LaidOut(L, 64)
    <3>1. \A l \in L :
            /\ l[2] \in Nat /\ l[2] % 2 = 0 /\ l[3] \in {2, 4, 8} /\ l[2] + l[3] <= 64
            /\ (l[3] # 2 => l[2] % 4 = 0) /\ (l[3] = 8 => l[2] % 8 = 0)
      BY <2>1
    <3>2. \A k, l \in L : k = l \/ l[2] + l[3] <= k[2] \/ k[2] + k[3] <= l[2]
      BY <2>1
    <3> QED BY <3>1, <3>2 DEF LaidOut
  <2> QED BY <2>2, <2>3 DEF L
<1>3. CASE class = 1 /\ struct = "phdr"
  <2>1. L = {<<"p_type", 0, 4>>, <<"p_offset", 4, 4>>, <<"p_vaddr", 8, 4>>, <<"p_paddr", 12, 4>>,
        <<"p_filesz", 16, 4>>, <<"p_memsz", 20, 4>>, <<"p_flags", 24, 4>>}
    BY <1>3 DEF Layout
  <2>2. SizeOf(class, struct) = 32
    BY <1>3 DEF SizeOf
  <2> HIDE DEF L
  <2>3. LaidOut(L, 32)
    <3>1. \A l \in L :
            /\ l[2] \in Nat /\ l[2] % 2 = 0 /\ l[3] \in {2, 4, 8} /\ l[2] + l[3] <= 32
            /\ (l[3] # 2 => l[2] % 4 = 0) /\ (l[3] = 8 => l[2] % 8 = 0)
      BY <2>1
    <3>2. \A k, l \in L : k = l \/ l[2] + l[3] <= k[2] \/ k[2] + k[3] <= l[2]
      BY <2>1
    <3> QED BY <3>1, <3>2 DEF LaidOut
  <2> QED BY <2>2, <2>3 DEF L
<1>4. CASE class # 1 /\ struct = "phdr"
  <2>1. L = {<<"p_type", 0, 4>>, <<"p_offset", 8, 8>>, <<"p_vaddr", 16, 8>>, <<"p_paddr", 24, 8>>,
        <<"p_filesz", 32, 8>>, <<"p_memsz", 40, 8>>, <<"p_flags", 4, 4>>}
    BY <1>4 DEF Layout
  <2>2. SizeOf(class, struct) = 56
    BY <1>4 DEF SizeOf
  <2> HIDE DEF L
  <2>3. LaidOut(L, 56)
    <3>1. \A l \in L :
            /\ l[2] \in Nat /\ l[2] % 2 = 0 /\ l[3] \in {2, 4, 8} /\ l[2] + l[3] <= 56
            /\ (l[3] # 2 => l[2] % 4 = 0) /\ (l[3] = 8 => l[2] % 8 = 0)
      BY <2>1
    <3>2. \A k, l \in L : k = l \/ l[2] + l[3] <= k[2] \/ k[2] + k[3] <= l[2]
      BY <2>1
    <3> QED BY <3>1, <3>2 DEF LaidOut
  <2> QED BY <2>2, <2>3 DEF L
<1>5. CASE class = 1 /\ struct = "shdr"
  <2>1. L = {<<"sh_name", 0, 4>>, <<"sh_type", 4, 4>>, <<"sh_flags", 8, 4>>, <<"sh_addr", 12, 4>>,
        <<"sh_offset", 16, 4>>, <<"sh_size", 20, 4>>}
    BY <1>5 DEF Layout
  <2>2. SizeOf(class, struct) = 40
    BY <1>5 DEF SizeOf
  <2> HIDE DEF L
  <2>3. LaidOut(L, 40)
    <3>1. \A l \in L :
            /\ l[2] \in Nat /\ l[2] % 2 = 0 /\ l[3] \in {2, 4, 8} /\ l[2] + l[3] <= 40
            /\ (l[3] # 2 => l[2] % 4 = 0) /\ (l[3] = 8 => l[2] % 8 = 0)
      BY <2>1
    <3>2. \A k, l \in L : k = l \/ l[2] + l[3] <= k[2] \/ k[2] + k[3] <= l[2]
      BY <2>1
    <3> QED BY <3>1, <3>2 DEF LaidOut
  <2> QED BY <2>2, <2>3 DEF L
<1>6. CASE class # 1 /\ struct = "shdr"
  <2>1. L = {<<"sh_name", 0, 4>>, <<"sh_type", 4, 4>>, <<"sh_flags", 8, 8>>, <<"sh_addr", 16, 8>>,
        <<"sh_offset", 24, 8>>, <<"sh_size", 32, 8>>}
    BY <1>6 DEF Layout
  <2>2. SizeOf(class, struct) = 64
    BY <1>6 DEF SizeOf
  <2> HIDE DEF L
  <2>3. LaidOut(L, 64)
    <3>1. \A l \in L :
            /\ l[2] \in Nat /\ l[2] % 2 = 0 /\ l[3] \in {2, 4, 8} /\ l[2] + l[3] <= 64
            /\ (l[3] # 2 => l[2] % 4 = 0) /\ (l[3] = 8 => l[2] % 8 = 0)
      BY <2>1
    <3>2. \A k, l \in L : k = l \/ l[2] + l[3] <= k[2] \/ k[2] + k[3] <= l[2]
      BY <2>1
    <3> QED BY <3>1, <3>2 DEF LaidOut
  <2> QED BY <2>2, <2>3 DEF L
<1> QED BY <1>1, <1>2, <1>3, <1>4, <1>5, <1>6 DEF Structs

(* The header's members lie behind the magic and the class.                *)
LEMMA BehindIdent ==
  ASSUME NEW class \in Classes, NEW l \in Layout(class, "ehdr")
  PROVE  l[2] >= 6
<1>1. CASE class = 1
  BY <1>1 DEF Layout
<1>2. CASE class # 1
  BY <1>2 DEF Layout
<1> QED BY <1>1, <1>2

(* The structs of a file, the header and those of the two tables: where    *)
(* each starts and what its members hold.                                  *)
StructNumbers(elf, struct) ==
  CASE struct = "ehdr" -> {1} [] struct = "phdr" -> DOMAIN elf.segments
    [] struct = "shdr" -> DOMAIN elf.sections
StartOf(elf, struct, n) ==
  CASE struct = "ehdr" -> 0 [] struct = "phdr" -> PhdrAt(elf, n) [] struct = "shdr" -> ShdrAt(elf, n)
ValuesOf(elf, struct, n) ==
  CASE struct = "ehdr" -> HeaderOf(elf) [] struct = "phdr" -> elf.segments[n]
    [] struct = "shdr" -> elf.sections[n]
LiesIn(elf, m, struct, n, l) ==
  /\ l[1] \in DOMAIN ValuesOf(elf, struct, n)
  /\ m = <<StartOf(elf, struct, n) + l[2], l[3], ValuesOf(elf, struct, n)[l[1]]>>
EndOf(elf) == ShdrAt(elf, Len(elf.sections) + 1)

IsTable(s) == Len(s) \in Nat /\ DOMAIN s = 1..Len(s)
HasTables(elf) == elf.class \in Classes /\ IsTable(elf.segments) /\ IsTable(elf.sections)

(* A file's members are those of its structs, and the magic and the class. *)
LEMMA MembersAre ==
  ASSUME NEW elf, NEW m
  PROVE  m \in Members(elf) <=>
           \/ m \in Ident(elf)
           \/ \E struct \in Structs : \E n \in StructNumbers(elf, struct) :
                \E l \in Layout(elf.class, struct) : LiesIn(elf, m, struct, n, l)
<1> DEFINE In(struct, n) ==
             \E l \in Layout(elf.class, struct) : LiesIn(elf, m, struct, n, l)
<1>1. m \in Written(elf.class, "ehdr", 0, HeaderOf(elf)) <=> In("ehdr", 1)
  BY DEF Written, LiesIn, StartOf, ValuesOf
<1>2. \A n : m \in Written(elf.class, "phdr", PhdrAt(elf, n), elf.segments[n]) <=> In("phdr", n)
  BY DEF Written, LiesIn, StartOf, ValuesOf
<1>3. \A n : m \in Written(elf.class, "shdr", ShdrAt(elf, n), elf.sections[n]) <=> In("shdr", n)
  BY DEF Written, LiesIn, StartOf, ValuesOf
<1> HIDE DEF In
<1>4. /\ StructNumbers(elf, "ehdr") = {1} /\ StructNumbers(elf, "phdr") = DOMAIN elf.segments
      /\ StructNumbers(elf, "shdr") = DOMAIN elf.sections
  BY DEF StructNumbers
<1>5. m \in Members(elf) <=>
        \/ m \in Ident(elf) \/ In("ehdr", 1)
        \/ \E n \in DOMAIN elf.segments : In("phdr", n)
        \/ \E n \in DOMAIN elf.sections : In("shdr", n)
  <2> DEFINE P(n) == Written(elf.class, "phdr", PhdrAt(elf, n), elf.segments[n])
             S(n) == Written(elf.class, "shdr", ShdrAt(elf, n), elf.sections[n])
             E == Written(elf.class, "ehdr", 0, HeaderOf(elf))
  <2>1. Members(elf) = Ident(elf) \union E \union (UNION {P(n) : n \in DOMAIN elf.segments})
                         \union (UNION {S(n) : n \in DOMAIN elf.sections})
    BY DEF Members
  <2>2. (m \in E <=> In("ehdr", 1)) /\ \A n : (m \in P(n) <=> In("phdr", n)) /\ (m \in S(n) <=> In("shdr", n))
    BY <1>1, <1>2, <1>3
  <2> HIDE DEF P, S, E
  <2>3. /\ m \in UNION {P(n) : n \in DOMAIN elf.segments} <=> \E n \in DOMAIN elf.segments : m \in P(n)
        /\ m \in UNION {S(n) : n \in DOMAIN elf.sections} <=> \E n \in DOMAIN elf.sections : m \in S(n)
    OBVIOUS
  <2>4. m \in Members(elf) <=>
          \/ m \in Ident(elf) \/ m \in E
          \/ \E n \in DOMAIN elf.segments : m \in P(n)
          \/ \E n \in DOMAIN elf.sections : m \in S(n)
    BY <2>1, <2>3
  <2> QED BY <2>2, <2>4
<1>6. m \in Members(elf) <=>
        \/ m \in Ident(elf)
        \/ \E struct \in Structs : \E n \in StructNumbers(elf, struct) : In(struct, n)
  BY <1>4, <1>5 DEF Structs
<1> QED BY <1>6 DEF In

(* The structs of a file lie one behind the other, on even addresses.      *)
StructApart(elf, s, n, t, k) ==
  LET a == StartOf(elf, s, n)
      b == StartOf(elf, t, k)
  IN \/ s = t /\ n = k
     \/ a + SizeOf(elf.class, s) <= b
     \/ b + SizeOf(elf.class, t) <= a

(* The sizes of the structs.                                               *)
LEMMA SizesAre ==
  ASSUME NEW class \in Classes
  PROVE  /\ SizeOf(class, "ehdr") = IF class = 1 THEN 52 ELSE 64
         /\ SizeOf(class, "phdr") = IF class = 1 THEN 32 ELSE 56
         /\ SizeOf(class, "shdr") = IF class = 1 THEN 40 ELSE 64
BY DEF SizeOf

(* Where each starts.                                                      *)
LEMMA StartsAre ==
  ASSUME NEW elf, HasTables(elf), NEW n \in Nat
  PROVE  LET ps == Len(elf.segments)
         IN /\ StartOf(elf, "ehdr", n) = 0
            /\ StartOf(elf, "phdr", n) =
                 IF elf.class = 1 THEN 52 + 32 * (n - 1) ELSE 64 + 56 * (n - 1)
            /\ StartOf(elf, "shdr", n) =
                 IF elf.class = 1 THEN 52 + 32 * ps + 40 * (n - 1) ELSE 64 + 56 * ps + 64 * (n - 1)
<1> DEFINE ps == Len(elf.segments)
<1>1. ps \in Nat /\ ps + 1 - 1 = ps /\ elf.class \in Classes
  BY DEF HasTables, IsTable
<1>2. StartOf(elf, "ehdr", n) = 0
  BY DEF StartOf
<1>3. StartOf(elf, "phdr", n) = PhdrAt(elf, n) /\ StartOf(elf, "shdr", n) = ShdrAt(elf, n)
  BY DEF StartOf
<1>4. \A k \in Nat : PhdrAt(elf, k) = IF elf.class = 1 THEN 52 + 32 * (k - 1) ELSE 64 + 56 * (k - 1)
  BY <1>1, SizesAre DEF PhdrAt
<1>5. ShdrAt(elf, n) = PhdrAt(elf, ps + 1) + SizeOf(elf.class, "shdr") * (n - 1)
  BY DEF ShdrAt
<1> HIDE DEF ps
<1>6. PhdrAt(elf, ps + 1) = IF elf.class = 1 THEN 52 + 32 * ps ELSE 64 + 56 * ps
  <2>1. PICK k \in Nat : k = ps + 1 /\ k - 1 = ps
    BY <1>1
  <2>2. PhdrAt(elf, k) = IF elf.class = 1 THEN 52 + 32 * ps ELSE 64 + 56 * ps
    BY <1>4, <2>1
  <2> QED BY <2>1, <2>2
<1>7. SizeOf(elf.class, "shdr") = IF elf.class = 1 THEN 40 ELSE 64
  BY <1>1, SizesAre
<1>8. StartOf(elf, "phdr", n) =
        IF elf.class = 1 THEN 52 + 32 * (n - 1) ELSE 64 + 56 * (n - 1)
  BY <1>3, <1>4
<1>9. StartOf(elf, "shdr", n) =
        IF elf.class = 1 THEN 52 + 32 * ps + 40 * (n - 1) ELSE 64 + 56 * ps + 64 * (n - 1)
  <2>1. StartOf(elf, "shdr", n) = PhdrAt(elf, ps + 1) + SizeOf(elf.class, "shdr") * (n - 1)
    BY <1>3, <1>5
  <2>2. CASE elf.class = 1
    BY <1>6, <1>7, <2>1, <2>2
  <2>3. CASE elf.class # 1
    BY <1>6, <1>7, <2>1, <2>3
  <2> QED BY <2>2, <2>3
<1> QED BY <1>2, <1>8, <1>9 DEF ps

(* The header and the two tables: where each ends.                         *)
TableEnd(elf, s) ==
  CASE s = "ehdr" -> SizeOf(elf.class, "ehdr") [] s = "phdr" -> ShdrAt(elf, 1) [] s = "shdr" -> EndOf(elf)

(* A struct lies in its table, behind those before it.                     *)
LEMMA InTable ==
  ASSUME NEW elf, HasTables(elf), NEW s \in Structs, NEW n \in StructNumbers(elf, s)
  PROVE  LET size == SizeOf(elf.class, s)
         IN /\ n \in Nat \ {0} /\ size \in Nat \ {0}
            /\ StartOf(elf, s, 1) \in Nat /\ StartOf(elf, s, n) = StartOf(elf, s, 1) + size * (n - 1)
            /\ size * (n - 1) \in Nat /\ StartOf(elf, s, n) + size <= TableEnd(elf, s)
<1> DEFINE E == SizeOf(elf.class, "ehdr")
           P == SizeOf(elf.class, "phdr")
           Z == SizeOf(elf.class, "shdr")
           ps == Len(elf.segments)
           ss == Len(elf.sections)
<1>1. E \in Nat \ {0} /\ P \in Nat \ {0} /\ Z \in Nat \ {0}
  BY SizesAre DEF HasTables
<1>2. ps \in Nat /\ ss \in Nat
  BY DEF HasTables, IsTable
<1>3. /\ StructNumbers(elf, "ehdr") = {1} /\ StructNumbers(elf, "phdr") = 1..ps
      /\ StructNumbers(elf, "shdr") = 1..ss
  BY DEF StructNumbers, HasTables, IsTable
<1>4. \A k : PhdrAt(elf, k) = E + P * (k - 1)
  BY DEF PhdrAt
<1>5. PhdrAt(elf, ps + 1) = E + P * ps
  <2>1. ps + 1 - 1 = ps
    BY <1>2
  <2> QED BY <1>4, <2>1
<1>6. \A k : ShdrAt(elf, k) = PhdrAt(elf, ps + 1) + Z * (k - 1)
  BY DEF ShdrAt
<1>7. EndOf(elf) = E + P * ps + Z * ss
  <2>1. ss + 1 - 1 = ss
    BY <1>2
  <2>2. EndOf(elf) = ShdrAt(elf, ss + 1)
    BY DEF EndOf
  <2> QED BY <1>5, <1>6, <2>1, <2>2
<1>8. P * 0 = 0 /\ Z * 0 = 0 /\ E * 0 = 0 /\ 1 - 1 = 0
  BY <1>1
<1>9. P * ps \in Nat /\ Z * ss \in Nat
  BY <1>1, <1>2, Times
<1>10. PhdrAt(elf, 1) = E /\ ShdrAt(elf, 1) = E + P * ps
  <2>1. PhdrAt(elf, 1) = E + P * (1 - 1) /\ ShdrAt(elf, 1) = E + P * ps + Z * (1 - 1)
    BY <1>4, <1>5, <1>6
  <2> QED BY <1>1, <1>8, <1>9, <2>1
<1> DEFINE size == SizeOf(elf.class, s)
<1> HIDE DEF E, P, Z, ps, ss
<1>11. \A z \in Nat \ {0}, c \in Nat : \A k \in 1..c : z * (k - 1) \in Nat /\ z * (k - 1) + z <= z * c
  <2> SUFFICES ASSUME NEW z \in Nat \ {0}, NEW c \in Nat, NEW k \in 1..c
               PROVE  z * (k - 1) \in Nat /\ z * (k - 1) + z <= z * c
    OBVIOUS
  <2>1. k - 1 \in Nat /\ k - 1 < c
    OBVIOUS
  <2> QED BY <2>1, Times
<1>12. CASE s = "ehdr"
  <2>1. n = 1 /\ size = E
    BY <1>3, <1>12 DEF E
  <2>2. StartOf(elf, s, n) = 0 /\ StartOf(elf, s, 1) = 0 /\ TableEnd(elf, s) = E
    BY <1>12 DEF StartOf, TableEnd, E
  <2> HIDE DEF size
  <2>3. size * (n - 1) = 0
    BY <1>8, <2>1
  <2> QED BY <1>1, <2>1, <2>2, <2>3 DEF size
<1>13. CASE s = "phdr"
  <2>1. n \in 1..ps /\ size = P
    BY <1>3, <1>13 DEF P
  <2>2. StartOf(elf, s, n) = PhdrAt(elf, n) /\ StartOf(elf, s, 1) = PhdrAt(elf, 1)
        /\ TableEnd(elf, s) = ShdrAt(elf, 1)
    BY <1>13 DEF StartOf, TableEnd
  <2>3. P * (n - 1) \in Nat /\ P * (n - 1) + P <= P * ps
    BY <1>1, <1>2, <1>11, <2>1
  <2>4. StartOf(elf, s, n) = E + P * (n - 1)
    BY <1>4, <2>2
  <2> HIDE DEF size
  <2>5. n \in Nat \ {0}
    BY <1>2, <2>1
  <2>6. StartOf(elf, s, n) + P <= TableEnd(elf, s)
    BY <1>1, <1>9, <1>10, <2>2, <2>3, <2>4
  <2> QED BY <1>1, <1>10, <2>1, <2>2, <2>3, <2>4, <2>5, <2>6 DEF size
<1>14. CASE s = "shdr"
  <2>1. n \in 1..ss /\ size = Z
    BY <1>3, <1>14 DEF Z
  <2>2. StartOf(elf, s, n) = ShdrAt(elf, n) /\ StartOf(elf, s, 1) = ShdrAt(elf, 1)
        /\ TableEnd(elf, s) = EndOf(elf)
    BY <1>14 DEF StartOf, TableEnd
  <2>3. Z * (n - 1) \in Nat /\ Z * (n - 1) + Z <= Z * ss
    BY <1>1, <1>2, <1>11, <2>1
  <2>4. StartOf(elf, s, n) = E + P * ps + Z * (n - 1)
    BY <1>5, <1>6, <2>2
  <2> HIDE DEF size
  <2>5. n \in Nat \ {0}
    BY <1>2, <2>1
  <2>6. StartOf(elf, s, n) + Z <= TableEnd(elf, s)
    BY <1>1, <1>7, <1>9, <2>2, <2>3, <2>4
  <2>7. E + P * ps \in Nat
    BY <1>1, <1>9
  <2> QED BY <1>1, <1>10, <2>1, <2>2, <2>3, <2>4, <2>5, <2>6, <2>7 DEF size
<1> QED BY <1>12, <1>13, <1>14 DEF Structs

(* Each table starts where the one before it ends.                         *)
LEMMA TablesFollow ==
  ASSUME NEW elf, HasTables(elf)
  PROVE  /\ TableEnd(elf, "ehdr") = StartOf(elf, "phdr", 1)
         /\ TableEnd(elf, "phdr") = StartOf(elf, "shdr", 1)
         /\ StartOf(elf, "phdr", 1) \in Nat /\ StartOf(elf, "shdr", 1) \in Nat /\ EndOf(elf) \in Nat
         /\ StartOf(elf, "phdr", 1) <= StartOf(elf, "shdr", 1)
         /\ StartOf(elf, "shdr", 1) <= EndOf(elf) /\ TableEnd(elf, "shdr") = EndOf(elf)
<1> DEFINE E == SizeOf(elf.class, "ehdr")
           P == SizeOf(elf.class, "phdr")
           Z == SizeOf(elf.class, "shdr")
           ps == Len(elf.segments)
           ss == Len(elf.sections)
<1>1. E \in Nat \ {0} /\ P \in Nat \ {0} /\ Z \in Nat \ {0}
  BY SizesAre DEF HasTables
<1>2. ps \in Nat /\ ss \in Nat /\ ps + 1 - 1 = ps /\ ss + 1 - 1 = ss
  BY DEF HasTables, IsTable
<1>3. P * 0 = 0 /\ Z * 0 = 0 /\ 1 - 1 = 0 /\ P * ps \in Nat /\ Z * ss \in Nat
  BY <1>1, <1>2, Times
<1>4. PhdrAt(elf, 1) = E + P * (1 - 1) /\ PhdrAt(elf, ps + 1) = E + P * (ps + 1 - 1)
  BY DEF PhdrAt
<1>5. /\ ShdrAt(elf, 1) = PhdrAt(elf, ps + 1) + Z * (1 - 1)
      /\ EndOf(elf) = PhdrAt(elf, ps + 1) + Z * (ss + 1 - 1)
  BY DEF ShdrAt, EndOf
<1>6. /\ StartOf(elf, "phdr", 1) = PhdrAt(elf, 1) /\ StartOf(elf, "shdr", 1) = ShdrAt(elf, 1)
      /\ TableEnd(elf, "ehdr") = E /\ TableEnd(elf, "phdr") = ShdrAt(elf, 1)
      /\ TableEnd(elf, "shdr") = EndOf(elf)
  BY DEF StartOf, TableEnd
<1> HIDE DEF E, P, Z, ps, ss
<1>7. PhdrAt(elf, 1) = E /\ PhdrAt(elf, ps + 1) = E + P * ps
  BY <1>1, <1>2, <1>3, <1>4
<1>8. ShdrAt(elf, 1) = E + P * ps /\ EndOf(elf) = E + P * ps + Z * ss
  BY <1>1, <1>2, <1>3, <1>5, <1>7
<1> QED BY <1>1, <1>3, <1>6, <1>7, <1>8

(* No two structs share a byte, and all lie in the file.                   *)
LEMMA StructsApart ==
  ASSUME NEW elf, HasTables(elf), NEW s \in Structs, NEW n \in StructNumbers(elf, s)
  PROVE  LET a == StartOf(elf, s, n)
         IN /\ a \in Nat /\ a + SizeOf(elf.class, s) <= EndOf(elf)
            /\ \A t \in Structs : \A k \in StructNumbers(elf, t) : StructApart(elf, s, n, t, k)
<1> DEFINE Size(t) == SizeOf(elf.class, t)
           At(t, k) == StartOf(elf, t, k)
           From(t) == StartOf(elf, t, 1)
           To(t) == TableEnd(elf, t)
<1>1. \A t \in Structs : \A k \in StructNumbers(elf, t) :
        /\ k \in Nat \ {0} /\ Size(t) \in Nat \ {0} /\ From(t) \in Nat
        /\ At(t, k) = From(t) + Size(t) * (k - 1) /\ Size(t) * (k - 1) \in Nat
        /\ At(t, k) + Size(t) <= To(t)
  BY InTable
<1>2. /\ To("ehdr") = From("phdr") /\ To("phdr") = From("shdr") /\ To("shdr") = EndOf(elf)
      /\ From("phdr") \in Nat /\ From("shdr") \in Nat /\ EndOf(elf) \in Nat
      /\ From("phdr") <= From("shdr") /\ From("shdr") <= EndOf(elf)
  BY TablesFollow
<1> HIDE DEF Size, At, From, To
<1>3. \A t \in Structs : To(t) \in Nat /\ To(t) <= EndOf(elf)
  BY <1>2 DEF Structs
<1>4. \A t \in Structs : \A k \in StructNumbers(elf, t) :
        At(t, k) \in Nat /\ From(t) <= At(t, k) /\ At(t, k) + Size(t) <= EndOf(elf)
  BY <1>1, <1>2, <1>3
<1>5. ASSUME NEW t \in Structs, NEW k \in StructNumbers(elf, t)
      PROVE  (s = t /\ n = k) \/ At(s, n) + Size(s) <= At(t, k) \/ At(t, k) + Size(t) <= At(s, n)
  <2>1. CASE s = t
    <3> DEFINE z == Size(s)
    <3>1. /\ z \in Nat \ {0} /\ n \in Nat \ {0} /\ k \in Nat \ {0} /\ From(s) \in Nat
          /\ At(s, n) = From(s) + z * (n - 1) /\ At(s, k) = From(s) + z * (k - 1)
          /\ z * (n - 1) \in Nat /\ z * (k - 1) \in Nat
      BY <1>1, <2>1
    <3> HIDE DEF z
    <3>2. CASE n < k
      <4>1. n - 1 \in Nat /\ k - 1 \in Nat /\ n - 1 < k - 1
        BY <3>1, <3>2
      <4>2. z * (n - 1) + z <= z * (k - 1)
        BY <3>1, <4>1, Times
      <4> QED BY <2>1, <3>1, <4>2 DEF z
    <3>3. CASE k < n
      <4>1. n - 1 \in Nat /\ k - 1 \in Nat /\ k - 1 < n - 1
        BY <3>1, <3>3
      <4>2. z * (k - 1) + z <= z * (n - 1)
        BY <3>1, <4>1, Times
      <4> QED BY <2>1, <3>1, <4>2 DEF z
    <3> QED BY <2>1, <3>1, <3>2, <3>3
  <2>2. CASE s # t
    <3>1. To(s) <= From(t) \/ To(t) <= From(s)
      BY <1>2, <2>2 DEF Structs
    <3>2. /\ At(s, n) \in Nat /\ At(t, k) \in Nat /\ Size(s) \in Nat /\ Size(t) \in Nat
          /\ From(s) \in Nat /\ From(t) \in Nat /\ To(s) \in Nat /\ To(t) \in Nat
          /\ From(s) <= At(s, n) /\ From(t) <= At(t, k)
          /\ At(s, n) + Size(s) <= To(s) /\ At(t, k) + Size(t) <= To(t)
      BY <1>1, <1>3, <1>4
    <3> QED BY <3>1, <3>2
  <2> QED BY <2>1, <2>2
<1> QED BY <1>4, <1>5 DEF StructApart, Size, At

(* All start on a 4-byte boundary of the file, of 64-bit files on an       *)
(* 8-byte one.                                                             *)
LEMMA StructsAligned ==
  ASSUME NEW elf, HasTables(elf), NEW s \in Structs, NEW n \in StructNumbers(elf, s)
  PROVE  /\ StartOf(elf, s, n) % 4 = 0 /\ EndOf(elf) % 4 = 0
         /\ elf.class # 1 => StartOf(elf, s, n) % 8 = 0
<1> DEFINE ps == Len(elf.segments)
           ss == Len(elf.sections)
<1>1. n \in Nat
  BY InTable
<1>2. ps \in Nat /\ ss \in Nat
  BY DEF HasTables, IsTable
<1>3. ASSUME NEW k \in Nat
      PROVE  /\ StartOf(elf, "ehdr", k) % 4 = 0 /\ StartOf(elf, "phdr", k) % 4 = 0
             /\ StartOf(elf, "shdr", k) % 4 = 0
             /\ elf.class # 1 =>
                  /\ StartOf(elf, "ehdr", k) % 8 = 0 /\ StartOf(elf, "phdr", k) % 8 = 0
                  /\ StartOf(elf, "shdr", k) % 8 = 0
  <2>1. /\ StartOf(elf, "ehdr", k) = 0
        /\ StartOf(elf, "phdr", k) =
             IF elf.class = 1 THEN 52 + 32 * (k - 1) ELSE 64 + 56 * (k - 1)
        /\ StartOf(elf, "shdr", k) =
             IF elf.class = 1 THEN 52 + 32 * ps + 40 * (k - 1) ELSE 64 + 56 * ps + 64 * (k - 1)
    BY StartsAre
  <2> HIDE DEF ps
  <2>2. CASE elf.class = 1
    BY <1>2, <2>1, <2>2
  <2>3. CASE elf.class # 1
    BY <1>2, <2>1, <2>3
  <2> QED BY <2>2, <2>3
<1>4. EndOf(elf) = StartOf(elf, "shdr", ss + 1)
  BY DEF EndOf, StartOf
<1>5. EndOf(elf) % 4 = 0
  <2>1. ss + 1 \in Nat
    BY <1>2
  <2> HIDE DEF ss
  <2> QED BY <1>3, <1>4, <2>1
<1> QED BY <1>1, <1>3, <1>5 DEF Structs

(* Where a member of a struct is: in it, behind the magic and the class.   *)
LEMMA MemberPlace ==
  ASSUME NEW elf, HasTables(elf), NEW s \in Structs, NEW n \in StructNumbers(elf, s),
         NEW l \in Layout(elf.class, s), NEW m, LiesIn(elf, m, s, n, l)
  PROVE  /\ l[2] \in Nat /\ l[3] \in {2, 4, 8} /\ l[2] + l[3] <= SizeOf(elf.class, s)
         /\ m[1] = StartOf(elf, s, n) + l[2] /\ m[2] = l[3] /\ StartOf(elf, s, n) \in Nat
         /\ m[1] \in Nat /\ m[1] % 2 = 0 /\ m[2] \in {2, 4, 8} /\ m[1] + m[2] <= EndOf(elf)
         /\ 6 <= m[1]
<1> DEFINE a == StartOf(elf, s, n)
           z == SizeOf(elf.class, s)
<1>1. elf.class \in Classes
  BY DEF HasTables
<1>2. l[2] \in Nat /\ l[2] % 2 = 0 /\ l[3] \in {2, 4, 8} /\ l[2] + l[3] <= z
  BY <1>1, LayoutsApart DEF LaidOut
<1>3. m[1] = a + l[2] /\ m[2] = l[3]
  BY DEF LiesIn
<1>4. a \in Nat /\ a + z <= EndOf(elf) /\ a % 2 = 0 /\ z \in Nat /\ EndOf(elf) \in Nat
  <2>1. a \in Nat /\ a + z <= EndOf(elf) /\ a % 4 = 0 /\ z \in Nat /\ EndOf(elf) \in Nat
    BY StructsApart, StructsAligned, InTable, TablesFollow
  <2>2. \A y \in Nat : y % 4 = 0 => y % 2 = 0
    OBVIOUS
  <2> HIDE DEF a, z
  <2> QED BY <2>1, <2>2
<1>5. 6 <= a + l[2]
  <2>1. CASE s = "ehdr"
    <3>1. l[2] >= 6
      BY <1>1, <2>1, BehindIdent
    <3> QED BY <1>2, <1>4, <3>1
  <2>2. CASE s # "ehdr"
    <3>1. SizeOf(elf.class, "ehdr") >= 52 /\ SizeOf(elf.class, "ehdr") \in Nat
      BY <1>1, SizesAre
    <3>2. "ehdr" \in Structs /\ 1 \in StructNumbers(elf, "ehdr") /\ StartOf(elf, "ehdr", 1) = 0
      BY DEF Structs, StructNumbers, StartOf
    <3>3. StructApart(elf, "ehdr", 1, s, n)
      BY <3>2, StructsApart
    <3>4. 0 + SizeOf(elf.class, "ehdr") <= a \/ a + z <= 0
      BY <2>2, <3>2, <3>3 DEF StructApart
    <3>5. z > 0
      BY InTable
    <3> QED BY <1>2, <1>4, <3>1, <3>4, <3>5
  <2> QED BY <2>1, <2>2
<1> HIDE DEF a, z
<1>6. m[1] \in Nat /\ m[1] % 2 = 0
  <2>1. \A x, y \in Nat : x % 2 = 0 /\ y % 2 = 0 => x + y \in Nat /\ (x + y) % 2 = 0
    OBVIOUS
  <2> QED BY <1>2, <1>3, <1>4, <2>1
<1>7. m[1] + m[2] <= EndOf(elf)
  <2>1. l[3] \in Nat
    BY <1>2
  <2> QED BY <1>2, <1>3, <1>4, <2>1
<1> QED BY <1>2, <1>3, <1>4, <1>5, <1>6, <1>7 DEF a, z

(* Every member is in the file, on an even address.                        *)
LEMMA MemberInFile ==
  ASSUME NEW elf, HasTables(elf), NEW m \in Members(elf)
  PROVE  m[1] \in Nat /\ m[1] % 2 = 0 /\ m[2] \in {2, 4, 8} /\ m[1] + m[2] <= EndOf(elf)
<1>1. CASE m \in Ident(elf)
  <2>1. m[1] \in {0, 2, 4} /\ m[2] = 2
    BY <1>1 DEF Ident
  <2>2. EndOf(elf) >= 6 /\ EndOf(elf) \in Nat
    <3>1. SizeOf(elf.class, "ehdr") >= 52 /\ SizeOf(elf.class, "ehdr") \in Nat
      BY SizesAre DEF HasTables
    <3>2. "ehdr" \in Structs /\ 1 \in StructNumbers(elf, "ehdr") /\ StartOf(elf, "ehdr", 1) = 0
      BY DEF Structs, StructNumbers, StartOf
    <3>3. 0 + SizeOf(elf.class, "ehdr") <= EndOf(elf)
      BY <3>2, StructsApart
    <3>4. EndOf(elf) \in Nat
      BY TablesFollow
    <3> QED BY <3>1, <3>3, <3>4
  <2> QED BY <2>1, <2>2
<1>2. CASE m \notin Ident(elf)
  <2>1. PICK s \in Structs : \E n \in StructNumbers(elf, s) :
          \E l \in Layout(elf.class, s) : LiesIn(elf, m, s, n, l)
    BY <1>2, MembersAre
  <2> QED BY <2>1, MemberPlace
<1> QED BY <1>1, <1>2

(* A byte of the file is in one member at most.                            *)
Within(m, x) == m[1] <= x /\ x < m[1] + m[2]

(* Only one member of a file covers an address.                            *)
LEMMA MemberAlone ==
  ASSUME NEW elf, HasTables(elf), NEW m \in Members(elf), NEW k \in Members(elf), NEW x \in Int,
         Within(m, x), Within(k, x)
  PROVE  m = k
<1>1. CASE m \in Ident(elf) /\ k \in Ident(elf)
  BY <1>1 DEF Ident, Within
<1>2. ASSUME NEW i \in Ident(elf), NEW o \in Members(elf), o \notin Ident(elf),
             Within(i, x), Within(o, x)
      PROVE  FALSE
  <2>1. i[1] + i[2] <= 6
    BY DEF Ident
  <2>2. PICK s \in Structs : \E n \in StructNumbers(elf, s) :
          \E l \in Layout(elf.class, s) : LiesIn(elf, o, s, n, l)
    BY <1>2, MembersAre
  <2>3. 6 <= o[1] /\ o[1] \in Nat
    BY <2>2, MemberPlace
  <2>4. i[1] + i[2] \in Int
    BY DEF Ident
  <2> QED BY <1>2, <2>1, <2>3, <2>4 DEF Within
<1>3. CASE m \notin Ident(elf) /\ k \notin Ident(elf)
  <2>1. PICK s \in Structs : \E n \in StructNumbers(elf, s) :
          \E l \in Layout(elf.class, s) : LiesIn(elf, m, s, n, l)
    BY <1>3, MembersAre
  <2>2. PICK n \in StructNumbers(elf, s) : \E l \in Layout(elf.class, s) : LiesIn(elf, m, s, n, l)
    BY <2>1
  <2>3. PICK l \in Layout(elf.class, s) : LiesIn(elf, m, s, n, l)
    BY <2>2
  <2>4. PICK t \in Structs : \E j \in StructNumbers(elf, t) :
          \E o \in Layout(elf.class, t) : LiesIn(elf, k, t, j, o)
    BY <1>3, MembersAre
  <2>5. PICK j \in StructNumbers(elf, t) : \E o \in Layout(elf.class, t) : LiesIn(elf, k, t, j, o)
    BY <2>4
  <2>6. PICK o \in Layout(elf.class, t) : LiesIn(elf, k, t, j, o)
    BY <2>5
  <2> DEFINE a == StartOf(elf, s, n)
             b == StartOf(elf, t, j)
             y == SizeOf(elf.class, s)
             z == SizeOf(elf.class, t)
  <2>7. /\ l[2] \in Nat /\ l[3] \in {2, 4, 8} /\ l[2] + l[3] <= y
        /\ m[1] = a + l[2] /\ m[2] = l[3] /\ a \in Nat
    BY <2>3, MemberPlace
  <2>8. /\ o[2] \in Nat /\ o[3] \in {2, 4, 8} /\ o[2] + o[3] <= z
        /\ k[1] = b + o[2] /\ k[2] = o[3] /\ b \in Nat
    BY <2>6, MemberPlace
  <2>9. y \in Nat /\ z \in Nat
    BY InTable
  <2>10. (s = t /\ n = j) \/ a + y <= b \/ b + z <= a
    BY StructsApart DEF StructApart
  <2>11. s = t /\ n = j
    <3>1. l[3] \in Nat /\ o[3] \in Nat
      BY <2>7, <2>8
    <3>2. a + l[2] <= x /\ x < a + l[2] + l[3] /\ b + o[2] <= x /\ x < b + o[2] + o[3]
      BY <2>7, <2>8 DEF Within
    <3> HIDE DEF a, b, y, z
    <3>3. ~(a + y <= b) /\ ~(b + z <= a)
      BY <2>7, <2>8, <2>9, <3>1, <3>2
    <3> QED BY <2>10, <3>3
  <2>12. a = b
    BY <2>11
  <2>13. l = o
    <3>1. elf.class \in Classes /\ o \in Layout(elf.class, s)
      BY <2>11 DEF HasTables
    <3>2. o = l \/ l[2] + l[3] <= o[2] \/ o[2] + o[3] <= l[2]
      BY <3>1, LayoutsApart DEF LaidOut
    <3>3. l[3] \in Nat /\ o[3] \in Nat
      BY <2>7, <2>8
    <3>4. a + l[2] <= x /\ x < a + l[2] + l[3] /\ a + o[2] <= x /\ x < a + o[2] + o[3]
      BY <2>7, <2>8, <2>12 DEF Within
    <3> HIDE DEF a, b, y, z
    <3> QED BY <2>7, <2>8, <3>2, <3>3, <3>4
  <2> QED BY <2>3, <2>6, <2>11, <2>13 DEF LiesIn
<1> QED BY <1>1, <1>2, <1>3

(* The unit of a member that is at an address of the file in memory.       *)
LEMMA UnitIs ==
  ASSUME NEW elf, HasTables(elf), NEW base \in Nat, NEW m \in Members(elf), NEW j \in Nat,
         2 * j < m[2]
  PROVE  File(elf, base).mem[base + m[1] + 2 * j] = (m[3] \div UnitPower(j)) % Unit
<1> DEFINE x == m[1] + 2 * j
           a == base + x
           h == EndOf(elf) \div 2
           Ms(y) == {k \in Members(elf) : k[1] <= y - base /\ y - base < k[1] + k[2]}
           At(y) == IF Ms(y) = {} THEN 0 ELSE UnitIn(CHOOSE k \in Ms(y) : TRUE, y - base)
           Even == {base + 2*k : k \in 0 .. h - 1}
<1>1. File(elf, base).mem = [y \in Even |-> At(y)]
  BY DEF File, EndOf
<1>2. m[1] \in Nat /\ m[1] % 2 = 0 /\ m[2] \in {2, 4, 8} /\ m[1] + m[2] <= EndOf(elf) /\ EndOf(elf) \in Nat
  BY MemberInFile, TablesFollow
<1>3. EndOf(elf) % 2 = 0
  <2>1. "ehdr" \in Structs /\ 1 \in StructNumbers(elf, "ehdr")
    BY DEF Structs, StructNumbers
  <2>2. EndOf(elf) % 4 = 0
    BY <2>1, StructsAligned
  <2> QED BY <1>2, <2>2
<1>4. x \in Nat /\ x % 2 = 0 /\ x + 2 <= EndOf(elf) /\ Within(m, x)
  BY <1>2 DEF Within
<1>5. a \in Even
  <2>1. EndOf(elf) = 2 * h /\ h \in Nat
    BY <1>2, <1>3
  <2>2. x \div 2 \in Nat /\ x = 2 * (x \div 2)
    BY <1>4
  <2> HIDE DEF h, x
  <2>3. x \div 2 \in 0 .. h - 1
    BY <1>4, <2>1, <2>2
  <2>4. a = base + 2 * (x \div 2)
    BY <2>2
  <2> QED BY <2>3, <2>4
<1>6. a - base = x
  BY <1>4
<1>7. Ms(a) = {m}
  <2>1. m \in Ms(a)
    BY <1>4, <1>6 DEF Within
  <2>2. ASSUME NEW k \in Ms(a) PROVE k = m
    <3>1. k \in Members(elf) /\ Within(k, x) /\ x \in Int
      BY <1>4, <1>6 DEF Within
    <3> HIDE DEF x
    <3> QED BY <1>4, <3>1, MemberAlone
  <2> HIDE DEF Ms
  <2> QED BY <2>1, <2>2
<1>8. At(a) = UnitIn(m, x)
  <2> HIDE DEF Ms, a, x
  <2>1. (CHOOSE k \in Ms(a) : TRUE) = m
    BY <1>7
  <2>2. Ms(a) # {}
    BY <1>7
  <2> QED BY <1>6, <2>1, <2>2
<1>9. UnitIn(m, x) = (m[3] \div UnitPower(j)) % Unit
  <2>1. (x - m[1]) \div 2 = j
    BY <1>2
  <2> HIDE DEF x
  <2> QED BY <2>1 DEF UnitIn
<1>10. base + m[1] + 2 * j = a
  BY <1>2
<1> HIDE DEF Even, At, a, x
<1>11. File(elf, base).mem[a] = At(a)
  BY <1>1, <1>5
<1> QED BY <1>8, <1>9, <1>10, <1>11

(* What fits in a member of a size.                                        *)
FitsIn(v, n) ==
  /\ v \in Nat
  /\ n = 2 => v < Unit
  /\ n = 4 => v < Unit * Unit
  /\ n = 8 => v < Word64

(* The powers of Unit.                                                     *)
LEMMA UnitPowers ==
  /\ Unit \in Nat \ {0} /\ Unit * Unit \in Nat \ {0} /\ Unit * (Unit * Unit) \in Nat \ {0}
  /\ Word64 = Unit * (Unit * (Unit * Unit))
<1>1. Unit \in Nat \ {0}
  BY UnitAssumption
<1>2. \A x, y \in Nat \ {0} : x * y \in Nat \ {0}
  <2> SUFFICES ASSUME NEW x \in Nat \ {0}, NEW y \in Nat \ {0} PROVE x * y \in Nat \ {0}
    OBVIOUS
  <2>1. x * y \in Nat /\ (1 <= y => x * 1 <= x * y)
    BY Times
  <2> QED BY <2>1
<1>3. Unit * Unit \in Nat \ {0} /\ Unit * (Unit * Unit) \in Nat \ {0}
  BY <1>1, <1>2
<1>4. (Unit * Unit) * (Unit * Unit) = Unit * (Unit * (Unit * Unit))
  BY <1>1, <1>3, Times
<1> QED BY <1>1, <1>3, <1>4 DEF Word64

(* A quotient taken off digit by digit.                                    *)
LEMMA DivideTwice ==
  ASSUME NEW u \in Nat \ {0}, NEW w \in Nat \ {0}, NEW v \in Nat
  PROVE  v \div (u * w) = (v \div u) \div w
<1> DEFINE q == v \div u
           r == v % u
<1>1. q \in Nat /\ r \in 0 .. u - 1 /\ v = u * q + r
  BY Split
<1> HIDE DEF q, r
<1>2. \A x, y \in Nat : x * y = y * x
  OBVIOUS
<1>3. u * w = w * u
  BY <1>2
<1>4. Places(v, u * w, u, q, w, r)
  BY <1>1, <1>3 DEF Places, Positive
<1>5. v \div (u * w) = q \div w
  BY <1>4, Lower
<1> QED BY <1>5 DEF q

(* A quotient of a number below a product.                                 *)
LEMMA QuotientBelow ==
  ASSUME NEW u \in Nat \ {0}, NEW w \in Nat \ {0}, NEW v \in Nat, v < u * w
  PROVE  v \div u < w
<1> DEFINE q == v \div u
<1>1. q \in Nat /\ v % u \in 0 .. u - 1 /\ v = u * q + (v % u)
  BY Split
<1> HIDE DEF q
<1>2. CASE w <= q
  <2>1. u * w <= u * q /\ u * q \in Nat /\ u * w \in Nat
    BY <1>1, <1>2, Times
  <2> QED BY <1>1, <2>1
<1>3. q < w
  BY <1>1, <1>2
<1> QED BY <1>3 DEF q

(* The units of a number, from the least significant one.                  *)
UnitAt(v, j) == (v \div UnitPower(j)) % Unit

(* They are the remainders of the quotients.                               *)
LEMMA UnitsAre ==
  ASSUME NEW v \in Nat
  PROVE  LET q1 == v \div Unit
             q2 == q1 \div Unit
             q3 == q2 \div Unit
         IN /\ q1 \in Nat /\ q2 \in Nat /\ q3 \in Nat
            /\ UnitAt(v, 0) = v % Unit /\ UnitAt(v, 1) = q1 % Unit
            /\ UnitAt(v, 2) = q2 % Unit /\ UnitAt(v, 3) = q3 % Unit
            /\ v = Unit * q1 + (v % Unit) /\ q1 = Unit * q2 + (q1 % Unit)
            /\ q2 = Unit * q3 + (q2 % Unit)
<1> DEFINE q1 == v \div Unit
           q2 == q1 \div Unit
           q3 == q2 \div Unit
<1>1. /\ Unit \in Nat \ {0} /\ Unit * Unit \in Nat \ {0} /\ Unit * (Unit * Unit) \in Nat \ {0}
  BY UnitPowers
<1>2. q1 \in Nat /\ v = Unit * q1 + (v % Unit)
  BY <1>1, Split
<1>3. q2 \in Nat /\ q1 = Unit * q2 + (q1 % Unit)
  BY <1>1, <1>2, Split
<1>4. q3 \in Nat /\ q2 = Unit * q3 + (q2 % Unit)
  BY <1>1, <1>3, Split
<1>5. v \div (Unit * Unit) = q2
  BY <1>1, DivideTwice
<1>6. v \div (Unit * (Unit * Unit)) = q3
  <2>1. v \div (Unit * (Unit * Unit)) = q1 \div (Unit * Unit)
    BY <1>1, DivideTwice
  <2>2. q1 \div (Unit * Unit) = q3
    BY <1>1, <1>2, DivideTwice
  <2> QED BY <2>1, <2>2
<1>7. /\ UnitPower(0) = 1 /\ UnitPower(1) = Unit /\ UnitPower(2) = Unit * Unit
      /\ UnitPower(3) = Unit * (Unit * Unit)
  BY DEF UnitPower
<1>8. v \div 1 = v
  OBVIOUS
<1> HIDE DEF q1, q2, q3
<1>9. /\ UnitAt(v, 0) = v % Unit /\ UnitAt(v, 2) = q2 % Unit /\ UnitAt(v, 3) = q3 % Unit
  BY <1>5, <1>6, <1>7, <1>8 DEF UnitAt
<1>10. UnitAt(v, 1) = q1 % Unit
  BY <1>7 DEF UnitAt, q1
<1> QED BY <1>2, <1>3, <1>4, <1>9, <1>10 DEF q1, q2, q3

(* Two units hold a number below the square of Unit, four one below its    *)
(* fourth power.                                                           *)
LEMMA UnitsHold ==
  ASSUME NEW v \in Nat
  PROVE  /\ v < Unit => UnitAt(v, 0) = v
         /\ v < Unit * Unit => Unit * UnitAt(v, 1) + UnitAt(v, 0) = v
         /\ v < Word64 =>
              Unit * (Unit * (Unit * UnitAt(v, 3) + UnitAt(v, 2)) + UnitAt(v, 1)) + UnitAt(v, 0) = v
<1> DEFINE q1 == v \div Unit
           q2 == q1 \div Unit
           q3 == q2 \div Unit
<1>1. /\ q1 \in Nat /\ q2 \in Nat /\ q3 \in Nat
      /\ UnitAt(v, 0) = v % Unit /\ UnitAt(v, 1) = q1 % Unit
      /\ UnitAt(v, 2) = q2 % Unit /\ UnitAt(v, 3) = q3 % Unit
      /\ v = Unit * q1 + (v % Unit) /\ q1 = Unit * q2 + (q1 % Unit) /\ q2 = Unit * q3 + (q2 % Unit)
  BY UnitsAre
<1>2. /\ Unit \in Nat \ {0} /\ Unit * Unit \in Nat \ {0} /\ Unit * (Unit * Unit) \in Nat \ {0}
      /\ Word64 = Unit * (Unit * (Unit * Unit))
  BY UnitPowers
<1>3. \A x \in Nat : x < Unit => x % Unit = x
  <2> SUFFICES ASSUME NEW x \in Nat, x < Unit PROVE x % Unit = x
    OBVIOUS
  <2>1. Unit * 0 + x = x /\ x \in 0 .. Unit - 1
    BY <1>2
  <2> QED BY <1>2, <2>1, Unsplit
<1>4. v < Unit * Unit => q1 < Unit
  BY <1>2, QuotientBelow
<1>5. v < Word64 => q3 < Unit
  <2> SUFFICES ASSUME v < Word64 PROVE q3 < Unit
    OBVIOUS
  <2>1. q1 < Unit * (Unit * Unit)
    BY <1>2, QuotientBelow
  <2> HIDE DEF q1
  <2>2. q2 < Unit * Unit
    BY <1>1, <1>2, <2>1, QuotientBelow
  <2> HIDE DEF q2
  <2> QED BY <1>1, <1>2, <2>2, QuotientBelow
<1> HIDE DEF q1, q2, q3
<1>6. v < Unit => UnitAt(v, 0) = v
  BY <1>1, <1>3
<1>7. v < Unit * Unit => Unit * UnitAt(v, 1) + UnitAt(v, 0) = v
  <2> SUFFICES ASSUME v < Unit * Unit PROVE Unit * UnitAt(v, 1) + UnitAt(v, 0) = v
    OBVIOUS
  <2>1. UnitAt(v, 1) = q1
    BY <1>1, <1>3, <1>4
  <2> QED BY <1>1, <2>1
<1>8. v < Word64 =>
        Unit * (Unit * (Unit * UnitAt(v, 3) + UnitAt(v, 2)) + UnitAt(v, 1)) + UnitAt(v, 0) = v
  <2> SUFFICES ASSUME v < Word64
               PROVE  Unit * (Unit * (Unit * UnitAt(v, 3) + UnitAt(v, 2)) + UnitAt(v, 1))
                        + UnitAt(v, 0) = v
    OBVIOUS
  <2>1. UnitAt(v, 3) = q3
    BY <1>1, <1>3, <1>5
  <2>2. Unit * UnitAt(v, 3) + UnitAt(v, 2) = q2
    BY <1>1, <2>1
  <2>3. Unit * q2 + UnitAt(v, 1) = q1
    BY <1>1
  <2>4. Unit * q1 + UnitAt(v, 0) = v
    BY <1>1
  <2> QED BY <2>2, <2>3, <2>4
<1> QED BY <1>6, <1>7, <1>8

(* A load of the size of a member is its value; of eight bytes it is read  *)
(* by elf64_read64() from a 4-byte boundary.                               *)
LEMMA MemberLoaded ==
  ASSUME NEW elf, HasTables(elf), NEW base \in Nat, NEW m \in Members(elf), FitsIn(m[3], m[2])
  PROVE  LET a == base + m[1]
             file == File(elf, base)
         IN /\ m[2] = 2 /\ a % 2 = 0 => Load(file, a, 2) = m[3]
            /\ m[2] = 4 /\ a % 4 = 0 => Load(file, a, 4) = m[3]
            /\ m[2] = 8 /\ a % 4 = 0 => Read64(file, a) = m[3]
            /\ m[2] = 8 /\ a % 8 = 0 => Load(file, a, 8) = m[3]
<1> DEFINE a == base + m[1]
           file == File(elf, base)
           v == m[3]
<1>1. m[1] \in Nat /\ m[2] \in {2, 4, 8}
  BY MemberInFile
<1>2. v \in Nat
  BY DEF FitsIn
<1>3. \A j \in Nat : 2 * j < m[2] => file.mem[a + 2 * j] = UnitAt(v, j)
  <2> SUFFICES ASSUME NEW j \in Nat, 2 * j < m[2] PROVE file.mem[a + 2 * j] = UnitAt(v, j)
    OBVIOUS
  <2> QED BY UnitIs DEF UnitAt
<1>4. a \in Nat
  BY <1>1
<1>5. \A j \in 0..3 : UnitAt(v, j) \in 0 .. Unit - 1
  <2> SUFFICES ASSUME NEW j \in 0..3 PROVE UnitAt(v, j) \in 0 .. Unit - 1
    OBVIOUS
  <2>1. Unit \in Nat \ {0}
    BY UnitPowers
  <2>2. /\ UnitAt(v, 0) = v % Unit /\ UnitAt(v, 1) = (v \div Unit) % Unit
        /\ UnitAt(v, 2) = ((v \div Unit) \div Unit) % Unit
        /\ UnitAt(v, 3) = (((v \div Unit) \div Unit) \div Unit) % Unit
        /\ v \div Unit \in Nat /\ (v \div Unit) \div Unit \in Nat
        /\ ((v \div Unit) \div Unit) \div Unit \in Nat
    BY <1>2, UnitsAre
  <2>3. \A x \in Nat : x % Unit \in 0 .. Unit - 1
    BY <2>1, Split
  <2>4. j = 0 \/ j = 1 \/ j = 2 \/ j = 3
    OBVIOUS
  <2>5. /\ UnitAt(v, 0) \in 0 .. Unit - 1 /\ UnitAt(v, 1) \in 0 .. Unit - 1
        /\ UnitAt(v, 2) \in 0 .. Unit - 1 /\ UnitAt(v, 3) \in 0 .. Unit - 1
    BY <1>2, <2>2, <2>3
  <2> QED BY <2>4, <2>5
<1>6. /\ v < Unit => UnitAt(v, 0) = v
      /\ v < Unit * Unit => Unit * UnitAt(v, 1) + UnitAt(v, 0) = v
      /\ v < Word64 =>
           Unit * (Unit * (Unit * UnitAt(v, 3) + UnitAt(v, 2)) + UnitAt(v, 1)) + UnitAt(v, 0) = v
  BY <1>2, UnitsHold
<1>7. (m[2] = 2 => v < Unit) /\ (m[2] = 4 => v < Unit * Unit) /\ (m[2] = 8 => v < Word64)
  BY DEF FitsIn
<1> HIDE DEF a, file, v
<1>8. m[2] = 2 /\ a % 2 = 0 => Load(file, a, 2) = v
  <2> SUFFICES ASSUME m[2] = 2, a % 2 = 0 PROVE Load(file, a, 2) = v
    OBVIOUS
  <2>1. file.mem[a] = v
    <3>1. 0 \in Nat /\ 2 * 0 < 2 /\ a + 2 * 0 = a
      BY <1>4
    <3>2. file.mem[a + 2 * 0] = UnitAt(v, 0)
      BY <1>3, <3>1
    <3> QED BY <1>6, <1>7, <3>1, <3>2
  <2> DEFINE S == [k \in 0..1 |-> IF k = 0 THEN 0 ELSE v]
  <2>2. S[0] = 0 /\ S[1] = v /\ S = [k \in 0..1 |-> S[k]]
    OBVIOUS
  <2> HIDE DEF S
  <2>3. ASSUME NEW k \in 1..1 PROVE S[k] = Unit * S[k-1] + file.mem[a + 2 - 2*k]
    <3>1. k = 1 /\ k - 1 = 0 /\ a + 2 - 2*k = a
      BY <1>4
    <3>2. Unit * 0 = 0
      BY UnitPowers
    <3> QED BY <1>2, <2>1, <2>2, <3>1, <3>2
  <2>4. Sums(S, file, a, 2, 1)
    BY <2>2, <2>3 DEF Sums
  <2>5. 2 \div 2 = 1
    OBVIOUS
  <2> QED BY <2>2, <2>4, <2>5, LoadIs
<1>9. m[2] >= 4 => file.mem[a] = UnitAt(v, 0) /\ file.mem[a + 2] = UnitAt(v, 1)
  <2> SUFFICES ASSUME m[2] >= 4 PROVE file.mem[a] = UnitAt(v, 0) /\ file.mem[a + 2] = UnitAt(v, 1)
    OBVIOUS
  <2>1. a + 2 * 0 = a /\ a + 2 * 1 = a + 2 /\ 2 * 0 < m[2] /\ 2 * 1 < m[2]
    BY <1>1, <1>4
  <2>2. file.mem[a + 2 * 0] = UnitAt(v, 0) /\ file.mem[a + 2 * 1] = UnitAt(v, 1)
    BY <1>3, <2>1
  <2> QED BY <2>1, <2>2
<1>10. m[2] = 8 => file.mem[a + 4] = UnitAt(v, 2) /\ file.mem[a + 6] = UnitAt(v, 3)
  <2> SUFFICES ASSUME m[2] = 8 PROVE file.mem[a + 4] = UnitAt(v, 2) /\ file.mem[a + 6] = UnitAt(v, 3)
    OBVIOUS
  <2>1. a + 2 * 2 = a + 4 /\ a + 2 * 3 = a + 6 /\ 2 * 2 < m[2] /\ 2 * 3 < m[2]
    BY <1>4
  <2>2. file.mem[a + 2 * 2] = UnitAt(v, 2) /\ file.mem[a + 2 * 3] = UnitAt(v, 3)
    BY <1>3, <2>1
  <2> QED BY <2>1, <2>2
<1>11. /\ UnitAt(v, 0) \in Nat /\ UnitAt(v, 1) \in Nat /\ UnitAt(v, 2) \in Nat /\ UnitAt(v, 3) \in Nat
  <2>1. Unit \in Nat
    BY UnitPowers
  <2>2. 0 \in 0..3 /\ 1 \in 0..3 /\ 2 \in 0..3 /\ 3 \in 0..3
    OBVIOUS
  <2> QED BY <1>5, <2>1, <2>2
<1>12. m[2] = 4 /\ a % 4 = 0 => Load(file, a, 4) = v
  <2> SUFFICES ASSUME m[2] = 4, a % 4 = 0 PROVE Load(file, a, 4) = v
    OBVIOUS
  <2>1. Load(file, a, 4) = Pair(file, a)
    BY <1>4, <1>9, <1>11, PairLoaded
  <2>2. Pair(file, a) = Unit * UnitAt(v, 1) + UnitAt(v, 0)
    BY <1>9 DEF Pair
  <2> QED BY <1>6, <1>7, <2>1, <2>2
<1>13. m[2] = 8 => Quad(file, a) = v
  <2> SUFFICES ASSUME m[2] = 8 PROVE Quad(file, a) = v
    OBVIOUS
  <2>1. Pair(file, a + 4) = Unit * UnitAt(v, 3) + UnitAt(v, 2)
    <3>1. a + 4 + 2 = a + 6
      BY <1>4
    <3> QED BY <1>10, <3>1 DEF Pair
  <2>2. Quad(file, a) = Unit * (Unit * (Unit * UnitAt(v, 3) + UnitAt(v, 2)) + UnitAt(v, 1)) + UnitAt(v, 0)
    BY <1>9, <2>1 DEF Quad
  <2> QED BY <1>6, <1>7, <2>2
<1>14. m[2] = 8 /\ a % 4 = 0 => Read64(file, a) = v
  <2> SUFFICES ASSUME m[2] = 8, a % 4 = 0 PROVE Read64(file, a) = v
    OBVIOUS
  <2>1. UnitsAt(file, a)
    <3> SUFFICES ASSUME NEW j \in 0..3 PROVE file.mem[a + 2 * j] \in 0 .. Unit - 1
      BY DEF UnitsAt
    <3>1. file.mem[a + 2 * j] = UnitAt(v, j)
      BY <1>3
    <3> QED BY <1>5, <3>1
  <2>2. Read64(file, a) = Quad(file, a)
    BY <1>4, <2>1, MemberRead
  <2> QED BY <1>13, <2>2
<1>15. m[2] = 8 /\ a % 8 = 0 => Load(file, a, 8) = v
  <2> SUFFICES ASSUME m[2] = 8, a % 8 = 0 PROVE Load(file, a, 8) = v
    OBVIOUS
  <2>1. Load(file, a, 8) = Quad(file, a)
    BY <1>4, <1>9, <1>10, <1>11, QuadLoaded
  <2> QED BY <1>13, <2>1
<1> QED BY <1>8, <1>12, <1>14, <1>15 DEF a, file, v

(* The offsets of a struct's members, each behind the one before.          *)
OffsetsOf(members, off, n) ==
  /\ n \in Nat /\ Len(members) = n /\ DOMAIN members = 1..n
  /\ off = [k \in 0..n |-> off[k]] /\ off[0] = 0
  /\ \A k \in 1..n : off[k] = off[k-1] + members[k][2]
  /\ \A j, k \in 1..n : members[j][1] = members[k][1] => j = k

(* Struct() is such a struct.                                              *)
LEMMA StructIs ==
  ASSUME NEW members, NEW off, NEW n, OffsetsOf(members, off, n)
  PROVE  LET s == Struct(members)
         IN /\ s.size = off[n]
            /\ \A k \in 1..n : s.at[members[k][1]] = off[k-1] /\ s.bytes[members[k][1]] = members[k][2]
<1> DEFINE More(x, k) == x + members[k][2]
           Is(f) == f = [k \in 0..n |-> IF k = 0 THEN 0 ELSE More(f[k-1], k)]
           D == CHOOSE f : Is(f)
           Which(name) == CHOOSE k \in 1..n : members[k][1] = name
           Names == {members[k][1] : k \in 1..n}
           s == Struct(members)
<1>1. n \in Nat /\ Len(members) = n /\ DOMAIN members = 1..n
  BY DEF OffsetsOf
<1>2. s = [size |-> D[n], at |-> [name \in Names |-> D[Which(name) - 1]],
           bytes |-> [name \in Names |-> members[Which(name)][2]]]
  BY <1>1 DEF Struct
<1>3. \A k \in 1..n : off[k] = More(off[k-1], k)
  BY DEF OffsetsOf
<1> HIDE DEF More
<1>4. Is(off)
  <2>1. ASSUME NEW k \in 0..n PROVE off[k] = IF k = 0 THEN 0 ELSE More(off[k-1], k)
    <3>1. k # 0 => k \in 1..n
      BY <1>1
    <3> QED BY <1>3, <3>1 DEF OffsetsOf
  <2>2. off = [k \in 0..n |-> off[k]]
    BY DEF OffsetsOf
  <2> QED BY <2>1, <2>2
<1>5. Is(D)
  BY <1>4
<1> HIDE DEF D
<1>6. \A k \in 0..n : D[k] = IF k = 0 THEN 0 ELSE More(D[k-1], k)
  BY <1>5
<1> DEFINE Bad == {k \in 0..n : D[k] # off[k]}
<1>7. Bad = {}
  <2>1. SUFFICES ASSUME Bad # {} PROVE FALSE
    OBVIOUS
  <2>2. PICK k \in Bad : \A j \in Bad : k <= j
    <3>1. Bad \subseteq Nat
      BY <1>1
    <3> HIDE DEF Bad
    <3> QED BY <2>1, <3>1, Least
  <2>3. k # 0
    <3>1. D[0] = 0 /\ off[0] = 0
      BY <1>1, <1>6 DEF OffsetsOf
    <3> QED BY <2>2, <3>1
  <2>4. k \in 1..n /\ k \in 0..n /\ k - 1 \in 0..n /\ ~(k <= k - 1)
    BY <1>1, <2>2, <2>3
  <2>5. D[k-1] = off[k-1]
    BY <2>2, <2>4
  <2>6. D[k] = More(D[k-1], k)
    BY <1>6, <2>3, <2>4
  <2>7. off[k] = More(off[k-1], k)
    BY <1>3, <2>4
  <2>8. D[k] = off[k]
    BY <2>5, <2>6, <2>7, Zenon
  <2> QED BY <2>2, <2>8
<1>8. ASSUME NEW k \in 1..n
      PROVE  s.at[members[k][1]] = off[k-1] /\ s.bytes[members[k][1]] = members[k][2]
  <2> DEFINE name == members[k][1]
  <2>1. Which(name) = k /\ name \in Names
    BY DEF OffsetsOf
  <2>2. s.at[name] = D[Which(name) - 1] /\ s.bytes[name] = members[Which(name)][2]
    <3> HIDE DEF name, Which, s, Names
    <3>1. name \in Names
      BY <2>1
    <3> QED BY <1>2, <3>1
  <2>3. k - 1 \in 0..n
    BY <1>1
  <2>4. D[k-1] = off[k-1]
    BY <1>7, <2>3
  <2> HIDE DEF Which, s, name
  <2> QED BY <2>1, <2>2, <2>4 DEF name
<1>9. s.size = off[n]
  <2>1. D[n] = off[n]
    BY <1>1, <1>7
  <2> HIDE DEF s, Names, Which
  <2> QED BY <1>2, <2>1
<1> HIDE DEF s
<1> QED BY <1>8, <1>9 DEF s

(* A member of a struct: where it is and how long.                         *)
IsMember(struct, name, at, bytes) == struct.at[name] = at /\ struct.bytes[name] = bytes

(* The header of a 32-bit file.                                            *)
LEMMA Header32Is ==
  /\ Header32.size = SizeOf(1, "ehdr")
  /\ \A l \in Layout(1, "ehdr") : IsMember(Header32, l[1], l[2], l[3])
<1> DEFINE ms == <<<<"e_ident", 16>>, <<"e_type", 2>>, <<"e_machine", 2>>,
                  <<"e_version", 4>>, <<"e_entry", 4>>, <<"e_phoff", 4>>,
                  <<"e_shoff", 4>>, <<"e_flags", 4>>, <<"e_ehsize", 2>>,
                  <<"e_phentsize", 2>>, <<"e_phnum", 2>>, <<"e_shentsize", 2>>,
                  <<"e_shnum", 2>>, <<"e_shstrndx", 2>> >>
           offsets == <<0, 16, 18, 20, 24, 28, 32, 36, 40, 42, 44, 46, 48, 50, 52>>
           off == [k \in 0..14 |-> offsets[k+1]]
<1>1. OffsetsOf(ms, off, 14)
  BY DEF OffsetsOf
<1>2. /\ ms[5] = <<"e_entry", 4>> /\ ms[6] = <<"e_phoff", 4>>
      /\ ms[7] = <<"e_shoff", 4>> /\ ms[9] = <<"e_ehsize", 2>>
      /\ ms[10] = <<"e_phentsize", 2>> /\ ms[11] = <<"e_phnum", 2>>
      /\ ms[13] = <<"e_shnum", 2>> /\ ms[14] = <<"e_shstrndx", 2>>
  OBVIOUS
<1>3. /\ off[4] = 24 /\ off[5] = 28 /\ off[6] = 32 /\ off[8] = 40 /\ off[9] = 42
      /\ off[10] = 44 /\ off[12] = 48 /\ off[13] = 50 /\ off[14] = 52
  OBVIOUS
<1>4. Header32 = Struct(ms)
  BY DEF Header32
<1> HIDE DEF ms, off
<1>5. /\ Header32.size = off[14]
      /\ \A k \in 1..14 : IsMember(Header32, ms[k][1], off[k-1], ms[k][2])
  BY <1>1, <1>4, StructIs DEF IsMember
<1>6. /\ IsMember(Header32, ms[5][1], off[5-1], ms[5][2])
      /\ IsMember(Header32, ms[6][1], off[6-1], ms[6][2])
      /\ IsMember(Header32, ms[7][1], off[7-1], ms[7][2])
      /\ IsMember(Header32, ms[9][1], off[9-1], ms[9][2])
      /\ IsMember(Header32, ms[10][1], off[10-1], ms[10][2])
      /\ IsMember(Header32, ms[11][1], off[11-1], ms[11][2])
      /\ IsMember(Header32, ms[13][1], off[13-1], ms[13][2])
      /\ IsMember(Header32, ms[14][1], off[14-1], ms[14][2])
  BY <1>5
<1>7. /\ IsMember(Header32, "e_entry", 24, 4)
      /\ IsMember(Header32, "e_phoff", 28, 4)
      /\ IsMember(Header32, "e_shoff", 32, 4)
      /\ IsMember(Header32, "e_ehsize", 40, 2)
      /\ IsMember(Header32, "e_phentsize", 42, 2)
      /\ IsMember(Header32, "e_phnum", 44, 2)
      /\ IsMember(Header32, "e_shnum", 48, 2)
      /\ IsMember(Header32, "e_shstrndx", 50, 2)
  BY <1>2, <1>3, <1>6
<1>8. Layout(1, "ehdr") =
        {<<"e_entry", 24, 4>>, <<"e_phoff", 28, 4>>, <<"e_shoff", 32, 4>>,
         <<"e_ehsize", 40, 2>>, <<"e_phentsize", 42, 2>>, <<"e_phnum", 44, 2>>,
         <<"e_shnum", 48, 2>>, <<"e_shstrndx", 50, 2>>}
  BY DEF Layout
<1>9. SizeOf(1, "ehdr") = 52
  BY DEF SizeOf
<1> QED BY <1>3, <1>5, <1>7, <1>8, <1>9

(* The section header of a 32-bit file.                                    *)
LEMMA Shdr32Is ==
  /\ Shdr32.size = SizeOf(1, "shdr")
  /\ \A l \in Layout(1, "shdr") : IsMember(Shdr32, l[1], l[2], l[3])
<1> DEFINE ms == <<<<"sh_name", 4>>, <<"sh_type", 4>>, <<"sh_flags", 4>>,
                  <<"sh_addr", 4>>, <<"sh_offset", 4>>, <<"sh_size", 4>>,
                  <<"sh_link", 4>>, <<"sh_info", 4>>, <<"sh_addralign", 4>>,
                  <<"sh_entsize", 4>> >>
           offsets == <<0, 4, 8, 12, 16, 20, 24, 28, 32, 36, 40>>
           off == [k \in 0..10 |-> offsets[k+1]]
<1>1. OffsetsOf(ms, off, 10)
  BY DEF OffsetsOf
<1>2. /\ ms[1] = <<"sh_name", 4>> /\ ms[2] = <<"sh_type", 4>>
      /\ ms[3] = <<"sh_flags", 4>> /\ ms[4] = <<"sh_addr", 4>>
      /\ ms[5] = <<"sh_offset", 4>> /\ ms[6] = <<"sh_size", 4>>
  OBVIOUS
<1>3. /\ off[0] = 0 /\ off[1] = 4 /\ off[2] = 8 /\ off[3] = 12 /\ off[4] = 16
      /\ off[5] = 20 /\ off[10] = 40
  OBVIOUS
<1>4. Shdr32 = Struct(ms)
  BY DEF Shdr32
<1> HIDE DEF ms, off
<1>5. /\ Shdr32.size = off[10]
      /\ \A k \in 1..10 : IsMember(Shdr32, ms[k][1], off[k-1], ms[k][2])
  BY <1>1, <1>4, StructIs DEF IsMember
<1>6. /\ IsMember(Shdr32, ms[1][1], off[1-1], ms[1][2])
      /\ IsMember(Shdr32, ms[2][1], off[2-1], ms[2][2])
      /\ IsMember(Shdr32, ms[3][1], off[3-1], ms[3][2])
      /\ IsMember(Shdr32, ms[4][1], off[4-1], ms[4][2])
      /\ IsMember(Shdr32, ms[5][1], off[5-1], ms[5][2])
      /\ IsMember(Shdr32, ms[6][1], off[6-1], ms[6][2])
  BY <1>5
<1>7. /\ IsMember(Shdr32, "sh_name", 0, 4)
      /\ IsMember(Shdr32, "sh_type", 4, 4)
      /\ IsMember(Shdr32, "sh_flags", 8, 4)
      /\ IsMember(Shdr32, "sh_addr", 12, 4)
      /\ IsMember(Shdr32, "sh_offset", 16, 4)
      /\ IsMember(Shdr32, "sh_size", 20, 4)
  BY <1>2, <1>3, <1>6
<1>8. Layout(1, "shdr") =
        {<<"sh_name", 0, 4>>, <<"sh_type", 4, 4>>, <<"sh_flags", 8, 4>>, <<"sh_addr", 12, 4>>,
         <<"sh_offset", 16, 4>>, <<"sh_size", 20, 4>>}
  BY DEF Layout
<1>9. SizeOf(1, "shdr") = 40
  BY DEF SizeOf
<1> QED BY <1>3, <1>5, <1>7, <1>8, <1>9

(* The program header of a 32-bit file.                                    *)
LEMMA Phdr32Is ==
  /\ Phdr32.size = SizeOf(1, "phdr")
  /\ \A l \in Layout(1, "phdr") : IsMember(Phdr32, l[1], l[2], l[3])
<1> DEFINE ms == <<<<"p_type", 4>>, <<"p_offset", 4>>, <<"p_vaddr", 4>>,
                  <<"p_paddr", 4>>, <<"p_filesz", 4>>, <<"p_memsz", 4>>,
                  <<"p_flags", 4>>, <<"p_align", 4>> >>
           offsets == <<0, 4, 8, 12, 16, 20, 24, 28, 32>>
           off == [k \in 0..8 |-> offsets[k+1]]
<1>1. OffsetsOf(ms, off, 8)
  BY DEF OffsetsOf
<1>2. /\ ms[1] = <<"p_type", 4>> /\ ms[2] = <<"p_offset", 4>>
      /\ ms[3] = <<"p_vaddr", 4>> /\ ms[4] = <<"p_paddr", 4>>
      /\ ms[5] = <<"p_filesz", 4>> /\ ms[6] = <<"p_memsz", 4>>
      /\ ms[7] = <<"p_flags", 4>>
  OBVIOUS
<1>3. /\ off[0] = 0 /\ off[1] = 4 /\ off[2] = 8 /\ off[3] = 12 /\ off[4] = 16
      /\ off[5] = 20 /\ off[6] = 24 /\ off[8] = 32
  OBVIOUS
<1>4. Phdr32 = Struct(ms)
  BY DEF Phdr32
<1> HIDE DEF ms, off
<1>5. /\ Phdr32.size = off[8]
      /\ \A k \in 1..8 : IsMember(Phdr32, ms[k][1], off[k-1], ms[k][2])
  BY <1>1, <1>4, StructIs DEF IsMember
<1>6. /\ IsMember(Phdr32, ms[1][1], off[1-1], ms[1][2])
      /\ IsMember(Phdr32, ms[2][1], off[2-1], ms[2][2])
      /\ IsMember(Phdr32, ms[3][1], off[3-1], ms[3][2])
      /\ IsMember(Phdr32, ms[4][1], off[4-1], ms[4][2])
      /\ IsMember(Phdr32, ms[5][1], off[5-1], ms[5][2])
      /\ IsMember(Phdr32, ms[6][1], off[6-1], ms[6][2])
      /\ IsMember(Phdr32, ms[7][1], off[7-1], ms[7][2])
  BY <1>5
<1>7. /\ IsMember(Phdr32, "p_type", 0, 4)
      /\ IsMember(Phdr32, "p_offset", 4, 4)
      /\ IsMember(Phdr32, "p_vaddr", 8, 4)
      /\ IsMember(Phdr32, "p_paddr", 12, 4)
      /\ IsMember(Phdr32, "p_filesz", 16, 4)
      /\ IsMember(Phdr32, "p_memsz", 20, 4)
      /\ IsMember(Phdr32, "p_flags", 24, 4)
  BY <1>2, <1>3, <1>6
<1>8. Layout(1, "phdr") =
        {<<"p_type", 0, 4>>, <<"p_offset", 4, 4>>, <<"p_vaddr", 8, 4>>, <<"p_paddr", 12, 4>>,
         <<"p_filesz", 16, 4>>, <<"p_memsz", 20, 4>>, <<"p_flags", 24, 4>>}
  BY DEF Layout
<1>9. SizeOf(1, "phdr") = 32
  BY DEF SizeOf
<1> QED BY <1>3, <1>5, <1>7, <1>8, <1>9

(* The header of a 64-bit file.                                            *)
LEMMA Header64Is ==
  ASSUME NEW class, class # 1
  PROVE  /\ Header64.size = SizeOf(class, "ehdr")
         /\ \A l \in Layout(class, "ehdr") : IsMember(Header64, l[1], l[2], l[3])
<1> DEFINE ms == <<<<"e_ident", 16>>, <<"e_type", 2>>, <<"e_machine", 2>>,
                  <<"e_version", 4>>, <<"e_entry", 8>>, <<"e_phoff", 8>>,
                  <<"e_shoff", 8>>, <<"e_flags", 4>>, <<"e_ehsize", 2>>,
                  <<"e_phentsize", 2>>, <<"e_phnum", 2>>, <<"e_shentsize", 2>>,
                  <<"e_shnum", 2>>, <<"e_shstrndx", 2>> >>
           offsets == <<0, 16, 18, 20, 24, 32, 40, 48, 52, 54, 56, 58, 60, 62, 64>>
           off == [k \in 0..14 |-> offsets[k+1]]
<1>1. OffsetsOf(ms, off, 14)
  BY DEF OffsetsOf
<1>2. /\ ms[5] = <<"e_entry", 8>> /\ ms[6] = <<"e_phoff", 8>>
      /\ ms[7] = <<"e_shoff", 8>> /\ ms[9] = <<"e_ehsize", 2>>
      /\ ms[10] = <<"e_phentsize", 2>> /\ ms[11] = <<"e_phnum", 2>>
      /\ ms[13] = <<"e_shnum", 2>> /\ ms[14] = <<"e_shstrndx", 2>>
  OBVIOUS
<1>3. /\ off[4] = 24 /\ off[5] = 32 /\ off[6] = 40 /\ off[8] = 52 /\ off[9] = 54
      /\ off[10] = 56 /\ off[12] = 60 /\ off[13] = 62 /\ off[14] = 64
  OBVIOUS
<1>4. Header64 = Struct(ms)
  BY DEF Header64
<1> HIDE DEF ms, off
<1>5. /\ Header64.size = off[14]
      /\ \A k \in 1..14 : IsMember(Header64, ms[k][1], off[k-1], ms[k][2])
  BY <1>1, <1>4, StructIs DEF IsMember
<1>6. /\ IsMember(Header64, ms[5][1], off[5-1], ms[5][2])
      /\ IsMember(Header64, ms[6][1], off[6-1], ms[6][2])
      /\ IsMember(Header64, ms[7][1], off[7-1], ms[7][2])
      /\ IsMember(Header64, ms[9][1], off[9-1], ms[9][2])
      /\ IsMember(Header64, ms[10][1], off[10-1], ms[10][2])
      /\ IsMember(Header64, ms[11][1], off[11-1], ms[11][2])
      /\ IsMember(Header64, ms[13][1], off[13-1], ms[13][2])
      /\ IsMember(Header64, ms[14][1], off[14-1], ms[14][2])
  BY <1>5
<1>7. /\ IsMember(Header64, "e_entry", 24, 8)
      /\ IsMember(Header64, "e_phoff", 32, 8)
      /\ IsMember(Header64, "e_shoff", 40, 8)
      /\ IsMember(Header64, "e_ehsize", 52, 2)
      /\ IsMember(Header64, "e_phentsize", 54, 2)
      /\ IsMember(Header64, "e_phnum", 56, 2)
      /\ IsMember(Header64, "e_shnum", 60, 2)
      /\ IsMember(Header64, "e_shstrndx", 62, 2)
  BY <1>2, <1>3, <1>6
<1>8. Layout(class, "ehdr") =
        {<<"e_entry", 24, 8>>, <<"e_phoff", 32, 8>>, <<"e_shoff", 40, 8>>,
         <<"e_ehsize", 52, 2>>, <<"e_phentsize", 54, 2>>, <<"e_phnum", 56, 2>>,
         <<"e_shnum", 60, 2>>, <<"e_shstrndx", 62, 2>>}
  BY DEF Layout
<1>9. SizeOf(class, "ehdr") = 64
  BY DEF SizeOf
<1> QED BY <1>3, <1>5, <1>7, <1>8, <1>9

(* The section header of a 64-bit file.                                    *)
LEMMA Shdr64Is ==
  ASSUME NEW class, class # 1
  PROVE  /\ Shdr64.size = SizeOf(class, "shdr")
         /\ \A l \in Layout(class, "shdr") : IsMember(Shdr64, l[1], l[2], l[3])
<1> DEFINE ms == <<<<"sh_name", 4>>, <<"sh_type", 4>>, <<"sh_flags", 8>>,
                  <<"sh_addr", 8>>, <<"sh_offset", 8>>, <<"sh_size", 8>>,
                  <<"sh_link", 4>>, <<"sh_info", 4>>, <<"sh_addralign", 8>>,
                  <<"sh_entsize", 8>> >>
           offsets == <<0, 4, 8, 16, 24, 32, 40, 44, 48, 56, 64>>
           off == [k \in 0..10 |-> offsets[k+1]]
<1>1. OffsetsOf(ms, off, 10)
  BY DEF OffsetsOf
<1>2. /\ ms[1] = <<"sh_name", 4>> /\ ms[2] = <<"sh_type", 4>>
      /\ ms[3] = <<"sh_flags", 8>> /\ ms[4] = <<"sh_addr", 8>>
      /\ ms[5] = <<"sh_offset", 8>> /\ ms[6] = <<"sh_size", 8>>
  OBVIOUS
<1>3. /\ off[0] = 0 /\ off[1] = 4 /\ off[2] = 8 /\ off[3] = 16 /\ off[4] = 24
      /\ off[5] = 32 /\ off[10] = 64
  OBVIOUS
<1>4. Shdr64 = Struct(ms)
  BY DEF Shdr64
<1> HIDE DEF ms, off
<1>5. /\ Shdr64.size = off[10]
      /\ \A k \in 1..10 : IsMember(Shdr64, ms[k][1], off[k-1], ms[k][2])
  BY <1>1, <1>4, StructIs DEF IsMember
<1>6. /\ IsMember(Shdr64, ms[1][1], off[1-1], ms[1][2])
      /\ IsMember(Shdr64, ms[2][1], off[2-1], ms[2][2])
      /\ IsMember(Shdr64, ms[3][1], off[3-1], ms[3][2])
      /\ IsMember(Shdr64, ms[4][1], off[4-1], ms[4][2])
      /\ IsMember(Shdr64, ms[5][1], off[5-1], ms[5][2])
      /\ IsMember(Shdr64, ms[6][1], off[6-1], ms[6][2])
  BY <1>5
<1>7. /\ IsMember(Shdr64, "sh_name", 0, 4)
      /\ IsMember(Shdr64, "sh_type", 4, 4)
      /\ IsMember(Shdr64, "sh_flags", 8, 8)
      /\ IsMember(Shdr64, "sh_addr", 16, 8)
      /\ IsMember(Shdr64, "sh_offset", 24, 8)
      /\ IsMember(Shdr64, "sh_size", 32, 8)
  BY <1>2, <1>3, <1>6
<1>8. Layout(class, "shdr") =
        {<<"sh_name", 0, 4>>, <<"sh_type", 4, 4>>, <<"sh_flags", 8, 8>>, <<"sh_addr", 16, 8>>,
         <<"sh_offset", 24, 8>>, <<"sh_size", 32, 8>>}
  BY DEF Layout
<1>9. SizeOf(class, "shdr") = 64
  BY DEF SizeOf
<1> QED BY <1>3, <1>5, <1>7, <1>8, <1>9

(* The program header of a 64-bit file.                                    *)
LEMMA Phdr64Is ==
  ASSUME NEW class, class # 1
  PROVE  /\ Phdr64.size = SizeOf(class, "phdr")
         /\ \A l \in Layout(class, "phdr") : IsMember(Phdr64, l[1], l[2], l[3])
<1> DEFINE ms == <<<<"p_type", 4>>, <<"p_flags", 4>>, <<"p_offset", 8>>,
                  <<"p_vaddr", 8>>, <<"p_paddr", 8>>, <<"p_filesz", 8>>,
                  <<"p_memsz", 8>>, <<"p_align", 8>> >>
           offsets == <<0, 4, 8, 16, 24, 32, 40, 48, 56>>
           off == [k \in 0..8 |-> offsets[k+1]]
<1>1. OffsetsOf(ms, off, 8)
  BY DEF OffsetsOf
<1>2. /\ ms[1] = <<"p_type", 4>> /\ ms[3] = <<"p_offset", 8>>
      /\ ms[4] = <<"p_vaddr", 8>> /\ ms[5] = <<"p_paddr", 8>>
      /\ ms[6] = <<"p_filesz", 8>> /\ ms[7] = <<"p_memsz", 8>>
      /\ ms[2] = <<"p_flags", 4>>
  OBVIOUS
<1>3. /\ off[0] = 0 /\ off[2] = 8 /\ off[3] = 16 /\ off[4] = 24 /\ off[5] = 32
      /\ off[6] = 40 /\ off[1] = 4 /\ off[8] = 56
  OBVIOUS
<1>4. Phdr64 = Struct(ms)
  BY DEF Phdr64
<1> HIDE DEF ms, off
<1>5. /\ Phdr64.size = off[8]
      /\ \A k \in 1..8 : IsMember(Phdr64, ms[k][1], off[k-1], ms[k][2])
  BY <1>1, <1>4, StructIs DEF IsMember
<1>6. /\ IsMember(Phdr64, ms[1][1], off[1-1], ms[1][2])
      /\ IsMember(Phdr64, ms[3][1], off[3-1], ms[3][2])
      /\ IsMember(Phdr64, ms[4][1], off[4-1], ms[4][2])
      /\ IsMember(Phdr64, ms[5][1], off[5-1], ms[5][2])
      /\ IsMember(Phdr64, ms[6][1], off[6-1], ms[6][2])
      /\ IsMember(Phdr64, ms[7][1], off[7-1], ms[7][2])
      /\ IsMember(Phdr64, ms[2][1], off[2-1], ms[2][2])
  BY <1>5
<1>7. /\ IsMember(Phdr64, "p_type", 0, 4)
      /\ IsMember(Phdr64, "p_offset", 8, 8)
      /\ IsMember(Phdr64, "p_vaddr", 16, 8)
      /\ IsMember(Phdr64, "p_paddr", 24, 8)
      /\ IsMember(Phdr64, "p_filesz", 32, 8)
      /\ IsMember(Phdr64, "p_memsz", 40, 8)
      /\ IsMember(Phdr64, "p_flags", 4, 4)
  BY <1>2, <1>3, <1>6
<1>8. Layout(class, "phdr") =
        {<<"p_type", 0, 4>>, <<"p_offset", 8, 8>>, <<"p_vaddr", 16, 8>>, <<"p_paddr", 24, 8>>,
         <<"p_filesz", 32, 8>>, <<"p_memsz", 40, 8>>, <<"p_flags", 4, 4>>}
  BY DEF Layout
<1>9. SizeOf(class, "phdr") = 56
  BY DEF SizeOf
<1> QED BY <1>3, <1>5, <1>7, <1>8, <1>9

(* The structs of elf32.h and elf64.h, as the compiler lays them out, have *)
(* every member where the ELF standard puts it.                            *)
THEOREM StructsAreElf ==
  ASSUME NEW class \in Classes
  PROVE  /\ class = 1 => /\ \A l \in Layout(class, "ehdr") : IsMember(Header32, l[1], l[2], l[3])
                         /\ \A l \in Layout(class, "phdr") : IsMember(Phdr32, l[1], l[2], l[3])
                         /\ \A l \in Layout(class, "shdr") : IsMember(Shdr32, l[1], l[2], l[3])
                         /\ Phdr32.size = SizeOf(class, "phdr") /\ Shdr32.size = SizeOf(class, "shdr")
         /\ class # 1 => /\ \A l \in Layout(class, "ehdr") : IsMember(Header64, l[1], l[2], l[3])
                         /\ \A l \in Layout(class, "phdr") : IsMember(Phdr64, l[1], l[2], l[3])
                         /\ \A l \in Layout(class, "shdr") : IsMember(Shdr64, l[1], l[2], l[3])
                         /\ Phdr64.size = SizeOf(class, "phdr") /\ Shdr64.size = SizeOf(class, "shdr")
<1>1. CASE class = 1
  BY <1>1, Header32Is, Phdr32Is, Shdr32Is
<1>2. CASE class # 1
  BY <1>2, Header64Is, Phdr64Is, Shdr64Is
<1> QED BY <1>1, <1>2

(* A file whose numbers fit in their members, but for those nobody reads.  *)
Skipped == {"e_ehsize", "e_phentsize", "e_shentsize"}
Filled(elf) ==
  \A s \in Structs : \A n \in StructNumbers(elf, s) : \A l \in Layout(elf.class, s) :
    /\ l[1] \in DOMAIN ValuesOf(elf, s, n)
    /\ l[1] \notin Skipped => FitsIn(ValuesOf(elf, s, n)[l[1]], l[3])
IsFilled(elf) == HasTables(elf) /\ Filled(elf)

(* A member of a struct is its value, where the file is on a 4-byte        *)
(* boundary.                                                               *)
LEMMA FieldLoaded ==
  ASSUME NEW elf, IsFilled(elf), NEW base \in Nat, base % 4 = 0,
         NEW s \in Structs, NEW n \in StructNumbers(elf, s), NEW l \in Layout(elf.class, s),
         l[1] \notin Skipped
  PROVE  LET a == base + StartOf(elf, s, n) + l[2]
             v == ValuesOf(elf, s, n)[l[1]]
             file == File(elf, base)
         IN /\ l[3] # 8 => Load(file, a, l[3]) = v
            /\ l[3] = 8 => Read64(file, a) = v
            /\ elf.class # 1 /\ base % 8 = 0 => Load(file, a, l[3]) = v
<1> DEFINE b == StartOf(elf, s, n)
           a == base + b + l[2]
           v == ValuesOf(elf, s, n)[l[1]]
           m == <<b + l[2], l[3], v>>
           file == File(elf, base)
<1>1. HasTables(elf) /\ elf.class \in Classes
  BY DEF IsFilled, HasTables
<1>2. LiesIn(elf, m, s, n, l) /\ FitsIn(v, l[3])
  BY DEF IsFilled, Filled, LiesIn
<1>3. m \in Members(elf)
  BY <1>2, MembersAre
<1>4. /\ l[2] \in Nat /\ l[2] % 2 = 0 /\ l[3] \in {2, 4, 8}
      /\ (l[3] # 2 => l[2] % 4 = 0) /\ (l[3] = 8 => l[2] % 8 = 0)
  BY <1>1, LayoutsApart DEF LaidOut
<1>5. b \in Nat /\ b % 4 = 0 /\ (elf.class # 1 => b % 8 = 0)
  BY <1>1, StructsApart, StructsAligned
<1>6. m[1] = b + l[2] /\ m[2] = l[3] /\ m[3] = v
  OBVIOUS
<1> HIDE DEF b, v, m, file
<1>7. base + m[1] = a
  BY <1>4, <1>5, <1>6
<1>8. /\ l[3] = 2 /\ a % 2 = 0 => Load(file, a, 2) = v
      /\ l[3] = 4 /\ a % 4 = 0 => Load(file, a, 4) = v
      /\ l[3] = 8 /\ a % 4 = 0 => Read64(file, a) = v
      /\ l[3] = 8 /\ a % 8 = 0 => Load(file, a, 8) = v
  BY <1>1, <1>2, <1>3, <1>6, <1>7, MemberLoaded DEF file
<1>9. a % 2 = 0
  <2>1. \A x, y, z \in Nat : x % 4 = 0 /\ y % 4 = 0 /\ z % 2 = 0 => (x + y + z) % 2 = 0
    OBVIOUS
  <2> QED BY <1>4, <1>5, <2>1
<1>10. l[3] # 2 => a % 4 = 0
  <2>1. \A x, y, z \in Nat : x % 4 = 0 /\ y % 4 = 0 /\ z % 4 = 0 => (x + y + z) % 4 = 0
    OBVIOUS
  <2> QED BY <1>4, <1>5, <2>1
<1>11. l[3] = 8 /\ elf.class # 1 /\ base % 8 = 0 => a % 8 = 0
  <2>1. \A x, y, z \in Nat : x % 8 = 0 /\ y % 8 = 0 /\ z % 8 = 0 => (x + y + z) % 8 = 0
    OBVIOUS
  <2> QED BY <1>4, <1>5, <2>1
<1> HIDE DEF a
<1>12. l[3] # 8 => Load(file, a, l[3]) = v
  BY <1>4, <1>8, <1>9, <1>10
<1>13. l[3] = 8 => Read64(file, a) = v
  BY <1>8, <1>10
<1>14. elf.class # 1 /\ base % 8 = 0 => Load(file, a, l[3]) = v
  BY <1>4, <1>8, <1>11, <1>12
<1> QED BY <1>12, <1>13, <1>14 DEF a, b, v, file

(* Magic and class are found where the file starts.                        *)
LEMMA IdentRead ==
  ASSUME NEW elf, HasTables(elf), NEW base \in Nat, base % 4 = 0
  PROVE  LET file == File(elf, base)
         IN (IsMagic(file) <=> elf.magic) /\ Class(file) = elf.class /\ file.base = base
<1> DEFINE file == File(elf, base)
           m0 == <<0, 2, IF elf.magic THEN 1 ELSE 0>>
           m1 == <<2, 2, 2>>
           m2 == <<4, 2, elf.class>>
<1>1. m0 \in Members(elf) /\ m1 \in Members(elf) /\ m2 \in Members(elf)
  <2>1. m0 \in Ident(elf) /\ m1 \in Ident(elf) /\ m2 \in Ident(elf)
    BY DEF Ident
  <2> HIDE DEF m0, m1, m2
  <2> QED BY <2>1, MembersAre
<1>2. elf.class \in Classes
  BY DEF HasTables
<1>3. FitsIn(m0[3], 2) /\ FitsIn(m1[3], 2) /\ FitsIn(m2[3], 2)
  BY <1>2, UnitAssumption DEF FitsIn, Classes
<1>4. m0[1] = 0 /\ m0[2] = 2 /\ m1[1] = 2 /\ m1[2] = 2 /\ m2[1] = 4 /\ m2[2] = 2
      /\ m0[3] = (IF elf.magic THEN 1 ELSE 0) /\ m1[3] = 2 /\ m2[3] = elf.class
  OBVIOUS
<1>5. (base + 0) % 2 = 0 /\ (base + 2) % 2 = 0 /\ (base + 4) % 2 = 0 /\ base + 0 = base
  OBVIOUS
<1> HIDE DEF m0, m1, m2
<1>6. ASSUME NEW m \in Members(elf), m[2] = 2, FitsIn(m[3], 2), (base + m[1]) % 2 = 0
      PROVE  Load(file, base + m[1], 2) = m[3]
  BY <1>6, MemberLoaded
<1> HIDE DEF file
<1>7. Load(file, base + 0, 2) = m0[3]
  BY <1>1, <1>3, <1>4, <1>5, <1>6
<1>8. Load(file, base + 2, 2) = m1[3]
  BY <1>1, <1>3, <1>4, <1>5, <1>6
<1>9. Load(file, base + 4, 2) = m2[3]
  BY <1>1, <1>3, <1>4, <1>5, <1>6
<1>10. file.base = base
  BY DEF file, File
<1>11. IsMagic(file) <=> elf.magic
  BY <1>4, <1>5, <1>7, <1>8, <1>10 DEF IsMagic, ElfMagic01, ElfMagic23
<1>12. Class(file) = elf.class
  BY <1>4, <1>9, <1>10 DEF Class
<1> QED BY <1>10, <1>11, <1>12 DEF file

(* The members of a struct whose address is known, through either class's  *)
(* struct.                                                                 *)
LEMMA FieldRead ==
  ASSUME NEW elf, IsFilled(elf), NEW base \in Nat, base % 4 = 0,
         NEW s \in Structs, NEW n \in StructNumbers(elf, s), NEW l \in Layout(elf.class, s),
         l[1] \notin Skipped, NEW struct, IsMember(struct, l[1], l[2], l[3]),
         NEW at, at = base + StartOf(elf, s, n)
  PROVE  LET v == ValuesOf(elf, s, n)[l[1]]
             file == File(elf, base)
         IN /\ l[3] # 8 => Field(file, at, struct, l[1]) = v
            /\ l[3] = 8 => Read64(file, at + struct.at[l[1]]) = v
            /\ elf.class # 1 /\ base % 8 = 0 => Field(file, at, struct, l[1]) = v
<1>1. struct.at[l[1]] = l[2] /\ struct.bytes[l[1]] = l[3]
  BY DEF IsMember
<1> QED BY <1>1, FieldLoaded DEF Field

(* What the header of a file says of it, in each class; the 64-bit section *)
(* functions need an 8-byte boundary.                                      *)
LEMMA HeaderRead ==
  ASSUME NEW elf, IsFilled(elf), NEW base \in Nat, base % 4 = 0
  PROVE  LET file == File(elf, base)
         IN /\ elf.class = 1 =>
                 /\ Field(file, base, Header32, "e_entry") = elf.entry
                 /\ Field(file, base, Header32, "e_phoff") = PhdrAt(elf, 1)
                 /\ Field(file, base, Header32, "e_shoff") = ShdrAt(elf, 1)
                 /\ Field(file, base, Header32, "e_phnum") = Len(elf.segments)
                 /\ Field(file, base, Header32, "e_shnum") = Len(elf.sections)
                 /\ Field(file, base, Header32, "e_shstrndx") = elf.shstrndx
            /\ elf.class # 1 =>
                 /\ Read64(file, base + Header64.at["e_entry"]) = elf.entry
                 /\ Read64(file, base + Header64.at["e_phoff"]) = PhdrAt(elf, 1)
                 /\ Field(file, base, Header64, "e_phnum") = Len(elf.segments)
                 /\ Field(file, base, Header64, "e_shnum") = Len(elf.sections)
                 /\ Field(file, base, Header64, "e_shstrndx") = elf.shstrndx
                 /\ base % 8 = 0 => /\ Field(file, base, Header64, "e_phoff") = PhdrAt(elf, 1)
                                    /\ Field(file, base, Header64, "e_shoff") = ShdrAt(elf, 1)
<1> DEFINE file == File(elf, base)
           V(name) == HeaderOf(elf)[name]
<1>1. "ehdr" \in Structs /\ 1 \in StructNumbers(elf, "ehdr") /\ elf.class \in Classes
  BY DEF Structs, StructNumbers, IsFilled, HasTables
<1>2. base = base + StartOf(elf, "ehdr", 1) /\ ValuesOf(elf, "ehdr", 1) = HeaderOf(elf)
  BY DEF StartOf, ValuesOf
<1>3. /\ V("e_entry") = elf.entry /\ V("e_phoff") = PhdrAt(elf, 1) /\ V("e_shoff") = ShdrAt(elf, 1)
      /\ V("e_phnum") = Len(elf.segments) /\ V("e_shnum") = Len(elf.sections)
      /\ V("e_shstrndx") = elf.shstrndx
  BY DEF HeaderOf
<1> DEFINE Read(struct, name, size) ==
             /\ size # 8 => Field(file, base, struct, name) = V(name)
             /\ size = 8 => Read64(file, base + struct.at[name]) = V(name)
             /\ elf.class # 1 /\ base % 8 = 0 => Field(file, base, struct, name) = V(name)
<1>4. ASSUME NEW struct, NEW l \in Layout(elf.class, "ehdr"), IsMember(struct, l[1], l[2], l[3]),
             l[1] \notin Skipped
      PROVE  Read(struct, l[1], l[3])
  BY <1>1, <1>2, <1>4, FieldRead
<1> HIDE DEF Read
<1>5. CASE elf.class = 1
  <2>1. \A l \in Layout(elf.class, "ehdr") : l[1] \notin Skipped => Read(Header32, l[1], l[3])
    BY <1>1, <1>4, <1>5, StructsAreElf
  <2>2. {<<"e_entry", 24, 4>>, <<"e_phoff", 28, 4>>, <<"e_shoff", 32, 4>>, <<"e_phnum", 44, 2>>,
         <<"e_shnum", 48, 2>>, <<"e_shstrndx", 50, 2>>} \subseteq Layout(elf.class, "ehdr")
    BY <1>5 DEF Layout
  <2>3. /\ Read(Header32, "e_entry", 4) /\ Read(Header32, "e_phoff", 4) /\ Read(Header32, "e_shoff", 4)
        /\ Read(Header32, "e_phnum", 2) /\ Read(Header32, "e_shnum", 2)
        /\ Read(Header32, "e_shstrndx", 2)
    BY <2>1, <2>2 DEF Skipped
  <2> HIDE DEF V, file
  <2>4. /\ Field(file, base, Header32, "e_entry") = V("e_entry")
        /\ Field(file, base, Header32, "e_phoff") = V("e_phoff")
        /\ Field(file, base, Header32, "e_shoff") = V("e_shoff")
        /\ Field(file, base, Header32, "e_phnum") = V("e_phnum")
        /\ Field(file, base, Header32, "e_shnum") = V("e_shnum")
        /\ Field(file, base, Header32, "e_shstrndx") = V("e_shstrndx")
    BY <2>3 DEF Read
  <2> QED BY <1>3, <1>5, <2>4 DEF file
<1>6. CASE elf.class # 1
  <2>1. \A l \in Layout(elf.class, "ehdr") : l[1] \notin Skipped => Read(Header64, l[1], l[3])
    BY <1>1, <1>4, <1>6, StructsAreElf
  <2>2. {<<"e_entry", 24, 8>>, <<"e_phoff", 32, 8>>, <<"e_shoff", 40, 8>>, <<"e_phnum", 56, 2>>,
         <<"e_shnum", 60, 2>>, <<"e_shstrndx", 62, 2>>} \subseteq Layout(elf.class, "ehdr")
    BY <1>6 DEF Layout
  <2>3. /\ Read(Header64, "e_entry", 8) /\ Read(Header64, "e_phoff", 8) /\ Read(Header64, "e_shoff", 8)
        /\ Read(Header64, "e_phnum", 2) /\ Read(Header64, "e_shnum", 2)
        /\ Read(Header64, "e_shstrndx", 2)
    BY <2>1, <2>2 DEF Skipped
  <2> HIDE DEF V, file
  <2>4. /\ Read64(file, base + Header64.at["e_entry"]) = V("e_entry")
        /\ Read64(file, base + Header64.at["e_phoff"]) = V("e_phoff")
        /\ Field(file, base, Header64, "e_phnum") = V("e_phnum")
        /\ Field(file, base, Header64, "e_shnum") = V("e_shnum")
        /\ Field(file, base, Header64, "e_shstrndx") = V("e_shstrndx")
        /\ base % 8 = 0 => /\ Field(file, base, Header64, "e_phoff") = V("e_phoff")
                           /\ Field(file, base, Header64, "e_shoff") = V("e_shoff")
    BY <1>6, <2>3 DEF Read
  <2> QED BY <1>3, <1>6, <2>4 DEF file
<1> QED BY <1>5, <1>6

(* The numbers of program headers and the entry point, and each field of   *)
(* each program header, are those the linker wrote, in files of either     *)
(* class with any number of segments, on a 4-byte boundary of memory as    *)
(* an archive leaves them (elf_checkFile() elf.c:91,                       *)
(* elf_getProgramHeaderInfo() elf.c:244).                                  *)
THEOREM HeadersRead ==
  ASSUME NEW elf, IsFilled(elf), elf.class # 3, elf.magic, NEW base \in Nat, base % 4 = 0
  PROVE  LET file == File(elf, base)
         IN /\ CheckFile(file) = 0 /\ NumProgramHeaders(file) = Len(elf.segments)
            /\ EntryPoint(file) = elf.entry
            /\ \A n \in DOMAIN elf.segments : \A l \in Layout(elf.class, "phdr") :
                 ProgramHeader(file, n - 1, l[1]) = elf.segments[n][l[1]]
<1> DEFINE file == File(elf, base)
           start == base + PhdrAt(elf, 1)
           size == SizeOf(elf.class, "phdr")
<1>1. IsMagic(file) /\ Class(file) = elf.class /\ file.base = base /\ elf.class \in {1, 2}
  <2>1. HasTables(elf) /\ elf.class \in Classes
    BY DEF IsFilled, HasTables
  <2> QED BY <2>1, IdentRead DEF Classes
<1>2. ASSUME NEW n \in DOMAIN elf.segments
      PROVE  /\ n - 1 \in Int /\ "phdr" \in Structs /\ n \in StructNumbers(elf, "phdr")
             /\ start + (n - 1) * size = base + StartOf(elf, "phdr", n)
             /\ ValuesOf(elf, "phdr", n) = elf.segments[n]
  <2>1. "phdr" \in Structs /\ n \in StructNumbers(elf, "phdr") /\ HasTables(elf)
    BY DEF Structs, StructNumbers, IsFilled
  <2>2. /\ n \in Nat \ {0} /\ size \in Nat \ {0} /\ StartOf(elf, "phdr", 1) \in Nat
        /\ StartOf(elf, "phdr", n) = StartOf(elf, "phdr", 1) + size * (n - 1)
        /\ size * (n - 1) \in Nat
    BY <2>1, InTable
  <2>3. StartOf(elf, "phdr", 1) = PhdrAt(elf, 1)
    BY DEF StartOf
  <2>4. (n - 1) * size = size * (n - 1)
    <3>1. \A x, y \in Nat : x * y = y * x
      OBVIOUS
    <3>2. n - 1 \in Nat
      BY <2>2
    <3> QED BY <2>2, <3>1, <3>2
  <2>5. ValuesOf(elf, "phdr", n) = elf.segments[n]
    BY DEF ValuesOf
  <2> HIDE DEF size
  <2> QED BY <2>1, <2>2, <2>3, <2>4, <2>5
<1> HIDE DEF start
<1> DEFINE Read(struct, at, name, bytes, v) ==
             /\ bytes # 8 => Field(file, at, struct, name) = v
             /\ bytes = 8 => Read64(file, at + struct.at[name]) = v
<1>3. ASSUME NEW n \in DOMAIN elf.segments, NEW l \in Layout(elf.class, "phdr"), l[1] \notin Skipped,
             NEW struct, IsMember(struct, l[1], l[2], l[3])
      PROVE  Read(struct, start + (n - 1) * size, l[1], l[3], elf.segments[n][l[1]])
  <2> DEFINE at == start + (n - 1) * size
  <2> HIDE DEF size
  <2>1. at = base + StartOf(elf, "phdr", n) /\ "phdr" \in Structs /\ n \in StructNumbers(elf, "phdr")
        /\ ValuesOf(elf, "phdr", n) = elf.segments[n]
    BY <1>2
  <2> HIDE DEF at
  <2>2. Read(struct, at, l[1], l[3], ValuesOf(elf, "phdr", n)[l[1]])
    BY <1>3, <2>1, FieldRead
  <2> QED BY <2>1, <2>2 DEF at
<1> HIDE DEF file, Read
<1>4. CASE elf.class = 1
  <2>1. IsElf32(file)
    BY <1>1, <1>4 DEF IsElf32, ElfClass32
  <2>2. CheckFile(file) = 0
    BY <1>1, <1>4, <2>1 DEF CheckFile, CheckFile32, ElfClass32
  <2>3. NumProgramHeaders(file) = Len(elf.segments) /\ EntryPoint(file) = elf.entry
    BY <1>1, <1>4, <2>1, HeaderRead
       DEF NumProgramHeaders, NumProgramHeaders32, EntryPoint, EntryPoint32, file
  <2>4. ProgramHeaderTable32(file) = start
    BY <1>1, <1>4, HeaderRead DEF ProgramHeaderTable32, file, start
  <2>5. Phdr32.size = size /\ elf.class \in Classes
    BY <1>1, <1>4, StructsAreElf DEF Classes
  <2>6. ASSUME NEW n \in DOMAIN elf.segments, NEW l \in Layout(elf.class, "phdr")
        PROVE  ProgramHeader(file, n - 1, l[1]) = elf.segments[n][l[1]]
    <3>1. ProgramHeader(file, n - 1, l[1]) = Field(file, start + (n - 1) * size, Phdr32, l[1])
      BY <2>1, <2>4, <2>5 DEF ProgramHeader, ProgramHeaderField32
    <3>2. l[3] # 8 /\ l[1] \notin Skipped
      BY <1>4 DEF Layout, Skipped
    <3>3. IsMember(Phdr32, l[1], l[2], l[3])
      BY <1>4, <2>5, StructsAreElf
    <3> HIDE DEF size
    <3>4. Read(Phdr32, start + (n - 1) * size, l[1], l[3], elf.segments[n][l[1]])
      BY <1>3, <3>2, <3>3
    <3> QED BY <3>1, <3>2, <3>4 DEF Read
  <2> QED BY <2>2, <2>3, <2>6 DEF file
<1>5. CASE elf.class = 2
  <2>1. ~IsElf32(file)
    BY <1>1, <1>5 DEF IsElf32, ElfClass32
  <2>2. CheckFile(file) = 0
    BY <1>1, <1>5, <2>1 DEF CheckFile, CheckFile64, ElfClass64
  <2>3. NumProgramHeaders(file) = Len(elf.segments) /\ EntryPoint(file) = elf.entry
    BY <1>1, <1>5, <2>1, HeaderRead
       DEF NumProgramHeaders, NumProgramHeaders64, EntryPoint, EntryPoint64, file
  <2>4. ProgramHeaderTable64(file) = start
    BY <1>1, <1>5, HeaderRead DEF ProgramHeaderTable64, file, start
  <2>5. Phdr64.size = size /\ elf.class \in Classes
    BY <1>1, <1>5, StructsAreElf DEF Classes
  <2>6. ASSUME NEW n \in DOMAIN elf.segments, NEW l \in Layout(elf.class, "phdr")
        PROVE  ProgramHeader(file, n - 1, l[1]) = elf.segments[n][l[1]]
    <3> DEFINE at == start + (n - 1) * size
    <3>1. ProgramHeader(file, n - 1, l[1]) =
            IF l[1] \in {"p_flags", "p_type"} THEN Field(file, at, Phdr64, l[1])
            ELSE Read64(file, at + Phdr64.at[l[1]])
      BY <2>1, <2>4, <2>5 DEF ProgramHeader, ProgramHeaderField64
    <3>2. (l[1] \in {"p_flags", "p_type"} => l[3] # 8) /\ (l[1] \notin {"p_flags", "p_type"} => l[3] = 8)
          /\ l[1] \notin Skipped
      BY <1>5 DEF Layout, Skipped
    <3>3. IsMember(Phdr64, l[1], l[2], l[3])
      BY <1>5, <2>5, StructsAreElf
    <3> HIDE DEF size
    <3>4. Read(Phdr64, at, l[1], l[3], elf.segments[n][l[1]])
      BY <1>3, <3>2, <3>3
    <3> HIDE DEF at
    <3> QED BY <3>1, <3>2, <3>4 DEF Read
  <2> QED BY <2>2, <2>3, <2>6 DEF file
<1> QED BY <1>1, <1>4, <1>5

(* A section header's field, and a program header's as elf_getSegment...() *)
(* take it, by class.                                                      *)
SectionField(file, s, name) ==
  IF IsElf32(file) THEN SectionField32(file, s, name) ELSE SectionField64(file, s, name)
SegmentField(file, s, name) ==
  IF IsElf32(file) THEN SegmentField32(file, s, name) ELSE SegmentField64(file, s, name)
StringSection(file) ==
  IF IsElf32(file) THEN Field(file, file.base, Header32, "e_shstrndx")
  ELSE Field(file, file.base, Header64, "e_shstrndx")

(* The structs of the two tables, each at its place.                       *)
LEMMA TablesRead ==
  ASSUME NEW elf, IsFilled(elf), NEW base \in Nat, base % 4 = 0,
         NEW s \in {"phdr", "shdr"}, NEW n \in StructNumbers(elf, s),
         NEW l \in Layout(elf.class, s), NEW struct, IsMember(struct, l[1], l[2], l[3]),
         elf.class = 1 \/ base % 8 = 0
  PROVE  Field(File(elf, base), (base + StartOf(elf, s, 1)) + (n - 1) * SizeOf(elf.class, s), struct, l[1])
           = ValuesOf(elf, s, n)[l[1]]
<1> DEFINE file == File(elf, base)
           size == SizeOf(elf.class, s)
           at == (base + StartOf(elf, s, 1)) + (n - 1) * size
<1>1. s \in Structs /\ HasTables(elf) /\ elf.class \in Classes
  BY DEF Structs, IsFilled, HasTables
<1>2. /\ n \in Nat \ {0} /\ size \in Nat \ {0} /\ StartOf(elf, s, 1) \in Nat
      /\ StartOf(elf, s, n) = StartOf(elf, s, 1) + size * (n - 1)
      /\ size * (n - 1) \in Nat
  BY <1>1, InTable
<1>3. at = base + StartOf(elf, s, n)
  <2>1. (n - 1) * size = size * (n - 1)
    <3>1. \A x, y \in Nat : x * y = y * x
      OBVIOUS
    <3>2. n - 1 \in Nat
      BY <1>2
    <3> HIDE DEF size
    <3> QED BY <1>2, <3>1, <3>2
  <2> HIDE DEF size
  <2> QED BY <1>2, <2>1
<1>4. l[1] \notin Skipped
  BY DEF Layout, Skipped
<1>5. elf.class = 1 => l[3] # 8
  BY DEF Layout
<1> DEFINE Read == /\ l[3] # 8 => Field(file, at, struct, l[1]) = ValuesOf(elf, s, n)[l[1]]
                   /\ elf.class # 1 /\ base % 8 = 0 =>
                        Field(file, at, struct, l[1]) = ValuesOf(elf, s, n)[l[1]]
<1> HIDE DEF at
<1>6. Read
  BY <1>1, <1>3, <1>4, FieldRead
<1> HIDE DEF file
<1>7. Field(file, at, struct, l[1]) = ValuesOf(elf, s, n)[l[1]]
  BY <1>5, <1>6
<1> QED BY <1>7 DEF file, at

(* The section headers are those the linker wrote, and the program headers *)
(* once more by elf_getSegment...(), in 32-bit files on a 4-byte and in    *)
(* 64-bit files on an 8-byte boundary (elf32.h, elf64.h).                  *)
THEOREM SectionHeadersRead ==
  ASSUME NEW elf, IsFilled(elf), elf.class # 3, elf.magic, NEW base \in Nat, base % 4 = 0,
         elf.class = 1 \/ base % 8 = 0
  PROVE  LET file == File(elf, base)
         IN /\ NumSections(file) = Len(elf.sections) /\ StringSection(file) = elf.shstrndx
            /\ \A n \in DOMAIN elf.sections : \A l \in Layout(elf.class, "shdr") :
                 SectionField(file, n - 1, l[1]) = elf.sections[n][l[1]]
            /\ \A n \in DOMAIN elf.segments : \A l \in Layout(elf.class, "phdr") :
                 SegmentField(file, n - 1, l[1]) = elf.segments[n][l[1]]
<1> DEFINE file == File(elf, base)
           Table(s, struct) == \A n \in StructNumbers(elf, s) : \A l \in Layout(elf.class, s) :
             Field(file, (base + StartOf(elf, s, 1)) + (n - 1) * SizeOf(elf.class, s), struct, l[1])
               = ValuesOf(elf, s, n)[l[1]]
<1>1. IsMagic(file) /\ Class(file) = elf.class /\ file.base = base /\ elf.class \in {1, 2}
  <2>1. HasTables(elf) /\ elf.class \in Classes
    BY DEF IsFilled, HasTables
  <2> QED BY <2>1, IdentRead DEF Classes
<1>2. ASSUME NEW s \in {"phdr", "shdr"}, NEW struct,
             \A l \in Layout(elf.class, s) : IsMember(struct, l[1], l[2], l[3])
      PROVE  Table(s, struct)
  BY <1>2, TablesRead
<1>3. /\ StructNumbers(elf, "phdr") = DOMAIN elf.segments
      /\ StructNumbers(elf, "shdr") = DOMAIN elf.sections
      /\ StartOf(elf, "phdr", 1) = PhdrAt(elf, 1) /\ StartOf(elf, "shdr", 1) = ShdrAt(elf, 1)
      /\ \A n : ValuesOf(elf, "phdr", n) = elf.segments[n] /\ ValuesOf(elf, "shdr", n) = elf.sections[n]
  BY DEF StructNumbers, StartOf, ValuesOf
<1>4. base + PhdrAt(elf, 1) = PhdrAt(elf, 1) + base
  <2>1. elf.class \in Classes
    BY DEF IsFilled, HasTables
  <2>2. PhdrAt(elf, 1) = IF elf.class = 1 THEN 52 ELSE 64
    BY <2>1, SizesAre DEF PhdrAt
  <2> QED BY <2>2
<1> HIDE DEF file
<1>5. CASE elf.class = 1
  <2>1. IsElf32(file)
    BY <1>1, <1>5 DEF IsElf32, ElfClass32
  <2>2. NumSections(file) = Len(elf.sections) /\ StringSection(file) = elf.shstrndx
    BY <1>1, <1>5, <2>1, HeaderRead DEF NumSections, NumSections32, StringSection, file
  <2>3. SectionTable32(file) = base + ShdrAt(elf, 1) /\ SegmentTable32(file) = base + PhdrAt(elf, 1)
    BY <1>1, <1>4, <1>5, HeaderRead DEF SectionTable32, SegmentTable32, file
  <2>4. /\ \A l \in Layout(elf.class, "phdr") : IsMember(Phdr32, l[1], l[2], l[3])
        /\ \A l \in Layout(elf.class, "shdr") : IsMember(Shdr32, l[1], l[2], l[3])
        /\ Phdr32.size = SizeOf(elf.class, "phdr") /\ Shdr32.size = SizeOf(elf.class, "shdr")
    BY <1>1, <1>5, StructsAreElf DEF Classes
  <2>5. Table("phdr", Phdr32) /\ Table("shdr", Shdr32)
    BY <1>2, <2>4
  <2>6. ASSUME NEW n \in DOMAIN elf.sections, NEW l \in Layout(elf.class, "shdr")
        PROVE  SectionField(file, n - 1, l[1]) = elf.sections[n][l[1]]
    BY <1>3, <2>1, <2>3, <2>4, <2>5 DEF SectionField, SectionField32
  <2>7. ASSUME NEW n \in DOMAIN elf.segments, NEW l \in Layout(elf.class, "phdr")
        PROVE  SegmentField(file, n - 1, l[1]) = elf.segments[n][l[1]]
    BY <1>3, <2>1, <2>3, <2>4, <2>5 DEF SegmentField, SegmentField32
  <2> QED BY <2>2, <2>6, <2>7 DEF file
<1>6. CASE elf.class = 2
  <2>1. ~IsElf32(file)
    BY <1>1, <1>6 DEF IsElf32, ElfClass32
  <2>2. NumSections(file) = Len(elf.sections) /\ StringSection(file) = elf.shstrndx
    BY <1>1, <1>6, <2>1, HeaderRead DEF NumSections, NumSections64, StringSection, file
  <2>3. SectionTable64(file) = base + ShdrAt(elf, 1) /\ SegmentTable64(file) = base + PhdrAt(elf, 1)
    BY <1>1, <1>4, <1>6, HeaderRead DEF SectionTable64, SegmentTable64, file
  <2>4. /\ \A l \in Layout(elf.class, "phdr") : IsMember(Phdr64, l[1], l[2], l[3])
        /\ \A l \in Layout(elf.class, "shdr") : IsMember(Shdr64, l[1], l[2], l[3])
        /\ Phdr64.size = SizeOf(elf.class, "phdr") /\ Shdr64.size = SizeOf(elf.class, "shdr")
    BY <1>1, <1>6, StructsAreElf DEF Classes
  <2>5. Table("phdr", Phdr64) /\ Table("shdr", Shdr64)
    BY <1>2, <2>4
  <2>6. ASSUME NEW n \in DOMAIN elf.sections, NEW l \in Layout(elf.class, "shdr")
        PROVE  SectionField(file, n - 1, l[1]) = elf.sections[n][l[1]]
    BY <1>3, <2>1, <2>3, <2>4, <2>5 DEF SectionField, SectionField64
  <2>7. ASSUME NEW n \in DOMAIN elf.segments, NEW l \in Layout(elf.class, "phdr")
        PROVE  SegmentField(file, n - 1, l[1]) = elf.segments[n][l[1]]
    BY <1>3, <2>1, <2>3, <2>4, <2>5 DEF SegmentField, SegmentField64
  <2> QED BY <2>2, <2>6, <2>7 DEF file
<1> QED BY <1>1, <1>5, <1>6

(* The files asked for: headers of any length that fit in their members,   *)
(* and segments that neither wrap nor are longer in the file than in       *)
(* memory.                                                                 *)
SegmentHeaders ==
  [p_type : Nat, p_flags : Nat, p_offset : Nat, p_vaddr : Nat, p_paddr : Nat, p_filesz : Nat, p_memsz : Nat]
SectionHeaders ==
  [sh_name : Nat, sh_type : Nat, sh_flags : Nat, sh_addr : Nat, sh_offset : Nat, sh_size : Nat]
Addresses == {"p_vaddr", "p_paddr"}
HasRoom(s) ==
  s.p_filesz <= s.p_memsz /\ \A address \in Addresses : s[address] + s.p_memsz < Word64
IsLinked(elf) ==
  /\ IsFilled(elf) /\ elf.magic \in BOOLEAN
  /\ elf.segments \in Seq(SegmentHeaders) /\ elf.sections \in Seq(SectionHeaders)
  /\ \A n \in DOMAIN elf.segments : HasRoom(elf.segments[n])

(* The numbers of the files asked for fit.                                 *)
LEMMA AskedFit ==
  ASSUME NEW class \in Classes, NEW x \in Nat
  PROVE  /\ High(class) \in Nat /\ (class = 1 => High(class) = 0)
         /\ x <= 4 => FitsIn(x, 2)
         /\ x <= 3019 => FitsIn(x, 4) /\ FitsIn(x, 8)
         /\ x <= High(class) + 3019 =>
              x < Word64 /\ FitsIn(x, 8) /\ (class = 1 => FitsIn(x, 4))
<1> DEFINE u2 == Unit * Unit
<1>1. Unit \in Nat \ {0} /\ u2 \in Nat /\ 3019 < u2
  <2>1. \A u \in Nat \ {0} : u > 54 => 3019 < u * u
    <3> SUFFICES ASSUME NEW u \in Nat \ {0}, u > 54 PROVE 3019 < u * u
      OBVIOUS
    <3>1. u * 55 <= u * u
      BY Times
    <3> QED BY <3>1
  <2> QED BY <2>1, UnitPowers, ElvesAssumption
<1>2. Unit > 4
  <2>1. SUFFICES ASSUME Unit \in 1..4 PROVE FALSE
    BY <1>1
  <2>2. Unit = 1 \/ Unit = 2 \/ Unit = 3 \/ Unit = 4
    BY <2>1
  <2> QED BY <1>1, <2>2
<1>3. Word64 = u2 * u2
  BY DEF Word64
<1>4. High(class) = IF class = 1 THEN 0 ELSE 3 * u2
  BY DEF High
<1> HIDE DEF u2
<1>5. 3020 * u2 <= u2 * u2
  <2>1. \A a, b, c \in Nat : a <= b => a * c <= b * c
    <3> SUFFICES ASSUME NEW a \in Nat, NEW b \in Nat, NEW c \in Nat, a <= b PROVE a * c <= b * c
      OBVIOUS
    <3>1. c * a <= c * b
      BY Times
    <3> QED BY <3>1
  <2>2. 3020 \in Nat /\ 3020 <= u2
    BY <1>1
  <2> QED BY <1>1, <2>1, <2>2
<1>6. 3 * u2 + 3019 < Word64 /\ 3019 < Word64 /\ Word64 \in Nat
  <2>1. Word64 \in Nat /\ 3020 * u2 <= Word64
    BY <1>3, <1>5, WordPositive
  <2> QED BY <1>1, <2>1
<1>7. High(class) \in Nat /\ (class = 1 => High(class) = 0) /\ High(class) <= 3 * u2
  BY <1>1, <1>4
<1>8. x <= 4 => FitsIn(x, 2)
  BY <1>1, <1>2 DEF FitsIn
<1>9. x <= 3019 => FitsIn(x, 4) /\ FitsIn(x, 8)
  <2>1. x <= 3019 => x < u2 /\ x < Word64
    BY <1>1, <1>6
  <2> QED BY <2>1 DEF FitsIn, u2
<1>10. x <= High(class) + 3019 => x < Word64
  BY <1>1, <1>6, <1>7
<1>11. x <= High(class) + 3019 => FitsIn(x, 8)
  BY <1>10 DEF FitsIn
<1>12. x <= High(class) + 3019 /\ class = 1 => FitsIn(x, 4)
  BY <1>7, <1>9
<1> QED BY <1>7, <1>8, <1>9, <1>10, <1>11, <1>12

(* The segments and sections asked for.                                    *)
AskedSegment(class, s) ==
  /\ s \in SegmentHeaders
  /\ s.p_type <= 3019 /\ s.p_flags <= 3019 /\ s.p_offset <= 3019
  /\ s.p_filesz <= s.p_memsz /\ s.p_memsz <= 9
  /\ s.p_vaddr + s.p_memsz <= High(class) + 3019 /\ s.p_paddr + s.p_memsz <= High(class) + 3019
AskedSection(class, s) ==
  /\ s \in SectionHeaders
  /\ s.sh_name <= 3019 /\ s.sh_type <= 3019 /\ s.sh_flags <= 3019 /\ s.sh_offset <= 3019
  /\ s.sh_size <= 3019 /\ s.sh_addr <= High(class) + 3019

(* The segments asked about are made of small numbers, above the class's   *)
(* first address.                                                          *)
LEMMA AskedSegments ==
  ASSUME NEW class \in Classes, NEW ss \in SegmentLists(class)
  PROVE  /\ ss \in Seq(SegmentHeaders) /\ Len(ss) <= 3
         /\ \A n \in DOMAIN ss : AskedSegment(class, ss[n])
<1> DEFINE hi == High(class)
           text == Seg(1, 5, 100, hi + 3000, hi + 500, 7, 7)
           data == Seg(1, 6, 300, hi + 3010, hi + 400, 3, 9)
           stack == Seg(7, 6, 0, 1, 2, 0, 0)
<1>1. hi \in Nat
  BY AskedFit
<1>2. AskedSegment(class, text)
  <2> HIDE DEF hi
  <2> QED BY <1>1 DEF AskedSegment, SegmentHeaders, Seg, hi
<1>3. AskedSegment(class, data)
  BY <1>1 DEF AskedSegment, SegmentHeaders, Seg
<1>4. AskedSegment(class, stack)
  BY <1>1 DEF AskedSegment, SegmentHeaders, Seg
<1>5. ss \in {<<>>, <<text>>, <<text, data>>, <<stack, data, text>>}
  BY DEF SegmentLists
<1> HIDE DEF text, data, stack
<1> DEFINE Hs == SegmentHeaders
<1>6. text \in Hs /\ data \in Hs /\ stack \in Hs
  BY <1>2, <1>3, <1>4 DEF AskedSegment
<1> HIDE DEF Hs
<1>7. ss \in Seq(Hs) /\ Len(ss) <= 3
  <2>1. <<>> \in Seq(Hs) /\ Len(<<>>) <= 3
    OBVIOUS
  <2>2. <<text>> \in Seq(Hs) /\ Len(<<text>>) <= 3
    BY <1>6
  <2>3. <<text, data>> \in Seq(Hs) /\ Len(<<text, data>>) <= 3
    BY <1>6
  <2>4. <<stack, data, text>> \in Seq(Hs) /\ Len(<<stack, data, text>>) <= 3
    BY <1>6
  <2> QED BY <1>5, <2>1, <2>2, <2>3, <2>4
<1>8. \A n \in DOMAIN ss : ss[n] \in {text, data, stack}
  BY <1>5
<1> QED BY <1>2, <1>3, <1>4, <1>7, <1>8 DEF Hs

(* And so are the sections.                                                *)
LEMMA AskedSections ==
  ASSUME NEW class \in Classes, NEW ss \in SectionLists(class)
  PROVE  /\ ss \in Seq(SectionHeaders) /\ Len(ss) \in 1..4
         /\ \A n \in DOMAIN ss : AskedSection(class, ss[n])
<1> DEFINE hi == High(class)
           null == Sec(0, 0, 0, 0, 0, 0)
           code == Sec(1, 1, 6, hi + 3000, 100, 7)
           names == Sec(9, 3, 0, 0, 700, 90)
<1>1. hi \in Nat
  BY AskedFit
<1>2. AskedSection(class, null)
  BY <1>1 DEF AskedSection, SectionHeaders, Sec
<1>3. AskedSection(class, code)
  BY <1>1 DEF AskedSection, SectionHeaders, Sec
<1>4. AskedSection(class, names)
  BY <1>1 DEF AskedSection, SectionHeaders, Sec
<1>5. ss \in {<<null>>, <<null, code, names, code>>}
  BY DEF SectionLists
<1> HIDE DEF null, code, names
<1> DEFINE Hs == SectionHeaders
<1>6. null \in Hs /\ code \in Hs /\ names \in Hs
  BY <1>2, <1>3, <1>4 DEF AskedSection
<1> HIDE DEF Hs
<1>7. ss \in Seq(Hs) /\ Len(ss) \in 1..4
  <2>1. <<null>> \in Seq(Hs) /\ Len(<<null>>) \in 1..4
    BY <1>6
  <2>2. <<null, code, names, code>> \in Seq(Hs) /\ Len(<<null, code, names, code>>) \in 1..4
    BY <1>6
  <2> QED BY <1>5, <2>1, <2>2
<1>8. \A n \in DOMAIN ss : ss[n] \in {null, code, names}
  BY <1>5
<1> QED BY <1>2, <1>3, <1>4, <1>7, <1>8 DEF Hs

(* They are what the linker can write.                                     *)
LEMMA ElvesLinked ==
  ASSUME NEW elf \in GoodElves
  PROVE  /\ IsLinked(elf) /\ elf.shstrndx + 1 \in DOMAIN elf.sections /\ elf.shstrndx \in Nat
         /\ \A n \in DOMAIN elf.sections : elf.sections[n].sh_flags < Unit * Unit
<1>1. elf \in Elves /\ elf.shstrndx < Len(elf.sections)
  BY DEF GoodElves
<1>2. PICK class \in Classes :
        elf \in [class : {class}, magic : BOOLEAN, entry : {High(class) + 3001},
                 shstrndx : {0, 2}, segments : SegmentLists(class), sections : SectionLists(class)]
  BY <1>1 DEF Elves, Classes
<1>3. /\ elf.class = class /\ elf.magic \in BOOLEAN /\ elf.entry = High(class) + 3001
      /\ elf.shstrndx \in {0, 2} /\ elf.segments \in SegmentLists(class)
      /\ elf.sections \in SectionLists(class)
  BY <1>2
<1>4. /\ elf.segments \in Seq(SegmentHeaders) /\ Len(elf.segments) <= 3
      /\ \A n \in DOMAIN elf.segments : AskedSegment(class, elf.segments[n])
  BY <1>3, AskedSegments
<1>5. /\ elf.sections \in Seq(SectionHeaders) /\ Len(elf.sections) \in 1..4
      /\ \A n \in DOMAIN elf.sections : AskedSection(class, elf.sections[n])
  BY <1>3, AskedSections
<1>6. HasTables(elf)
  <2>1. \A S : \A s \in Seq(S) : IsTable(s)
    BY DEF IsTable
  <2> QED BY <1>3, <1>4, <1>5, <2>1 DEF HasTables
<1>7. Len(elf.segments) \in 0..3 /\ Len(elf.sections) \in 0..4
  <2>1. Len(elf.segments) \in Nat /\ Len(elf.segments) <= 3 /\ Len(elf.sections) \in 1..4
    BY <1>4, <1>5, <1>6 DEF HasTables, IsTable
  <2> DEFINE ps == Len(elf.segments)
             ss == Len(elf.sections)
  <2> HIDE DEF ps, ss
  <2>2. ps \in Nat /\ ps <= 3 /\ ss \in 1..4
    BY <2>1 DEF ps, ss
  <2>3. ps \in 0..3 /\ ss \in 0..4
    BY <2>2
  <2> QED BY <2>3 DEF ps, ss
<1>8. Filled(elf)
  <2> SUFFICES ASSUME NEW s \in Structs, NEW n \in StructNumbers(elf, s), NEW l \in Layout(class, s)
               PROVE  /\ l[1] \in DOMAIN ValuesOf(elf, s, n)
                      /\ l[1] \notin Skipped => FitsIn(ValuesOf(elf, s, n)[l[1]], l[3])
    BY <1>3 DEF Filled
  <2>1. CASE s = "ehdr"
    <3> DEFINE h == HeaderOf(elf)
    <3>1. /\ h.e_entry = High(class) + 3001 /\ h.e_phnum = Len(elf.segments)
          /\ h.e_shnum = Len(elf.sections) /\ h.e_shstrndx = elf.shstrndx
          /\ h.e_phoff = PhdrAt(elf, 1) /\ h.e_shoff = ShdrAt(elf, 1)
      BY <1>3 DEF HeaderOf
    <3>2. DOMAIN h = {"e_entry", "e_phoff", "e_shoff", "e_ehsize", "e_phentsize", "e_phnum",
                      "e_shentsize", "e_shnum", "e_shstrndx"}
      BY DEF HeaderOf
    <3>3. /\ PhdrAt(elf, 1) \in Nat /\ PhdrAt(elf, 1) <= 3019
          /\ ShdrAt(elf, 1) \in Nat /\ ShdrAt(elf, 1) <= 3019
      <4>1. StartOf(elf, "phdr", 1) = PhdrAt(elf, 1) /\ StartOf(elf, "shdr", 1) = ShdrAt(elf, 1)
        BY DEF StartOf
      <4> DEFINE ps == Len(elf.segments)
      <4>2. ps \in 0..3
        BY <1>7
      <4>3. /\ PhdrAt(elf, 1) = IF elf.class = 1 THEN 52 + 32 * (1 - 1) ELSE 64 + 56 * (1 - 1)
            /\ ShdrAt(elf, 1) = IF elf.class = 1 THEN 52 + 32 * ps + 40 * (1 - 1)
                                ELSE 64 + 56 * ps + 64 * (1 - 1)
        <5>1. \A k \in Nat :
                /\ StartOf(elf, "phdr", k) = IF elf.class = 1 THEN 52 + 32 * (k - 1) ELSE 64 + 56 * (k - 1)
                /\ StartOf(elf, "shdr", k) = IF elf.class = 1 THEN 52 + 32 * ps + 40 * (k - 1)
                                             ELSE 64 + 56 * ps + 64 * (k - 1)
          BY <1>6, StartsAre
        <5> HIDE DEF ps
        <5> QED BY <4>1, <5>1
      <4> HIDE DEF ps
      <4>4. PhdrAt(elf, 1) \in Nat /\ PhdrAt(elf, 1) <= 3019
        BY <4>3
      <4>5. CASE elf.class = 1
        BY <4>2, <4>3, <4>4, <4>5
      <4>6. CASE elf.class # 1
        BY <4>2, <4>3, <4>4, <4>6
      <4> QED BY <4>5, <4>6
    <3>4. /\ FitsIn(h.e_phnum, 2) /\ FitsIn(h.e_shnum, 2) /\ FitsIn(h.e_shstrndx, 2)
          /\ FitsIn(h.e_phoff, 4) /\ FitsIn(h.e_phoff, 8) /\ FitsIn(h.e_shoff, 4) /\ FitsIn(h.e_shoff, 8)
      <4>1. /\ h.e_phnum \in Nat /\ h.e_phnum <= 4 /\ h.e_shnum \in Nat /\ h.e_shnum <= 4
            /\ h.e_shstrndx \in Nat /\ h.e_shstrndx <= 4
            /\ h.e_phoff \in Nat /\ h.e_phoff <= 3019 /\ h.e_shoff \in Nat /\ h.e_shoff <= 3019
        <5>1. Len(elf.segments) \in 0..4 /\ Len(elf.sections) \in 0..4 /\ elf.shstrndx \in 0..4
          BY <1>3, <1>7
        <5>2. h.e_phnum \in 0..4 /\ h.e_shnum \in 0..4 /\ h.e_shstrndx \in 0..4
          BY <3>1, <5>1
        <5>3. h.e_phoff \in Nat /\ h.e_phoff <= 3019 /\ h.e_shoff \in Nat /\ h.e_shoff <= 3019
          BY <3>1, <3>3
        <5> HIDE DEF h
        <5>4. h.e_phnum \in Nat /\ h.e_phnum <= 4 /\ h.e_shnum \in Nat /\ h.e_shnum <= 4
              /\ h.e_shstrndx \in Nat /\ h.e_shstrndx <= 4
          BY <5>2
        <5> QED BY <5>3, <5>4
      <4> QED BY <4>1, AskedFit
    <3>5. FitsIn(h.e_entry, 8) /\ (class = 1 => FitsIn(h.e_entry, 4))
      <4>1. High(class) \in Nat
        BY AskedFit
      <4>2. h.e_entry \in Nat /\ h.e_entry <= High(class) + 3019
        BY <3>1, <4>1
      <4> QED BY <4>2, AskedFit
    <3> HIDE DEF h
    <3>6. l[1] \in DOMAIN h /\ (l[1] \notin Skipped => FitsIn(h[l[1]], l[3]))
      <4>1. CASE class = 1
        BY <2>1, <3>2, <3>4, <3>5, <4>1 DEF Layout, Skipped
      <4>2. CASE class # 1
        BY <2>1, <3>2, <3>4, <3>5, <4>2 DEF Layout, Skipped
      <4> QED BY <4>1, <4>2
    <3>7. ValuesOf(elf, s, n) = h
      BY <2>1 DEF ValuesOf, h
    <3> QED BY <3>6, <3>7
  <2>2. CASE s = "phdr"
    <3> DEFINE h == elf.segments[n]
    <3>1. ValuesOf(elf, s, n) = h /\ n \in DOMAIN elf.segments
      BY <2>2 DEF ValuesOf, StructNumbers
    <3>2. AskedSegment(class, h)
      BY <1>4, <3>1
    <3> HIDE DEF h
    <3>3. DOMAIN h = {"p_type", "p_flags", "p_offset", "p_vaddr", "p_paddr", "p_filesz", "p_memsz"}
      BY <3>2 DEF AskedSegment, SegmentHeaders
    <3>4. /\ h.p_type \in Nat /\ h.p_flags \in Nat /\ h.p_offset \in Nat /\ h.p_vaddr \in Nat
          /\ h.p_paddr \in Nat /\ h.p_filesz \in Nat /\ h.p_memsz \in Nat /\ High(class) \in Nat
      BY <3>2, AskedFit DEF AskedSegment, SegmentHeaders
    <3>5. /\ h.p_type <= 3019 /\ h.p_flags <= 3019 /\ h.p_offset <= 3019 /\ h.p_filesz <= 3019
          /\ h.p_memsz <= 3019 /\ h.p_vaddr <= High(class) + 3019 /\ h.p_paddr <= High(class) + 3019
      BY <3>2, <3>4 DEF AskedSegment
    <3>6. /\ FitsIn(h.p_type, 4) /\ FitsIn(h.p_flags, 4) /\ FitsIn(h.p_offset, 4) /\ FitsIn(h.p_offset, 8)
          /\ FitsIn(h.p_filesz, 4) /\ FitsIn(h.p_filesz, 8) /\ FitsIn(h.p_memsz, 4) /\ FitsIn(h.p_memsz, 8)
          /\ FitsIn(h.p_vaddr, 8) /\ (class = 1 => FitsIn(h.p_vaddr, 4))
          /\ FitsIn(h.p_paddr, 8) /\ (class = 1 => FitsIn(h.p_paddr, 4))
      BY <3>4, <3>5, AskedFit
    <3>7. l[1] \in DOMAIN h /\ FitsIn(h[l[1]], l[3])
      <4>1. CASE class = 1
        BY <2>2, <3>3, <3>6, <4>1 DEF Layout
      <4>2. CASE class # 1
        BY <2>2, <3>3, <3>6, <4>2 DEF Layout
      <4> QED BY <4>1, <4>2
    <3> QED BY <3>1, <3>7
  <2>3. CASE s = "shdr"
    <3> DEFINE h == elf.sections[n]
    <3>1. ValuesOf(elf, s, n) = h /\ n \in DOMAIN elf.sections
      BY <2>3 DEF ValuesOf, StructNumbers
    <3>2. AskedSection(class, h)
      BY <1>5, <3>1
    <3> HIDE DEF h
    <3>3. DOMAIN h = {"sh_name", "sh_type", "sh_flags", "sh_addr", "sh_offset", "sh_size"}
      BY <3>2 DEF AskedSection, SectionHeaders
    <3>4. /\ h.sh_name \in Nat /\ h.sh_type \in Nat /\ h.sh_flags \in Nat /\ h.sh_addr \in Nat
          /\ h.sh_offset \in Nat /\ h.sh_size \in Nat
      BY <3>2 DEF AskedSection, SectionHeaders
    <3>5. /\ h.sh_name <= 3019 /\ h.sh_type <= 3019 /\ h.sh_flags <= 3019 /\ h.sh_offset <= 3019
          /\ h.sh_size <= 3019 /\ h.sh_addr <= High(class) + 3019
      BY <3>2 DEF AskedSection
    <3>6. /\ FitsIn(h.sh_name, 4) /\ FitsIn(h.sh_type, 4) /\ FitsIn(h.sh_flags, 4) /\ FitsIn(h.sh_flags, 8)
          /\ FitsIn(h.sh_offset, 4) /\ FitsIn(h.sh_offset, 8) /\ FitsIn(h.sh_size, 4)
          /\ FitsIn(h.sh_size, 8) /\ FitsIn(h.sh_addr, 8) /\ (class = 1 => FitsIn(h.sh_addr, 4))
      BY <3>4, <3>5, AskedFit
    <3>7. l[1] \in DOMAIN h /\ FitsIn(h[l[1]], l[3])
      <4>1. CASE class = 1
        BY <2>3, <3>3, <3>6, <4>1 DEF Layout
      <4>2. CASE class # 1
        BY <2>3, <3>3, <3>6, <4>2 DEF Layout
      <4> QED BY <4>1, <4>2
    <3> QED BY <3>1, <3>7
  <2> QED BY <2>1, <2>2, <2>3 DEF Structs
<1>9. ASSUME NEW n \in DOMAIN elf.segments PROVE HasRoom(elf.segments[n])
  <2> DEFINE s == elf.segments[n]
  <2>1. AskedSegment(class, s)
    BY <1>4
  <2> HIDE DEF s
  <2>2. /\ s.p_vaddr \in Nat /\ s.p_paddr \in Nat /\ s.p_memsz \in Nat /\ s.p_filesz <= s.p_memsz
        /\ s.p_vaddr + s.p_memsz <= High(class) + 3019 /\ s.p_paddr + s.p_memsz <= High(class) + 3019
    BY <2>1 DEF AskedSegment, SegmentHeaders
  <2>3. s.p_vaddr + s.p_memsz < Word64 /\ s.p_paddr + s.p_memsz < Word64
    <3>1. \A x \in Nat : x <= High(class) + 3019 => x < Word64
      BY AskedFit
    <3>2. \A x, y \in Nat : x + y \in Nat
      OBVIOUS
    <3>3. s.p_vaddr + s.p_memsz \in Nat /\ s.p_paddr + s.p_memsz \in Nat
      BY <2>2, <3>2
    <3> QED BY <2>2, <3>1, <3>3
  <2>4. HasRoom(s)
    BY <2>2, <2>3 DEF HasRoom, Addresses
  <2> QED BY <2>4 DEF s
<1>10. elf.shstrndx \in Nat /\ elf.shstrndx + 1 \in DOMAIN elf.sections
  <2>1. DOMAIN elf.sections = 1 .. Len(elf.sections) /\ Len(elf.sections) \in Nat
    BY <1>5
  <2> QED BY <1>1, <1>3, <2>1
<1>11. \A n \in DOMAIN elf.sections : elf.sections[n].sh_flags < Unit * Unit
  <2>1. \A n \in DOMAIN elf.sections :
          elf.sections[n].sh_flags \in Nat /\ elf.sections[n].sh_flags <= 3019
    BY <1>5 DEF AskedSection, SectionHeaders
  <2> QED BY <2>1, AskedFit DEF FitsIn
<1> QED BY <1>3, <1>4, <1>5, <1>6, <1>8, <1>9, <1>10, <1>11 DEF IsLinked, IsFilled

(* The fields of a program header.                                         *)
SegmentFields == {"p_type", "p_flags"} \union InfoFields
IsRead(elf, file) ==
  /\ CheckFile(file) = 0 /\ NumProgramHeaders(file) = Len(elf.segments) /\ EntryPoint(file) = elf.entry
  /\ \A n \in DOMAIN elf.segments : \A name \in SegmentFields :
       ProgramHeader(file, n - 1, name) = elf.segments[n][name]

(* A linked file is read as it was written.                                *)
LEMMA LinkedIsRead ==
  ASSUME NEW elf, IsLinked(elf), elf.class # 3, elf.magic, NEW base \in Nat, base % 4 = 0
  PROVE  IsRead(elf, File(elf, base))
<1> DEFINE file == File(elf, base)
<1>1. /\ CheckFile(file) = 0 /\ NumProgramHeaders(file) = Len(elf.segments)
      /\ EntryPoint(file) = elf.entry
      /\ \A n \in DOMAIN elf.segments : \A l \in Layout(elf.class, "phdr") :
           ProgramHeader(file, n - 1, l[1]) = elf.segments[n][l[1]]
  BY HeadersRead DEF IsLinked
<1> HIDE DEF file
<1>2. \A name \in SegmentFields : \E l \in Layout(elf.class, "phdr") : l[1] = name
  BY DEF SegmentFields, InfoFields, Layout
<1>3. IsRead(elf, file)
  BY <1>1, <1>2 DEF IsRead
<1> QED BY <1>3 DEF file

(* The headers are numbered from 0, the linker's from 1.                   *)
LEMMA Numbered ==
  ASSUME NEW s, IsTable(s)
  PROVE  /\ \A n \in DOMAIN s : n \in Nat /\ n - 1 \in 0 .. Len(s) - 1
         /\ \A k \in 0 .. Len(s) - 1 : \E n \in DOMAIN s : n = k + 1 /\ k = n - 1
<1> DEFINE l == Len(s)
<1>1. l \in Nat /\ DOMAIN s = 1..l
  BY DEF IsTable
<1> HIDE DEF l
<1>2. \A n \in 1..l : n \in Nat /\ n - 1 \in 0 .. l - 1
  BY <1>1
<1>3. \A k \in 0 .. l - 1 : \E n \in 1..l : n = k + 1 /\ k = n - 1
  <2> SUFFICES ASSUME NEW k \in 0 .. l - 1 PROVE \E n \in 1..l : n = k + 1 /\ k = n - 1
    OBVIOUS
  <2> DEFINE n == k + 1
  <2>1. n \in 1..l /\ n = k + 1 /\ k = n - 1
    BY <1>1
  <2> HIDE DEF n
  <2> QED BY <2>1
<1> QED BY <1>1, <1>2, <1>3 DEF l

(* The least and the greatest of a set are the ones chosen.                *)
LEMMA ChosenLeast ==
  ASSUME NEW S, S \subseteq Int, NEW m \in S, \A x \in S : m <= x
  PROVE  (CHOOSE a \in S : \A b \in S : a <= b) = m
<1> DEFINE c == CHOOSE a \in S : \A b \in S : a <= b
<1>1. c \in S /\ \A b \in S : c <= b
  OBVIOUS
<1>2. c <= m /\ m <= c /\ c \in Int /\ m \in Int
  BY <1>1
<1> HIDE DEF c
<1>3. c = m
  BY <1>2
<1> QED BY <1>3 DEF c

(* CHOOSE finds the greatest number of a set.                              *)
LEMMA ChosenGreatest ==
  ASSUME NEW S, S \subseteq Int, NEW m \in S, \A x \in S : x <= m
  PROVE  (CHOOSE a \in S : \A b \in S : b <= a) = m
<1> DEFINE c == CHOOSE a \in S : \A b \in S : b <= a
<1>1. c \in S /\ \A b \in S : b <= c
  OBVIOUS
<1>2. c <= m /\ m <= c /\ c \in Int /\ m \in Int
  BY <1>1
<1> HIDE DEF c
<1>3. c = m
  BY <1>2
<1> QED BY <1>3 DEF c

(* There is a greatest number of a set that has a bound.                   *)
LEMMA Greatest ==
  ASSUME NEW w \in Nat, NEW T, T \subseteq 0..w, T # {}
  PROVE  \E x \in T : \A y \in T : y <= x
<1> DEFINE R == {w - x : x \in T}
<1>1. R \subseteq Nat /\ R # {}
  <2>1. \A x \in 0..w : w - x \in Nat
    OBVIOUS
  <2>2. \A x \in T : w - x \in Nat
    BY <2>1
  <2> QED BY <2>2
<1> HIDE DEF R
<1>2. PICK r \in R : \A y \in R : r <= y
  BY <1>1, Least
<1>3. PICK x \in T : r = w - x
  BY DEF R
<1>4. ASSUME NEW y \in T PROVE y <= x
  <2>1. w - x <= w - y
    BY <1>2, <1>3 DEF R
  <2>2. x \in 0..w /\ y \in 0..w
    OBVIOUS
  <2> QED BY <2>1, <2>2
<1> QED BY <1>4

(* elf_getMemoryBounds() finds the least address of a segment with memory  *)
(* and the end of the highest one, in any file.                            *)
THEOREM BoundsRead ==
  ASSUME NEW elf, IsLinked(elf), NEW file, IsRead(elf, file), NEW phys \in BOOLEAN
  PROVE  LET address == IF phys THEN "p_paddr" ELSE "p_vaddr"
         IN MemoryBounds(file, phys) = Bound(elf, address)
<1> DEFINE address == IF phys THEN "p_paddr" ELSE "p_vaddr"
           D == DOMAIN elf.segments
           P(n) == elf.segments[n][address]
           M(n) == elf.segments[n].p_memsz
           hs == {n \in D : M(n) # 0}
           starts == {P(n) : n \in hs}
           ends == {P(n) + M(n) : n \in hs}
           N == NumProgramHeaders(file)
           ks == {k \in 0 .. N - 1 : ProgramHeader(file, k, "p_memsz") # 0}
           froms == {AddressOf(file, k, phys) : k \in ks} \union {Word64 - 1}
           tos == {(AddressOf(file, k, phys) + ProgramHeader(file, k, "p_memsz")) % Word64 : k \in ks}
                    \union {0}
<1>1. MemoryBounds(file, phys) = <<CHOOSE a \in froms : \A b \in froms : a <= b,
                                   CHOOSE a \in tos : \A b \in tos : b <= a>>
  BY DEF MemoryBounds, IsRead
<1>2. Bound(elf, address) =
        IF hs = {} THEN <<Word64 - 1, 0>>
        ELSE <<CHOOSE a \in starts : \A n \in hs : a <= P(n),
               CHOOSE a \in ends : \A n \in hs : P(n) + M(n) <= a>>
  BY DEF Bound
<1>3. \A n \in D : /\ AddressOf(file, n - 1, phys) = P(n) /\ ProgramHeader(file, n - 1, "p_memsz") = M(n)
                   /\ P(n) \in Nat /\ M(n) \in Nat /\ P(n) + M(n) < Word64
  <2> SUFFICES ASSUME NEW n \in D
               PROVE  /\ AddressOf(file, n - 1, phys) = P(n) /\ ProgramHeader(file, n - 1, "p_memsz") = M(n)
                      /\ P(n) \in Nat /\ M(n) \in Nat /\ P(n) + M(n) < Word64
    OBVIOUS
  <2>1. address \in SegmentFields /\ "p_memsz" \in SegmentFields /\ address \in Addresses
    BY DEF SegmentFields, InfoFields, Addresses
  <2>2. ProgramHeader(file, n - 1, address) = P(n) /\ ProgramHeader(file, n - 1, "p_memsz") = M(n)
    BY <2>1 DEF IsRead
  <2>3. elf.segments[n] \in SegmentHeaders /\ HasRoom(elf.segments[n])
    BY DEF IsLinked
  <2>4. P(n) \in Nat /\ M(n) \in Nat
    BY <2>3 DEF SegmentHeaders
  <2>5. P(n) + M(n) < Word64
    BY <2>1, <2>3 DEF HasRoom
  <2> QED BY <2>2, <2>4, <2>5 DEF AddressOf
<1>4. N = Len(elf.segments) /\ IsTable(elf.segments)
  BY DEF IsRead, IsLinked, IsFilled, HasTables
<1>5. /\ \A n \in D : n - 1 \in 0 .. N - 1
      /\ \A k \in 0 .. N - 1 : \E n \in D : n = k + 1 /\ k = n - 1
  BY <1>4, Numbered
<1>6. \A n \in D : (P(n) + M(n)) % Word64 = P(n) + M(n)
  <2> HIDE DEF P, M, D
  <2>1. \A n \in D : P(n) + M(n) \in Nat
    BY <1>3
  <2> QED BY <1>3, <2>1, ZerosBehind
<1> HIDE DEF P, M, D, N
<1>7. froms = starts \union {Word64 - 1} /\ tos = ends \union {0}
  <2>1. \A n \in hs : n - 1 \in ks
    BY <1>3, <1>5
  <2>2. \A k \in ks : \E n \in hs : k = n - 1
    <3> SUFFICES ASSUME NEW k \in ks PROVE \E n \in hs : k = n - 1
      OBVIOUS
    <3>1. PICK n \in D : k = n - 1
      BY <1>5
    <3>2. n \in hs
      BY <1>3, <3>1
    <3> QED BY <3>1, <3>2
  <2>3. \A n \in hs : n \in D
    OBVIOUS
  <2>4. {AddressOf(file, k, phys) : k \in ks} = starts
    <3> DEFINE A(k) == AddressOf(file, k, phys)
    <3>1. \A n \in D : A(n - 1) = P(n)
      BY <1>3
    <3> HIDE DEF ks, hs, A
    <3>2. \A n \in hs : P(n) = A(n - 1) /\ n - 1 \in ks
      BY <2>1, <2>3, <3>1
    <3>3. \A k \in ks : \E n \in hs : A(k) = P(n)
      BY <2>2, <2>3, <3>1, Zenon
    <3>4. {A(k) : k \in ks} = {P(n) : n \in hs}
      BY <3>2, <3>3, Zenon
    <3> QED BY <3>4 DEF A
  <2> DEFINE End(k) == (AddressOf(file, k, phys) + ProgramHeader(file, k, "p_memsz")) % Word64
             Sum(n) == P(n) + M(n)
  <2>5. \A n \in D : End(n - 1) = Sum(n)
    BY <1>3, <1>6
  <2> HIDE DEF ks, hs, End, Sum
  <2>6. {End(k) : k \in ks} = {Sum(n) : n \in hs}
    <3>1. \A n \in hs : Sum(n) = End(n - 1) /\ n - 1 \in ks
      BY <2>1, <2>3, <2>5
    <3>2. \A k \in ks : \E n \in hs : End(k) = Sum(n)
      BY <2>2, <2>3, <2>5, Zenon
    <3> QED BY <3>1, <3>2, Zenon
  <2> QED BY <2>4, <2>6 DEF End, Sum
<1>8. \A n \in hs : /\ P(n) \in Nat /\ P(n) + M(n) \in Nat
                    /\ P(n) <= Word64 - 1 /\ P(n) + M(n) <= Word64 - 1
  BY <1>3, WordPositive
<1>9. Word64 - 1 \in Nat
  BY WordPositive
<1> HIDE DEF hs, froms, tos
<1>10. CASE hs = {}
  <2>1. froms = {Word64 - 1} /\ tos = {0}
    BY <1>7, <1>10
  <2>2. (CHOOSE a \in froms : \A b \in froms : a <= b) = Word64 - 1
    BY <1>9, <2>1, ChosenLeast
  <2>3. (CHOOSE a \in tos : \A b \in tos : b <= a) = 0
    BY <2>1, ChosenGreatest
  <2> QED BY <1>1, <1>2, <1>10, <2>2, <2>3 DEF address
<1>11. CASE hs # {}
  <2>1. PICK m \in starts : \A x \in starts : m <= x
    <3>1. starts \subseteq Nat /\ starts # {}
      BY <1>8, <1>11
    <3> HIDE DEF starts
    <3> QED BY <3>1, Least
  <2>2. PICK e \in ends : \A x \in ends : x <= e
    <3>1. ends \subseteq 0 .. Word64 - 1 /\ ends # {}
      BY <1>8, <1>11
    <3> HIDE DEF ends
    <3> QED BY <1>9, <3>1, Greatest
  <2>3. (CHOOSE a \in froms : \A b \in froms : a <= b) = m
    <3>1. m \in froms /\ froms \subseteq Int /\ \A x \in froms : m <= x
      BY <1>7, <1>8, <1>9, <2>1
    <3> QED BY <3>1, ChosenLeast
  <2>4. (CHOOSE a \in tos : \A b \in tos : b <= a) = e
    <3>1. e \in tos /\ tos \subseteq Int /\ \A x \in tos : x <= e
      BY <1>7, <1>8, <1>9, <2>2
    <3> QED BY <3>1, ChosenGreatest
  <2>5. (CHOOSE a \in starts : \A n \in hs : a <= P(n)) = m
    <3> DEFINE c == CHOOSE a \in starts : \A n \in hs : a <= P(n)
    <3>1. m \in starts /\ \A n \in hs : m <= P(n)
      BY <2>1
    <3>2. c \in starts /\ \A n \in hs : c <= P(n)
      BY <3>1
    <3> HIDE DEF c
    <3>3. c <= m /\ m <= c /\ c \in Nat /\ m \in Nat
      BY <1>8, <2>1, <3>2
    <3>4. c = m
      BY <3>3
    <3> QED BY <3>4 DEF c
  <2>6. (CHOOSE a \in ends : \A n \in hs : P(n) + M(n) <= a) = e
    <3> DEFINE c == CHOOSE a \in ends : \A n \in hs : P(n) + M(n) <= a
    <3>1. e \in ends /\ \A n \in hs : P(n) + M(n) <= e
      BY <2>2
    <3>2. c \in ends /\ \A n \in hs : P(n) + M(n) <= c
      BY <3>1
    <3> HIDE DEF c
    <3>3. c <= e /\ e <= c /\ c \in Nat /\ e \in Nat
      BY <1>8, <2>2, <3>2
    <3>4. c = e
      BY <3>3
    <3> QED BY <3>4 DEF c
  <2> QED BY <1>1, <1>2, <1>11, <2>3, <2>4, <2>5, <2>6 DEF address
<1> QED BY <1>10, <1>11

(* What the loader is told of a file is what the linker wrote, whole, of   *)
(* files of either class with any number of segments, on any 4-byte        *)
(* boundary.                                                               *)
THEOREM AllIsRead ==
  ASSUME NEW elf, IsLinked(elf), elf.class # 3, elf.magic, NEW base \in Nat, base % 4 = 0
  PROVE  ReadAll(File(elf, base)) =
           [check |-> 0, phnum |-> Len(elf.segments), entry |-> elf.entry,
            segments |-> elf.segments,
            virtual |-> Bound(elf, "p_vaddr"), physical |-> Bound(elf, "p_paddr")]
<1> DEFINE file == File(elf, base)
           N == NumProgramHeaders(file)
           Info(n) == [name \in SegmentFields |->
                         IF name \in InfoFields THEN ProgramHeaderInfo(file, n-1)[name]
                         ELSE ProgramHeader(file, n-1, name)]
<1>1. IsRead(elf, file)
  BY LinkedIsRead
<1> HIDE DEF file
<1>2. /\ MemoryBounds(file, FALSE) = Bound(elf, "p_vaddr")
      /\ MemoryBounds(file, TRUE) = Bound(elf, "p_paddr")
  BY <1>1, BoundsRead
<1>3. ASSUME NEW n \in DOMAIN elf.segments PROVE Info(n) = elf.segments[n]
  <2>1. elf.segments[n] \in SegmentHeaders
    BY DEF IsLinked
  <2>2. elf.segments[n] = [name \in SegmentFields |-> elf.segments[n][name]]
    BY <2>1 DEF SegmentHeaders, SegmentFields, InfoFields
  <2>3. \A name \in InfoFields : ProgramHeaderInfo(file, n-1)[name] = ProgramHeader(file, n-1, name)
    BY DEF ProgramHeaderInfo
  <2>4. \A name \in SegmentFields : Info(n)[name] = elf.segments[n][name]
    BY <1>1, <2>3 DEF IsRead
  <2>5. Info(n) = [name \in SegmentFields |-> Info(n)[name]]
    OBVIOUS
  <2> HIDE DEF Info
  <2> QED BY <2>2, <2>4, <2>5
<1>4. [n \in 1..N |-> Info(n)] = elf.segments
  <2>1. elf.segments = [n \in DOMAIN elf.segments |-> elf.segments[n]]
    BY DEF IsLinked
  <2>2. DOMAIN elf.segments = 1..N
    BY <1>1 DEF IsRead, IsLinked, IsFilled, HasTables, IsTable
  <2> HIDE DEF Info, N
  <2> QED BY <1>3, <2>1, <2>2
<1>5. ReadAll(file) = [check |-> CheckFile(file), phnum |-> N, entry |-> EntryPoint(file),
                       segments |-> [n \in 1..N |-> Info(n)],
                       virtual |-> MemoryBounds(file, FALSE), physical |-> MemoryBounds(file, TRUE)]
  BY DEF ReadAll, SegmentFields
<1>6. CheckFile(file) = 0 /\ N = Len(elf.segments) /\ EntryPoint(file) = elf.entry
  BY <1>1 DEF IsRead
<1> HIDE DEF Info, N
<1>7. ReadAll(file) =
        [check |-> 0, phnum |-> Len(elf.segments), entry |-> elf.entry,
         segments |-> elf.segments,
         virtual |-> Bound(elf, "p_vaddr"), physical |-> Bound(elf, "p_paddr")]
  BY <1>2, <1>4, <1>5, <1>6
<1> QED BY <1>7 DEF file

(* A file of neither class, or without the magic, is refused, and its      *)
(* bounds and its memory are left alone.                                   *)
LEMMA FileRefused ==
  ASSUME NEW elf, HasTables(elf), NEW base \in Nat, base % 4 = 0, ~elf.magic \/ elf.class = 3
  PROVE  LET file == File(elf, base)
         IN /\ CheckFile(file) = IF elf.magic THEN -2 ELSE -1
            /\ MemoryBounds(file, TRUE) = <<>> /\ LoadFile(file, TRUE) = <<>>
<1> DEFINE file == File(elf, base)
<1>1. (IsMagic(file) <=> elf.magic) /\ Class(file) = elf.class /\ elf.class \in {1, 2, 3}
  BY IdentRead DEF HasTables, Classes
<1> HIDE DEF file
<1>2. CheckFile(file) = IF elf.magic THEN -2 ELSE -1
  BY <1>1 DEF CheckFile, CheckFile32, CheckFile64, IsElf32, ElfClass32, ElfClass64
<1>3. CheckFile(file) # 0
  BY <1>2
<1>4. MemoryBounds(file, TRUE) = <<>> /\ LoadFile(file, TRUE) = <<>>
  BY <1>3 DEF MemoryBounds, LoadFile
<1> QED BY <1>2, <1>4 DEF file

(* What is answered to the questions about files.                          *)
Told(file) ==
  IF CheckFile(file) # 0 THEN <<CheckFile(file), MemoryBounds(file, TRUE), LoadFile(file, TRUE)>>
  ELSE <<ReadAll(file), ReadSections(file), LoadFile(file, FALSE), LoadFile(file, TRUE)>>
AnswersElf(asked, told) ==
  asked.kind = "elf" =>
    \E elf \in GoodElves, base \in {64, 68} :
      asked = AskElf(elf, base) /\ (told # NoAnswer => told = Told(asked.file))
ElfAnswer == AnswersElf(question, answer)

(* Every answer about a file is what the loader computes of it.            *)
LEMMA ElfAnswers == Spec => []ElfAnswer
<1>1. Init => ElfAnswer
  <2> SUFFICES ASSUME Init, question.kind = "elf"
               PROVE  answer = NoAnswer /\ \E elf \in GoodElves, base \in {64, 68} : question = AskElf(elf, base)
    BY DEF ElfAnswer, AnswersElf
  <2>1. PICK elf \in GoodElves, base \in {64, 68} : question = AskElf(elf, base)
    BY DEF Init, AskMemory, AskStrings, AskHash, AskTables, AskStrip, AskPrint
  <2> QED BY <2>1 DEF Init
<1>2. ElfAnswer /\ [Next]_vars => ElfAnswer'
  <2> SUFFICES ASSUME ElfAnswer, [Next]_vars, question'.kind = "elf"
               PROVE  ElfAnswer'
    BY DEF ElfAnswer, AnswersElf
  <2>1. CASE ReadElf
    <3>1. question.kind = "elf" /\ question' = question /\ answer' = Told(question.file)
      BY <2>1 DEF ReadElf, Asked, Told
    <3>2. PICK elf \in GoodElves, base \in {64, 68} : question = AskElf(elf, base)
      BY <3>1 DEF ElfAnswer, AnswersElf
    <3> QED BY <3>1, <3>2 DEF ElfAnswer, AnswersElf
  <2>2. ASSUME NEW kind, kind # "elf", Asked(kind)
        PROVE  FALSE
    BY <2>2 DEF Asked
  <2>3. ~MoveMemory /\ ~CompareStrings
    BY <2>2 DEF MoveMemory, CompareStrings
  <2>4. ~HashMessage /\ ~MapKernel
    BY <2>2 DEF HashMessage, MapKernel
  <2>5. ~PrintLine /\ ~StripArchive
    BY <2>2 DEF PrintLine, StripArchive
  <2>6. CASE UNCHANGED vars
    <3>1. question' = question /\ answer' = answer
      BY <2>6 DEF vars
    <3> QED BY <3>1 DEF ElfAnswer
  <2> QED BY <2>1, <2>3, <2>4, <2>5, <2>6 DEF Next
<1> QED BY <1>1, <1>2, PTL DEF Spec

(* What an answer about a file is.                                         *)
LEMMA ElfAnswered ==
  ASSUME ElfAnswer, Answered("elf")
  PROVE  LET elf == question.elf
             base == question.file.base
             file == question.file
         IN /\ elf \in GoodElves /\ IsLinked(elf) /\ elf.class \in Classes
            /\ elf.shstrndx \in Nat /\ elf.shstrndx + 1 \in DOMAIN elf.sections
            /\ base \in {64, 68} /\ base \in Nat /\ base % 4 = 0 /\ file = File(elf, base)
            /\ ~elf.magic \/ elf.class = 3 =>
                 /\ answer = <<IF elf.magic THEN -2 ELSE -1, <<>>, <<>>>> /\ Len(answer) = 3
            /\ elf.magic /\ elf.class # 3 =>
                 /\ answer[1] = ReadAll(file) /\ answer[2] = ReadSections(file)
                 /\ answer[3] = LoadFile(file, FALSE) /\ answer[4] = LoadFile(file, TRUE)
<1>1. PICK elf \in GoodElves, base \in {64, 68} :
        question = AskElf(elf, base) /\ answer = Told(question.file)
  <2>1. question.kind = "elf" /\ answer # NoAnswer
    BY DEF Answered
  <2> QED BY <2>1 DEF ElfAnswer, AnswersElf
<1>2. question.elf = elf /\ question.file = File(elf, base) /\ question.file.base = base
  BY <1>1 DEF AskElf, File
<1>3. /\ IsLinked(elf) /\ HasTables(elf) /\ elf.class \in Classes
      /\ elf.shstrndx \in Nat /\ elf.shstrndx + 1 \in DOMAIN elf.sections
  BY ElvesLinked DEF IsLinked, IsFilled, HasTables
<1>4. base \in Nat /\ base % 4 = 0
  BY <1>1
<1> DEFINE file == File(elf, base)
<1>5. answer = Told(file)
  BY <1>1, <1>2
<1>6. ASSUME ~elf.magic \/ elf.class = 3
      PROVE  answer = <<IF elf.magic THEN -2 ELSE -1, <<>>, <<>>>> /\ Len(answer) = 3
  <2>1. /\ CheckFile(file) = IF elf.magic THEN -2 ELSE -1
        /\ MemoryBounds(file, TRUE) = <<>> /\ LoadFile(file, TRUE) = <<>>
    <3>1. HasTables(elf) /\ elf.class \in Classes /\ base \in Nat /\ base % 4 = 0
      BY <1>3, <1>4
    <3> QED BY <1>6, <3>1, FileRefused
  <2> HIDE DEF file
  <2>2. CheckFile(file) # 0
    BY <2>1
  <2>3. answer = <<IF elf.magic THEN -2 ELSE -1, <<>>, <<>>>>
    BY <1>5, <2>1, <2>2 DEF Told
  <2> QED BY <2>3
<1>7. ASSUME elf.magic, elf.class # 3
      PROVE  /\ answer[1] = ReadAll(file) /\ answer[2] = ReadSections(file)
             /\ answer[3] = LoadFile(file, FALSE) /\ answer[4] = LoadFile(file, TRUE)
  <2>1. CheckFile(file) = 0
    BY <1>3, <1>4, <1>7, LinkedIsRead DEF IsRead
  <2> HIDE DEF file
  <2>2. answer = <<ReadAll(file), ReadSections(file), LoadFile(file, FALSE), LoadFile(file, TRUE)>>
    BY <1>5, <2>1 DEF Told
  <2>3. \A a, b, c, d : LET t == <<a, b, c, d>> IN t[1] = a /\ t[2] = b /\ t[3] = c /\ t[4] = d
    OBVIOUS
  <2> QED BY <2>2, <2>3
<1> QED BY <1>2, <1>3, <1>4, <1>6, <1>7

(* The fields, the entry and the bounds of a file are what the linker      *)
(* wrote, or the file is refused (elf.c, elf64_read64()).                  *)
THEOREM FilesAreRead == Spec => []ElfReads
<1>1. ElfAnswer => ElfReads
  <2> SUFFICES ASSUME ElfAnswer, Answered("elf")
               PROVE  LET elf == question.elf IN
                      IF ~elf.magic \/ elf.class = 3
                        THEN answer = <<IF elf.magic THEN -2 ELSE -1, <<>>, <<>>>>
                        ELSE answer[1] = [check |-> 0, phnum |-> Len(elf.segments), entry |-> elf.entry,
                                          segments |-> elf.segments,
                                          virtual |-> Bound(elf, "p_vaddr"),
                                          physical |-> Bound(elf, "p_paddr")]
    BY DEF ElfReads
  <2> DEFINE elf == question.elf
             base == question.file.base
             file == question.file
  <2>1. /\ IsLinked(elf) /\ base \in Nat /\ base % 4 = 0 /\ file = File(elf, base)
        /\ ~elf.magic \/ elf.class = 3 =>
             answer = <<IF elf.magic THEN -2 ELSE -1, <<>>, <<>>>>
        /\ elf.magic /\ elf.class # 3 => answer[1] = ReadAll(file)
    BY ElfAnswered
  <2> HIDE DEF elf, base, file
  <2>2. ASSUME elf.magic, elf.class # 3
        PROVE  answer[1] = [check |-> 0, phnum |-> Len(elf.segments), entry |-> elf.entry,
                            segments |-> elf.segments,
                            virtual |-> Bound(elf, "p_vaddr"), physical |-> Bound(elf, "p_paddr")]
    <3>1. answer[1] = ReadAll(file)
      BY <2>1, <2>2
    <3> QED BY <2>1, <2>2, <3>1, AllIsRead
  <2> QED BY <2>1, <2>2 DEF elf
<1> QED BY <1>1, ElfAnswers, PTL

SectionFields == {"sh_name", "sh_type", "sh_flags", "sh_addr", "sh_offset", "sh_size"}
Strings0(elf, base) == base + elf.sections[elf.shstrndx + 1].sh_offset
NameOf(elf, base, n) ==
  IF elf.shstrndx = 0 THEN Corrupted ELSE Strings0(elf, base) + elf.sections[n].sh_name

(* A section's fields, whatever the class.                                 *)
AreSections(elf, file) ==
  /\ NumSections(file) = Len(elf.sections) /\ StringSection(file) = elf.shstrndx
  /\ \A n \in DOMAIN elf.sections : \A name \in SectionFields :
       SectionField(file, n - 1, name) = elf.sections[n][name]
  /\ \A n \in DOMAIN elf.segments : SegmentField(file, n - 1, "p_vaddr") = elf.segments[n].p_vaddr

(* A linked file's sections are read as they were written.                 *)
LEMMA SectionsAre ==
  ASSUME NEW elf, IsLinked(elf), elf.class # 3, elf.magic, NEW base \in Nat, base % 4 = 0,
         elf.class = 1 \/ base % 8 = 0
  PROVE  AreSections(elf, File(elf, base))
<1> DEFINE file == File(elf, base)
<1>1. /\ NumSections(file) = Len(elf.sections) /\ StringSection(file) = elf.shstrndx
      /\ \A n \in DOMAIN elf.sections : \A l \in Layout(elf.class, "shdr") :
           SectionField(file, n - 1, l[1]) = elf.sections[n][l[1]]
      /\ \A n \in DOMAIN elf.segments : \A l \in Layout(elf.class, "phdr") :
           SegmentField(file, n - 1, l[1]) = elf.segments[n][l[1]]
  BY SectionHeadersRead DEF IsLinked
<1> HIDE DEF file
<1>2. /\ \A name \in SectionFields : \E l \in Layout(elf.class, "shdr") : l[1] = name
      /\ \E l \in Layout(elf.class, "phdr") : l[1] = "p_vaddr"
  BY DEF SectionFields, Layout
<1>3. AreSections(elf, file)
  BY <1>1, <1>2 DEF AreSections
<1> QED BY <1>3 DEF file

(* What the section functions return, through the fields.                  *)
LEMMA SectionCalls ==
  ASSUME NEW file, NEW s
  PROVE  LET Offset(n) == file.base + SectionField(file, n, "sh_offset")
         IN /\ SegmentStringTable(file) =
                 IF StringSection(file) = 0 THEN NULL ELSE Offset(StringSection(file))
            /\ StringTable(file, StringSection(file)) = Offset(StringSection(file))
            /\ SectionName(file, s) =
                 IF SegmentStringTable(file) = NULL THEN Corrupted
                 ELSE SegmentStringTable(file) + SectionField(file, s, "sh_name")
            /\ SectionFlags(file, s) = IF IsElf32(file) THEN SectionField(file, s, "sh_flags")
                                       ELSE SectionField(file, s, "sh_flags") % (Unit * Unit)
            /\ SectionType(file, s) = SectionField(file, s, "sh_type")
            /\ SectionSize(file, s) = SectionField(file, s, "sh_size")
            /\ SectionAddr(file, s) = SectionField(file, s, "sh_addr")
            /\ Section(file, s) = Offset(s)
            /\ SectionNamed(file, s) =
                 LET names == [k \in 0 .. NumSections(file) - 1 |-> SectionName(file, k)]
                 IN IF \A k \in DOMAIN names : names[k] # s THEN NULL
                    ELSE Section(file, FirstNamed(names, s))
<1>1. CASE IsElf32(file)
  <2>1. /\ SegmentStringTable(file) = SegmentStringTable32(file)
        /\ \A k : StringTable(file, k) = StringTable32(file) /\ SectionName(file, k) = SectionName32(file, k)
        /\ SectionFlags(file, s) = SectionField32(file, s, "sh_flags")
        /\ SectionType(file, s) = SectionField32(file, s, "sh_type")
        /\ SectionSize(file, s) = SectionSize32(file, s) /\ SectionAddr(file, s) = SectionAddr32(file, s)
        /\ \A k : Section(file, k) = Section32(file, k)
        /\ SectionNamed(file, s) = SectionNamed32(file, s) /\ NumSections(file) = NumSections32(file)
        /\ StringSection(file) = Field(file, file.base, Header32, "e_shstrndx")
    BY <1>1 DEF SegmentStringTable, StringTable, SectionName, SectionFlags, SectionType, SectionSize,
                SectionAddr, Section, SectionNamed, NumSections, StringSection
  <2>2. \A k, name : SectionField(file, k, name) = SectionField32(file, k, name)
    BY <1>1 DEF SectionField
  <2>3. SectionNamed(file, s) =
          LET names == [k \in 0 .. NumSections(file) - 1 |-> SectionName(file, k)]
          IN IF \A k \in DOMAIN names : names[k] # s THEN NULL
             ELSE Section(file, FirstNamed(names, s))
    BY <2>1 DEF SectionNamed32
  <2>4. /\ StringTable32(file) = file.base + SectionField32(file, StringSection(file), "sh_offset")
        /\ SegmentStringTable32(file) = IF StringSection(file) = 0 THEN NULL ELSE StringTable32(file)
    BY <2>1 DEF StringTable32, SegmentStringTable32
  <2>5. /\ SectionName32(file, s) =
             IF SegmentStringTable32(file) = NULL THEN Corrupted
             ELSE SegmentStringTable32(file) + SectionField32(file, s, "sh_name")
        /\ SectionSize32(file, s) = SectionField32(file, s, "sh_size")
        /\ SectionAddr32(file, s) = SectionField32(file, s, "sh_addr")
        /\ Section32(file, s) = file.base + SectionField32(file, s, "sh_offset")
    BY DEF SectionName32, SectionSize32, SectionAddr32, Section32
  <2> QED BY <1>1, <2>1, <2>2, <2>3, <2>4, <2>5
<1>2. CASE ~IsElf32(file)
  <2>1. /\ SegmentStringTable(file) = SegmentStringTable64(file)
        /\ \A k : StringTable(file, k) = StringTable64(file, k) /\ SectionName(file, k) = SectionName64(file, k)
        /\ SectionFlags(file, s) = SectionField64(file, s, "sh_flags") % (Unit * Unit)
        /\ SectionType(file, s) = SectionField64(file, s, "sh_type")
        /\ SectionSize(file, s) = SectionSize64(file, s) /\ SectionAddr(file, s) = SectionAddr64(file, s)
        /\ \A k : Section(file, k) = Section64(file, k)
        /\ SectionNamed(file, s) = SectionNamed64(file, s) /\ NumSections(file) = NumSections64(file)
        /\ StringSection(file) = Field(file, file.base, Header64, "e_shstrndx")
    BY <1>2 DEF SegmentStringTable, StringTable, SectionName, SectionFlags, SectionType, SectionSize,
                SectionAddr, Section, SectionNamed, NumSections, StringSection, Truncate32
  <2>2. \A k, name : SectionField(file, k, name) = SectionField64(file, k, name)
    BY <1>2 DEF SectionField
  <2>3. SectionNamed(file, s) =
          LET names == [k \in 0 .. NumSections(file) - 1 |-> SectionName(file, k)]
          IN IF \A k \in DOMAIN names : names[k] # s THEN NULL
             ELSE Section(file, FirstNamed(names, s))
    BY <2>1 DEF SectionNamed64
  <2>4. /\ \A k : StringTable64(file, k) = file.base + SectionField64(file, k, "sh_offset")
        /\ SegmentStringTable64(file) =
             IF StringSection(file) = 0 THEN NULL ELSE StringTable64(file, StringSection(file))
    BY <2>1 DEF StringTable64, SegmentStringTable64
  <2>5. /\ SectionName64(file, s) =
             IF SegmentStringTable64(file) = NULL THEN Corrupted
             ELSE SegmentStringTable64(file) + SectionField64(file, s, "sh_name")
        /\ SectionSize64(file, s) = SectionField64(file, s, "sh_size")
        /\ SectionAddr64(file, s) = SectionField64(file, s, "sh_addr")
        /\ Section64(file, s) = file.base + SectionField64(file, s, "sh_offset")
    BY DEF SectionName64, SectionSize64, SectionAddr64, Section64
  <2> QED BY <1>2, <2>1, <2>2, <2>3, <2>4, <2>5
<1> QED BY <1>1, <1>2

(* What the sections are named, and where the string table is.             *)
LEMMA NamesAre ==
  ASSUME NEW elf, IsLinked(elf), NEW file, AreSections(elf, file), file.base \in Nat \ {0},
         elf.shstrndx \in Nat, elf.shstrndx + 1 \in DOMAIN elf.sections
  PROVE  LET strings == Strings0(elf, file.base)
         IN /\ strings \in Nat \ {0}
            /\ SegmentStringTable(file) = IF elf.shstrndx = 0 THEN NULL ELSE strings
            /\ StringTable(file, elf.shstrndx) = strings
            /\ \A n \in DOMAIN elf.sections : SectionName(file, n - 1) = NameOf(elf, file.base, n)
<1> DEFINE strings == Strings0(elf, file.base)
           at == elf.shstrndx
<1>1. \A n \in DOMAIN elf.sections : elf.sections[n].sh_offset \in Nat /\ elf.sections[n].sh_name \in Nat
  <2>1. \A n \in DOMAIN elf.sections : elf.sections[n] \in SectionHeaders
    BY DEF IsLinked
  <2> QED BY <2>1 DEF SectionHeaders
<1>2. strings \in Nat \ {0}
  BY <1>1 DEF Strings0
<1>3. StringSection(file) = at /\ \A n \in DOMAIN elf.sections :
         /\ SectionField(file, n - 1, "sh_offset") = elf.sections[n].sh_offset
         /\ SectionField(file, n - 1, "sh_name") = elf.sections[n].sh_name
  BY DEF AreSections, SectionFields
<1>4. file.base + SectionField(file, at, "sh_offset") = strings
  <2> DEFINE n == at + 1
  <2>1. n \in DOMAIN elf.sections /\ n - 1 = at
    OBVIOUS
  <2>2. strings = file.base + elf.sections[n].sh_offset
    BY DEF Strings0
  <2> HIDE DEF n, at, strings
  <2> QED BY <1>3, <2>1, <2>2
<1>5. SegmentStringTable(file) = (IF at = 0 THEN NULL ELSE strings) /\ StringTable(file, at) = strings
  <2> HIDE DEF strings, at
  <2> QED BY <1>3, <1>4, SectionCalls
<1>6. ASSUME NEW n \in DOMAIN elf.sections PROVE SectionName(file, n - 1) = NameOf(elf, file.base, n)
  <2>1. SectionName(file, n - 1) = IF SegmentStringTable(file) = NULL THEN Corrupted
                                   ELSE SegmentStringTable(file) + SectionField(file, n - 1, "sh_name")
    BY SectionCalls
  <2>2. NameOf(elf, file.base, n) = IF at = 0 THEN Corrupted ELSE strings + elf.sections[n].sh_name
    BY DEF NameOf
  <2>3. SectionField(file, n - 1, "sh_name") = elf.sections[n].sh_name /\ NULL = 0
    BY <1>3 DEF NULL
  <2> HIDE DEF strings, at
  <2> QED BY <1>2, <1>5, <2>1, <2>2, <2>3
<1> QED BY <1>2, <1>5, <1>6

(* A section is found by its name, the first of several.                   *)
LEMMA NamedFound ==
  ASSUME NEW elf, IsLinked(elf), NEW file, AreSections(elf, file), file.base \in Nat \ {0},
         elf.shstrndx \in Nat, elf.shstrndx + 1 \in DOMAIN elf.sections, NEW n \in DOMAIN elf.sections
  PROVE  LET named == IF elf.shstrndx = 0 THEN elf.sections[1]
                      ELSE elf.sections[FirstOf(elf, elf.sections[n].sh_name)]
         IN SectionNamed(file, SectionName(file, n - 1)) = file.base + named.sh_offset
<1> DEFINE D == DOMAIN elf.sections
           N == Len(elf.sections)
           Q(m) == NameOf(elf, file.base, m)
           name == elf.sections[n].sh_name
           string == SectionName(file, n - 1)
           names == [k \in 0 .. NumSections(file) - 1 |-> SectionName(file, k)]
           hits == {m \in D : Q(m) = Q(n)}
           ks == {k \in DOMAIN names : names[k] = string}
<1>1. IsTable(elf.sections) /\ NumSections(file) = N
  BY DEF IsLinked, IsFilled, HasTables, AreSections
<1>2. /\ \A m \in D : m \in Nat /\ m - 1 \in 0 .. N - 1
      /\ \A k \in 0 .. N - 1 : \E m \in D : m = k + 1 /\ k = m - 1
  BY <1>1, Numbered
<1>3. \A m \in D : names[m-1] = Q(m) /\ m - 1 \in DOMAIN names
  <2>1. \A m \in D : SectionName(file, m - 1) = Q(m)
    BY NamesAre
  <2> HIDE DEF D, N, Q
  <2> QED BY <1>1, <1>2, <2>1
<1>4. string = Q(n)
  BY NamesAre
<1>5. DOMAIN names = 0 .. N - 1
  BY <1>1
<1>6. PICK m \in hits : \A x \in hits : m <= x
  <2>1. n \in hits /\ hits \subseteq Nat
    BY <1>2
  <2> HIDE DEF hits
  <2> QED BY <2>1, Least
<1>7. \A s : SectionNamed(file, s) =
        IF \A k \in DOMAIN names : names[k] # s THEN NULL ELSE Section(file, FirstNamed(names, s))
  BY SectionCalls
<1>8. FirstNamed(names, string) = CHOOSE s \in ks : \A t \in ks : s <= t
  BY DEF FirstNamed
<1> HIDE DEF names, string
<1>9. m - 1 \in ks /\ ks \subseteq Int /\ \A x \in ks : m - 1 <= x
  <2>1. m - 1 \in ks
    BY <1>3, <1>4, <1>6
  <2>2. ks \subseteq Int
    BY <1>5
  <2>3. ASSUME NEW k \in ks PROVE m - 1 <= k
    <3>1. PICK x \in D : k = x - 1
      BY <1>2, <1>5
    <3>2. x \in hits
      BY <1>3, <1>4, <3>1
    <3>3. m <= x /\ m \in Nat /\ x \in Nat
      BY <1>2, <1>6, <3>2
    <3> QED BY <3>1, <3>3
  <2> QED BY <2>1, <2>2, <2>3
<1>10. FirstNamed(names, string) = m - 1
  <2> HIDE DEF ks
  <2> QED BY <1>8, <1>9, ChosenLeast
<1>11. SectionNamed(file, string) = file.base + elf.sections[m].sh_offset
  <2>1. SectionNamed(file, string) = Section(file, m - 1)
    BY <1>7, <1>9, <1>10
  <2>2. Section(file, m - 1) = file.base + SectionField(file, m - 1, "sh_offset")
    BY SectionCalls
  <2>3. SectionField(file, m - 1, "sh_offset") = elf.sections[m].sh_offset
    BY <1>6 DEF AreSections, SectionFields
  <2> QED BY <2>1, <2>2, <2>3
<1>12. CASE elf.shstrndx = 0
  <2>1. \A x \in D : Q(x) = Corrupted
    BY <1>12 DEF NameOf
  <2>2. 1 \in D
    BY <1>12
  <2>3. 1 \in hits
    BY <2>1, <2>2
  <2>4. m <= 1 /\ m \in 1..N /\ N \in Nat
    BY <1>1, <1>6, <2>3 DEF IsTable
  <2> HIDE DEF N
  <2>5. m = 1
    BY <2>4
  <2> QED BY <1>11, <1>12, <2>5 DEF string
<1>13. CASE elf.shstrndx # 0
  <2> DEFINE c == FirstOf(elf, name)
             E(x) == elf.sections[x].sh_name
  <2>1. \A x \in D : Q(x) = Q(n) <=> E(x) = name
    <3>1. \A x \in D : Q(x) = Strings0(elf, file.base) + E(x)
      BY <1>13 DEF NameOf
    <3>2. Strings0(elf, file.base) \in Nat
      BY NamesAre
    <3>3. \A x \in D : E(x) \in Nat
      <4>1. \A x \in D : elf.sections[x] \in SectionHeaders
        BY DEF IsLinked
      <4> QED BY <4>1 DEF SectionHeaders
    <3> DEFINE s == Strings0(elf, file.base)
    <3>4. s \in Nat /\ \A x \in D : Q(x) = s + E(x)
      BY <3>1, <3>2
    <3> HIDE DEF s, Q, E, D
    <3>5. \A x, y \in Nat : s + x = s + y <=> x = y
      BY <3>4
    <3>6. n \in D /\ E(n) = name
      BY DEF D, E
    <3> HIDE DEF name
    <3> QED BY <3>3, <3>4, <3>5, <3>6
  <2>2. \A x \in D : x \in hits <=> E(x) = name
    BY <2>1
  <2>3. E(m) = name /\ m \in D
    BY <1>6, <2>2
  <2>4. \A k \in 1 .. m - 1 : E(k) # name
    <3> SUFFICES ASSUME NEW k \in 1 .. m - 1, E(k) = name PROVE FALSE
      OBVIOUS
    <3>1. k \in D /\ ~(m <= k)
      <4>1. m \in 1..N /\ N \in Nat /\ D = 1..N
        BY <1>1, <2>3 DEF IsTable
      <4> HIDE DEF D, N
      <4> QED BY <4>1
    <3> QED BY <1>6, <2>2, <3>1
  <2>5. c = CHOOSE k \in D : E(k) = name /\ \A j \in 1 .. k - 1 : E(j) # name
    BY DEF FirstOf
  <2> HIDE DEF D, E, c, name, hits
  <2>6. c \in D /\ E(c) = name /\ \A j \in 1 .. c - 1 : E(j) # name
    BY <2>3, <2>4, <2>5
  <2>7. m <= c /\ m \in Nat \ {0} /\ c \in Nat
    <3>1. m \in 1..N /\ c \in 1..N /\ N \in Nat
      BY <1>1, <2>3, <2>6 DEF IsTable, D
    <3>2. m \in Nat \ {0} /\ c \in Nat
      BY <3>1
    <3> QED BY <1>6, <2>2, <2>6, <3>2
  <2>8. m \notin 1 .. c - 1
    BY <2>3, <2>6
  <2>9. c = m
    BY <2>7, <2>8
  <2> QED BY <1>11, <1>13, <2>9 DEF string, c, name
<1> QED BY <1>12, <1>13

(* The names, types, sizes, addresses and contents of the sections are     *)
(* those the linker wrote, and a section is found by its name, in files    *)
(* with any number of sections (elf_getSection...()).                      *)
THEOREM AllSectionsRead ==
  ASSUME NEW elf, IsLinked(elf), elf.class # 3, elf.magic, NEW base \in Nat \ {0}, base % 4 = 0,
         elf.class = 1 \/ base % 8 = 0,
         elf.shstrndx \in Nat, elf.shstrndx + 1 \in DOMAIN elf.sections,
         \A n \in DOMAIN elf.sections : elf.sections[n].sh_flags < Unit * Unit
  PROVE  LET found == ReadSections(File(elf, base))
             strings == base + elf.sections[elf.shstrndx + 1].sh_offset
         IN /\ found.strings = strings
            /\ found.segmentStrings = IF elf.shstrndx = 0 THEN NULL ELSE strings
            /\ found.segments = [n \in DOMAIN elf.segments |-> elf.segments[n].p_vaddr]
            /\ found.sections = [n \in DOMAIN elf.sections |->
                 LET sec == elf.sections[n]
                     named == IF elf.shstrndx = 0 THEN elf.sections[1]
                              ELSE elf.sections[FirstOf(elf, sec.sh_name)]
                 IN [name |-> IF elf.shstrndx = 0 THEN Corrupted ELSE strings + sec.sh_name,
                     flags |-> sec.sh_flags, type |-> sec.sh_type, size |-> sec.sh_size,
                     addr |-> sec.sh_addr, contents |-> base + sec.sh_offset,
                     named |-> base + named.sh_offset]]
<1> DEFINE file == File(elf, base)
           strings == Strings0(elf, base)
           Named(n) == IF elf.shstrndx = 0 THEN elf.sections[1]
                       ELSE elf.sections[FirstOf(elf, elf.sections[n].sh_name)]
           R(n) == [name |-> SectionName(file, n-1), flags |-> SectionFlags(file, n-1),
                    type |-> SectionType(file, n-1), size |-> SectionSize(file, n-1),
                    addr |-> SectionAddr(file, n-1), contents |-> Section(file, n-1),
                    named |-> SectionNamed(file, SectionName(file, n-1))]
           W(n) == [name |-> NameOf(elf, base, n),
                    flags |-> elf.sections[n].sh_flags, type |-> elf.sections[n].sh_type,
                    size |-> elf.sections[n].sh_size, addr |-> elf.sections[n].sh_addr,
                    contents |-> base + elf.sections[n].sh_offset, named |-> base + Named(n).sh_offset]
           V(n) == IF IsElf32(file) THEN SegmentField32(file, n-1, "p_vaddr")
                   ELSE SegmentField64(file, n-1, "p_vaddr")
           at == Load(file, file.base + (IF IsElf32(file) THEN 50 ELSE 62), 2)
           found == ReadSections(file)
<1>1. AreSections(elf, file) /\ IsRead(elf, file) /\ file.base = base
  <2>1. AreSections(elf, file)
    BY SectionsAre
  <2>2. IsRead(elf, file)
    BY LinkedIsRead
  <2> QED BY <2>1, <2>2 DEF File
<1>2. at = elf.shstrndx
  <2>1. elf.class \in Classes
    BY DEF IsLinked, IsFilled, HasTables
  <2>2. IF IsElf32(file) THEN IsMember(Header32, "e_shstrndx", 50, 2)
        ELSE IsMember(Header64, "e_shstrndx", 62, 2)
    <3>1. IsElf32(file) <=> elf.class = 1
      BY IdentRead DEF IsLinked, IsFilled, IsElf32, ElfClass32
    <3>2. CASE elf.class = 1
      <4>1. <<"e_shstrndx", 50, 2>> \in Layout(elf.class, "ehdr")
        BY <3>2 DEF Layout
      <4>2. \A l \in Layout(elf.class, "ehdr") : IsMember(Header32, l[1], l[2], l[3])
        BY <2>1, <3>2, StructsAreElf
      <4>3. IsMember(Header32, "e_shstrndx", 50, 2)
        BY <4>1, <4>2
      <4> QED BY <3>1, <3>2, <4>3
    <3>3. CASE elf.class # 1
      <4>1. <<"e_shstrndx", 62, 2>> \in Layout(elf.class, "ehdr")
        BY <3>3 DEF Layout
      <4>2. \A l \in Layout(elf.class, "ehdr") : IsMember(Header64, l[1], l[2], l[3])
        BY <2>1, <3>3, StructsAreElf
      <4>3. IsMember(Header64, "e_shstrndx", 62, 2)
        BY <4>1, <4>2
      <4> QED BY <3>1, <3>3, <4>3
    <3> QED BY <3>2, <3>3
  <2>3. at = StringSection(file)
    <3> HIDE DEF file
    <3> QED BY <2>2 DEF StringSection, IsMember, Field
  <2> HIDE DEF at, file
  <2> QED BY <1>1, <2>3 DEF AreSections
<1>3. found = [segmentStrings |-> SegmentStringTable(file), strings |-> StringTable(file, at),
               sections |-> [n \in 1..NumSections(file) |-> R(n)],
               segments |-> [n \in 1..NumProgramHeaders(file) |-> V(n)]]
  BY DEF ReadSections
<1> HIDE DEF file, found, at
<1>4. found.strings = strings /\ found.segmentStrings = IF elf.shstrndx = 0 THEN NULL ELSE strings
  <2>1. /\ SegmentStringTable(file) = IF elf.shstrndx = 0 THEN NULL ELSE strings
        /\ StringTable(file, elf.shstrndx) = strings
    BY <1>1, NamesAre
  <2> QED BY <1>2, <1>3, <2>1
<1>5. found.segments = [n \in DOMAIN elf.segments |-> elf.segments[n].p_vaddr]
  <2>1. found.segments = [n \in 1..NumProgramHeaders(file) |-> V(n)]
    BY <1>3
  <2>2. 1..NumProgramHeaders(file) = DOMAIN elf.segments
    BY <1>1 DEF IsRead, IsLinked, IsFilled, HasTables, IsTable
  <2>3. \A n \in DOMAIN elf.segments : V(n) = elf.segments[n].p_vaddr
    BY <1>1 DEF AreSections, SegmentField
  <2> HIDE DEF V
  <2> QED BY <2>1, <2>2, <2>3
<1>6. ASSUME NEW n \in DOMAIN elf.sections PROVE R(n) = W(n)
  <2> DEFINE F(name) == SectionField(file, n - 1, name)
             s == elf.sections[n]
  <2>1. /\ F("sh_flags") = s.sh_flags /\ F("sh_type") = s.sh_type /\ F("sh_size") = s.sh_size
        /\ F("sh_addr") = s.sh_addr /\ F("sh_offset") = s.sh_offset
    BY <1>1 DEF AreSections, SectionFields
  <2>2. s.sh_flags % (Unit * Unit) = s.sh_flags
    <3>1. s.sh_flags \in Nat
      <4>1. s \in SectionHeaders
        BY DEF IsLinked
      <4> QED BY <4>1 DEF SectionHeaders
    <3>2. \A w \in Nat \ {0} : \A x \in 0 .. w - 1 : x % w = x
      <4> SUFFICES ASSUME NEW w \in Nat \ {0}, NEW x \in 0 .. w - 1 PROVE x % w = x
        OBVIOUS
      <4>1. w * 0 + x = x
        OBVIOUS
      <4> QED BY <4>1, Unsplit
    <3>3. Unit * Unit \in Nat \ {0}
      BY UnitPowers
    <3> DEFINE w == Unit * Unit
               x == s.sh_flags
    <3>4. x < w
      OBVIOUS
    <3> HIDE DEF w, x
    <3>5. w \in Nat \ {0} /\ x \in 0 .. w - 1
      BY <3>1, <3>3, <3>4 DEF w, x
    <3>6. x % w = x
      BY <3>2, <3>5
    <3> QED BY <3>6 DEF w, x
  <2>3. /\ SectionFlags(file, n - 1) = (IF IsElf32(file) THEN F("sh_flags") ELSE F("sh_flags") % (Unit * Unit))
        /\ SectionType(file, n - 1) = F("sh_type") /\ SectionSize(file, n - 1) = F("sh_size")
        /\ SectionAddr(file, n - 1) = F("sh_addr") /\ Section(file, n - 1) = file.base + F("sh_offset")
    BY SectionCalls
  <2>4. SectionFlags(file, n - 1) = s.sh_flags
    BY <2>1, <2>2, <2>3
  <2>5. SectionName(file, n - 1) = NameOf(elf, base, n)
    BY <1>1, NamesAre
  <2>6. SectionNamed(file, SectionName(file, n - 1)) = base + Named(n).sh_offset
    BY <1>1, NamedFound
  <2> HIDE DEF F, Named
  <2> QED BY <1>1, <2>1, <2>3, <2>4, <2>5, <2>6
<1>7. found.sections = [n \in DOMAIN elf.sections |-> W(n)]
  <2>1. found.sections = [n \in 1..NumSections(file) |-> R(n)]
    BY <1>3
  <2>2. 1..NumSections(file) = DOMAIN elf.sections
    BY <1>1 DEF AreSections, IsLinked, IsFilled, HasTables, IsTable
  <2> HIDE DEF R, W
  <2> QED BY <1>6, <2>1, <2>2
<1> QED BY <1>4, <1>5, <1>7 DEF Strings0, NameOf, found, file

(* The section functions answer right (elf_getSection...()).               *)
THEOREM SectionsAreRead == Spec => []SectionsRead
<1>1. ElfAnswer => SectionsRead
  <2> DEFINE elf == question.elf
             base == question.file.base
             file == question.file
  <2> SUFFICES ASSUME ElfAnswer, Answered("elf"), Len(answer) = 4, elf.class = 1 \/ base % 8 = 0
               PROVE  SectionsRead
    BY DEF SectionsRead
  <2>1. /\ elf \in GoodElves /\ IsLinked(elf) /\ base \in {64, 68} /\ base % 4 = 0 /\ file = File(elf, base)
        /\ elf.shstrndx \in Nat /\ elf.shstrndx + 1 \in DOMAIN elf.sections
        /\ (~elf.magic \/ elf.class = 3 => Len(answer) = 3)
        /\ (elf.magic /\ elf.class # 3 => answer[2] = ReadSections(file))
    BY ElfAnswered
  <2>2. elf.magic /\ elf.class # 3 /\ answer[2] = ReadSections(file)
    BY <2>1
  <2>3. base \in Nat \ {0}
    BY <2>1
  <2>4. \A n \in DOMAIN elf.sections : elf.sections[n].sh_flags < Unit * Unit
    BY <2>1, ElvesLinked
  <2> DEFINE strings == base + elf.sections[elf.shstrndx + 1].sh_offset
             found == answer[2]
  <2> HIDE DEF elf, base, file
  <2>5. /\ found.strings = strings
        /\ found.segmentStrings = IF elf.shstrndx = 0 THEN NULL ELSE strings
        /\ found.segments = [n \in DOMAIN elf.segments |-> elf.segments[n].p_vaddr]
        /\ found.sections = [n \in DOMAIN elf.sections |->
             LET sec == elf.sections[n]
                 named == IF elf.shstrndx = 0 THEN elf.sections[1]
                          ELSE elf.sections[FirstOf(elf, sec.sh_name)]
             IN [name |-> IF elf.shstrndx = 0 THEN Corrupted ELSE strings + sec.sh_name,
                 flags |-> sec.sh_flags, type |-> sec.sh_type, size |-> sec.sh_size,
                 addr |-> sec.sh_addr, contents |-> base + sec.sh_offset,
                 named |-> base + named.sh_offset]]
    <3>1. elf.class = 1 \/ base % 8 = 0
      BY DEF elf, base
    <3>2. found = ReadSections(File(elf, base))
      BY <2>1, <2>2
    <3> HIDE DEF found
    <3> QED BY <2>1, <2>2, <2>3, <2>4, <3>1, <3>2, AllSectionsRead
  <2> QED BY <2>5 DEF SectionsRead, elf, base
<1> QED BY <1>1, ElfAnswers, PTL

(* The addresses of a segment, and that no two segments share one.         *)
Place(s, address) == s[address] .. s[address] + s.p_memsz - 1
Apart(ss, address) ==
  \A m, n \in DOMAIN ss : \A a \in Place(ss[m], address) : a \in Place(ss[n], address) => m = n

(* No two segments of the files asked for do.                              *)
LEMMA AskedApart ==
  ASSUME NEW class \in Classes, NEW ss \in SegmentLists(class), NEW address \in Addresses
  PROVE  Apart(ss, address)
<1> DEFINE hi == High(class)
           text == Seg(1, 5, 100, hi + 3000, hi + 500, 7, 7)
           data == Seg(1, 6, 300, hi + 3010, hi + 400, 3, 9)
           stack == Seg(7, 6, 0, 1, 2, 0, 0)
           P(s) == Place(s, address)
           None(s, t) == \A a \in P(s) : a \notin P(t)
<1>1. hi \in Nat
  BY AskedFit
<1>2. /\ P(text) = (IF address = "p_vaddr" THEN hi + 3000 .. hi + 3000 + 7 - 1 ELSE hi + 500 .. hi + 500 + 7 - 1)
      /\ P(data) = (IF address = "p_vaddr" THEN hi + 3010 .. hi + 3010 + 9 - 1 ELSE hi + 400 .. hi + 400 + 9 - 1)
      /\ P(stack) = (IF address = "p_vaddr" THEN 1 .. 1 + 0 - 1 ELSE 2 .. 2 + 0 - 1)
  <2> HIDE DEF hi
  <2> QED BY DEF Place, Seg, Addresses
<1>3. ss \in {<<>>, <<text>>, <<text, data>>, <<stack, data, text>>}
  BY DEF SegmentLists
<1> HIDE DEF text, data, stack, P, hi
<1>4. None(text, data) /\ None(data, text)
  <2>1. CASE address = "p_vaddr"
    BY <1>1, <1>2, <2>1
  <2>2. CASE address # "p_vaddr"
    BY <1>1, <1>2, <2>2
  <2> QED BY <2>1, <2>2
<1>5. P(stack) = {}
  <2>1. 1 .. 1 + 0 - 1 = {} /\ 2 .. 2 + 0 - 1 = {}
    OBVIOUS
  <2> QED BY <1>2, <2>1
<1>6. \A s, t \in {text, data, stack} : s # t => None(s, t)
  BY <1>4, <1>5
<1> HIDE DEF None
<1>7. ASSUME NEW m \in DOMAIN ss, NEW n \in DOMAIN ss, m # n
      PROVE  None(ss[m], ss[n])
  <2>1. CASE ss \in {<<>>, <<text>>}
    BY <1>7, <2>1
  <2>2. CASE ss = <<text, data>>
    <3>1. (m = 1 /\ n = 2) \/ (m = 2 /\ n = 1)
      BY <1>7, <2>2
    <3> QED BY <1>4, <2>2, <3>1
  <2>3. CASE ss = <<stack, data, text>>
    <3>1. m \in {1, 2, 3} /\ n \in {1, 2, 3} /\ ss[1] = stack /\ ss[2] = data /\ ss[3] = text
      BY <2>3
    <3>2. None(stack, data) /\ None(stack, text) /\ None(data, stack) /\ None(text, stack)
      BY <1>5 DEF None
    <3> QED BY <1>4, <1>7, <3>1, <3>2
  <2> QED BY <1>3, <2>1, <2>2, <2>3
<1> QED BY <1>7 DEF Apart, None, P

(* The segments of a file asked about share no address.                    *)
LEMMA ElvesApart ==
  ASSUME NEW elf \in GoodElves
  PROVE  \A address \in Addresses : Apart(elf.segments, address)
<1>1. PICK class \in Classes :
        elf \in [class : {class}, magic : BOOLEAN, entry : {High(class) + 3001},
                 shstrndx : {0, 2}, segments : SegmentLists(class), sections : SectionLists(class)]
  BY DEF GoodElves, Elves, Classes
<1> QED BY <1>1, AskedApart

(* The segments of a file, by number and by address.                       *)
LEMMA PlacesAre ==
  ASSUME NEW elf, IsLinked(elf), NEW file, IsRead(elf, file), NEW n \in DOMAIN elf.segments,
         NEW phys \in BOOLEAN
  PROVE  LET address == IF phys THEN "p_paddr" ELSE "p_vaddr"
             s == elf.segments[n]
         IN /\ address \in Addresses /\ s[address] \in Nat /\ s.p_memsz \in Nat /\ s.p_filesz \in Nat
            /\ s.p_offset \in Nat /\ s.p_filesz <= s.p_memsz /\ s[address] + s.p_memsz < Word64
            /\ Dest(file, n - 1, phys) = s[address] /\ MemBytes(file, n - 1) = s.p_memsz
            /\ FileBytes(file, n - 1) = s.p_filesz /\ FileOffset(file, n - 1) = s.p_offset
            /\ Covered(file, n - 1, phys) = Place(s, address)
            /\ SegmentFits(file, n - 1, phys)
<1> DEFINE address == IF phys THEN "p_paddr" ELSE "p_vaddr"
           s == elf.segments[n]
<1>1. {address, "p_memsz", "p_filesz", "p_offset"} \subseteq SegmentFields /\ address \in Addresses
  BY DEF SegmentFields, InfoFields, Addresses
<1>2. /\ ProgramHeader(file, n - 1, address) = s[address]
      /\ ProgramHeader(file, n - 1, "p_memsz") = s.p_memsz
      /\ ProgramHeader(file, n - 1, "p_filesz") = s.p_filesz
      /\ ProgramHeader(file, n - 1, "p_offset") = s.p_offset
  BY <1>1 DEF IsRead
<1>3. s \in SegmentHeaders /\ HasRoom(s)
  BY DEF IsLinked
<1>4. s[address] \in Nat /\ s.p_memsz \in Nat /\ s.p_filesz \in Nat /\ s.p_offset \in Nat
  BY <1>3 DEF SegmentHeaders
<1>5. s.p_filesz <= s.p_memsz /\ s[address] + s.p_memsz < Word64
  BY <1>1, <1>3 DEF HasRoom
<1>6. /\ Dest(file, n - 1, phys) = s[address] /\ MemBytes(file, n - 1) = s.p_memsz
      /\ FileBytes(file, n - 1) = s.p_filesz /\ FileOffset(file, n - 1) = s.p_offset
  BY <1>2 DEF Dest, AddressOf, MemBytes, FileBytes, FileOffset
<1> HIDE DEF s, address
<1>7. Covered(file, n - 1, phys) = Place(s, address)
  BY <1>6 DEF Covered, Place
<1>8. s.p_memsz < Word64 /\ s[address] + s.p_memsz <= Word64
  BY <1>4, <1>5, WordPositive
<1>9. SegmentFits(file, n - 1, phys)
  BY <1>4, <1>5, <1>6, <1>8 DEF SegmentFits
<1> QED BY <1>1, <1>4, <1>5, <1>6, <1>7, <1>9 DEF s, address

(* The bounds of a file hold each of its segments.                         *)
LEMMA BoundHolds ==
  ASSUME NEW elf, IsLinked(elf), NEW address \in Addresses, NEW n \in DOMAIN elf.segments,
         elf.segments[n].p_memsz # 0
  PROVE  LET bound == Bound(elf, address)
             s == elf.segments[n]
         IN /\ bound[1] <= s[address] /\ s[address] + s.p_memsz <= bound[2]
            /\ bound[1] \in Nat /\ bound[2] \in Nat
<1> DEFINE D == DOMAIN elf.segments
           P(k) == elf.segments[k][address]
           M(k) == elf.segments[k].p_memsz
           hs == {k \in D : M(k) # 0}
           starts == {P(k) : k \in hs}
           ends == {P(k) + M(k) : k \in hs}
           low == CHOOSE a \in starts : \A k \in hs : a <= P(k)
           high == CHOOSE a \in ends : \A k \in hs : P(k) + M(k) <= a
<1>1. n \in hs
  OBVIOUS
<1>2. Bound(elf, address) = <<low, high>>
  BY <1>1 DEF Bound
<1>3. \A k \in D : P(k) \in Nat /\ M(k) \in Nat /\ P(k) + M(k) < Word64
  <2> SUFFICES ASSUME NEW k \in D PROVE P(k) \in Nat /\ M(k) \in Nat /\ P(k) + M(k) < Word64
    OBVIOUS
  <2>1. elf.segments[k] \in SegmentHeaders /\ HasRoom(elf.segments[k])
    BY DEF IsLinked
  <2>2. P(k) \in Nat /\ M(k) \in Nat
    BY <2>1 DEF SegmentHeaders, Addresses
  <2> QED BY <2>1, <2>2 DEF HasRoom
<1> HIDE DEF P, M, D
<1>4. \A k \in hs : P(k) \in Nat /\ P(k) + M(k) \in 0 .. Word64
  BY <1>3, WordPositive
<1> HIDE DEF hs
<1>5. \E a \in starts : \A k \in hs : a <= P(k)
  <2>1. starts \subseteq Nat /\ starts # {}
    BY <1>1, <1>4
  <2>2. \A k \in hs : P(k) \in starts
    OBVIOUS
  <2> HIDE DEF starts
  <2> QED BY <2>1, <2>2, Least
<1>6. \E a \in ends : \A k \in hs : P(k) + M(k) <= a
  <2>1. ends \subseteq 0 .. Word64 /\ ends # {}
    BY <1>1, <1>4
  <2>2. \A k \in hs : P(k) + M(k) \in ends
    OBVIOUS
  <2> HIDE DEF ends
  <2>3. PICK x \in ends : \A y \in ends : y <= x
    BY <2>1, WordPositive, Greatest
  <2> QED BY <2>2, <2>3
<1>7. /\ low <= P(n) /\ P(n) + M(n) <= high
      /\ low \in starts /\ high \in ends
  BY <1>1, <1>5, <1>6
<1>8. starts \subseteq Nat /\ ends \subseteq Nat
  BY <1>4
<1> HIDE DEF low, high
<1>9. Bound(elf, address)[1] = low /\ Bound(elf, address)[2] = high
  BY <1>2
<1> QED BY <1>7, <1>9, <1>8 DEF P, M

(* elf_vtopProgramHeader() takes the addresses of a segment to those it is *)
(* loaded at.                                                              *)
LEMMA Translated ==
  ASSUME NEW elf, IsLinked(elf), NEW file, IsRead(elf, file), NEW n \in DOMAIN elf.segments
  PROVE  LET s == elf.segments[n]
         IN /\ \A a \in Place(s, "p_vaddr") :
                 /\ VtopProgramHeader(file, n - 1, a) = a - s.p_vaddr + s.p_paddr
                 /\ VtopProgramHeader(file, n - 1, a) \in Place(s, "p_paddr")
            /\ \A p \in Place(s, "p_paddr") :
                 \E a \in Place(s, "p_vaddr") : p = VtopProgramHeader(file, n - 1, a)
            /\ \A a \in Int : VaddrInProgramHeader(file, n - 1, a) <=> a \in Place(s, "p_vaddr")
<1> DEFINE s == elf.segments[n]
           v == s.p_vaddr
           p0 == s.p_paddr
           m == s.p_memsz
           T(a) == VtopProgramHeader(file, n - 1, a)
<1>1. /\ v \in Nat /\ p0 \in Nat /\ m \in Nat /\ v + m < Word64 /\ p0 + m < Word64
      /\ TRUE \in BOOLEAN /\ FALSE \in BOOLEAN
  <2>1. TRUE \in BOOLEAN /\ FALSE \in BOOLEAN
    OBVIOUS
  <2>2. s \in SegmentHeaders /\ HasRoom(s)
    BY DEF IsLinked
  <2> QED BY <2>1, <2>2 DEF SegmentHeaders, HasRoom, Addresses
<1>2. /\ ProgramHeader(file, n - 1, "p_vaddr") = v /\ ProgramHeader(file, n - 1, "p_paddr") = p0
      /\ ProgramHeader(file, n - 1, "p_memsz") = m
  BY DEF IsRead, SegmentFields, InfoFields
<1>3. Place(s, "p_vaddr") = v .. v + m - 1 /\ Place(s, "p_paddr") = p0 .. p0 + m - 1
  BY DEF Place
<1>4. /\ \A a : T(a) = (a - v + p0) % Word64
      /\ (v + m) % Word64 = v + m
      /\ \A a : VaddrInProgramHeader(file, n - 1, a) <=> v <= a /\ a < (v + m) % Word64
  <2>1. v + m \in Nat
    BY <1>1
  <2>2. (v + m) % Word64 = v + m
    BY <1>1, <2>1, ZerosBehind
  <2> HIDE DEF v, m, p0, s
  <2> QED BY <1>2, <2>2 DEF VtopProgramHeader, VaddrInProgramHeader
<1> HIDE DEF s, v, p0, m, T
<1>5. ASSUME NEW a \in v .. v + m - 1 PROVE T(a) = a - v + p0 /\ T(a) \in p0 .. p0 + m - 1
  <2>1. a - v + p0 \in Nat /\ a - v + p0 < Word64 /\ a - v + p0 \in p0 .. p0 + m - 1
    BY <1>1, WordPositive
  <2> DEFINE t == a - v + p0
  <2> HIDE DEF t
  <2>2. t % Word64 = t
    BY <2>1, ZerosBehind DEF t
  <2>3. T(a) = t
    BY <1>4, <2>2 DEF t
  <2> QED BY <2>1, <2>3 DEF t
<1>6. ASSUME NEW p \in p0 .. p0 + m - 1 PROVE \E a \in v .. v + m - 1 : p = T(a)
  <2> DEFINE a == p - p0 + v
  <2>1. a \in v .. v + m - 1 /\ a - v + p0 = p
    BY <1>1
  <2> HIDE DEF a
  <2> QED BY <1>5, <2>1
<1>7. \A a \in Int : VaddrInProgramHeader(file, n - 1, a) <=> a \in v .. v + m - 1
  <2>1. \A a \in Int : v <= a /\ a < v + m <=> a \in v .. v + m - 1
    BY <1>1
  <2> QED BY <1>4, <2>1
<1> QED BY <1>3, <1>5, <1>6, <1>7 DEF s, v, p0, T

(* The headers of a file are its segments.                                 *)
Numbers(n, ph) == ph = n - 1

(* The program header numbers are the segments', counted from zero.        *)
LEMMA SegmentsNumbered ==
  ASSUME NEW elf, IsLinked(elf), NEW file, IsRead(elf, file)
  PROVE  /\ NumProgramHeaders(file) \in Nat
         /\ \A n \in DOMAIN elf.segments : Numbers(n, n - 1) /\ n - 1 \in Headers(file)
         /\ \A ph \in Headers(file) : \E n \in DOMAIN elf.segments : Numbers(n, ph)
<1>1. /\ NumProgramHeaders(file) = Len(elf.segments) /\ IsTable(elf.segments)
      /\ Len(elf.segments) \in Nat
  BY DEF IsRead, IsLinked, IsFilled, HasTables, IsTable
<1>2. \A n \in DOMAIN elf.segments : n - 1 \in Headers(file)
  BY <1>1, Numbered DEF Headers
<1>3. \A ph \in Headers(file) : \E n \in DOMAIN elf.segments : Numbers(n, ph)
  BY <1>1, Numbered DEF Headers, Numbers
<1>4. NumProgramHeaders(file) \in Nat
  BY <1>1
<1> QED BY <1>2, <1>3, <1>4 DEF Numbers

(* A file without shared addresses keeps its segments apart once loaded.   *)
LEMMA LoadedApart ==
  ASSUME NEW elf, IsLinked(elf), NEW file, IsRead(elf, file),
         \A address \in Addresses : Apart(elf.segments, address), NEW phys \in BOOLEAN
  PROVE  (\A ph \in Headers(file) : SegmentFits(file, ph, phys)) /\ SegmentsApart(file, phys)
<1> DEFINE address == IF phys THEN "p_paddr" ELSE "p_vaddr"
<1>1. ASSUME NEW ph \in Headers(file) PROVE SegmentFits(file, ph, phys)
  <2>1. PICK n \in DOMAIN elf.segments : Numbers(n, ph)
    BY SegmentsNumbered
  <2> QED BY <2>1, PlacesAre DEF Numbers
<1>2. ASSUME NEW p \in Headers(file), NEW q \in Headers(file), NEW a \in Covered(file, p, phys),
             a \in Covered(file, q, phys)
      PROVE  p = q
  <2>1. PICK m \in DOMAIN elf.segments : Numbers(m, p)
    BY SegmentsNumbered
  <2>2. PICK n \in DOMAIN elf.segments : Numbers(n, q)
    BY SegmentsNumbered
  <2>3. /\ address \in Addresses
        /\ Covered(file, p, phys) = Place(elf.segments[m], address)
        /\ Covered(file, q, phys) = Place(elf.segments[n], address)
    BY <2>1, <2>2, PlacesAre DEF Numbers
  <2> HIDE DEF address
  <2>4. m = n
    BY <1>2, <2>3 DEF Apart
  <2> QED BY <2>1, <2>2, <2>4 DEF Numbers
<1> QED BY <1>1, <1>2 DEF SegmentsApart

(* What elf_loadFile() leaves by virtual and by physical address.          *)
IsLoaded(elf, file, virt, phys, bound) ==
  LET Of(n) == elf.segments[n].p_vaddr .. elf.segments[n].p_vaddr + elf.segments[n].p_memsz - 1
  IN /\ DOMAIN virt = UNION {Of(n) : n \in DOMAIN elf.segments}
     /\ \A n \in DOMAIN elf.segments : \A a \in DOMAIN virt :
          VaddrInProgramHeader(file, n - 1, a) <=> a \in Of(n)
     /\ DOMAIN phys = {VtopProgramHeader(file, na[1] - 1, na[2]) :
          na \in {x \in (DOMAIN elf.segments) \X (DOMAIN virt) : x[2] \in Of(x[1])}}
     /\ \A a \in DOMAIN phys : bound[1] <= a /\ a < bound[2]
     /\ \A n \in DOMAIN elf.segments : \A a \in Of(n) :
          LET at == a - elf.segments[n].p_vaddr
          IN /\ virt[a] = IF at < elf.segments[n].p_filesz THEN elf.segments[n].p_offset + at
                          ELSE ZeroByte
             /\ phys[VtopProgramHeader(file, n - 1, a)] = virt[a]

(* elf_loadFile(), elf_vtopProgramHeader() and elf_getMemoryBounds() agree *)
(* on any file whose segments share no address: what is loaded by virtual  *)
(* address is each segment, bytes of the file and zeros behind them; by    *)
(* physical address the same is found at the translated addresses, nothing *)
(* lies elsewhere, and all of it lies within the bounds.                   *)
THEOREM LoadedAsLinked ==
  ASSUME NEW elf, IsLinked(elf), NEW file, IsRead(elf, file),
         \A address \in Addresses : Apart(elf.segments, address)
  PROVE  IsLoaded(elf, file, LoadFile(file, FALSE), LoadFile(file, TRUE), MemoryBounds(file, TRUE))
<1> DEFINE virt == LoadFile(file, FALSE)
           phys == LoadFile(file, TRUE)
           D == DOMAIN elf.segments
           Of(n) == elf.segments[n].p_vaddr .. elf.segments[n].p_vaddr + elf.segments[n].p_memsz - 1
           At(n) == Place(elf.segments[n], "p_paddr")
           T(n, a) == VtopProgramHeader(file, n - 1, a)
           bound == Bound(elf, "p_paddr")
<1>1. /\ CheckFile(file) = 0 /\ NumProgramHeaders(file) \in Nat
      /\ \A p \in BOOLEAN : (\A ph \in Headers(file) : SegmentFits(file, ph, p)) /\ SegmentsApart(file, p)
  BY SegmentsNumbered, LoadedApart DEF IsRead
<1>2. \A n : Of(n) = Place(elf.segments[n], "p_vaddr")
  BY DEF Place
<1> HIDE DEF Of
<1>3. /\ \A n \in D : /\ n - 1 \in Headers(file) /\ Numbers(n, n - 1)
                      /\ \A ph : Numbers(n, ph) =>
                           Covered(file, ph, FALSE) = Of(n) /\ Covered(file, ph, TRUE) = At(n)
      /\ \A ph \in Headers(file) : \E n \in D : Numbers(n, ph)
  <2>1. ASSUME NEW n \in D PROVE Covered(file, n - 1, FALSE) = Of(n) /\ Covered(file, n - 1, TRUE) = At(n)
    <3>1. \A p \in BOOLEAN :
            Covered(file, n - 1, p) = Place(elf.segments[n], IF p THEN "p_paddr" ELSE "p_vaddr")
      BY PlacesAre
    <3> QED BY <1>2, <3>1
  <2>2. ASSUME NEW n \in D, NEW ph, Numbers(n, ph)
        PROVE  Covered(file, ph, FALSE) = Of(n) /\ Covered(file, ph, TRUE) = At(n)
    BY <2>1, <2>2 DEF Numbers
  <2> QED BY <2>2, SegmentsNumbered
<1>4. /\ \A a : a \in DOMAIN virt <=> \E n \in D : a \in Of(n)
      /\ \A a : a \in DOMAIN phys <=> \E n \in D : a \in At(n)
  <2>1. \A p \in BOOLEAN : \A a :
          a \in DOMAIN LoadFile(file, p) <=> \E ph \in Headers(file) : a \in Covered(file, ph, p)
    BY <1>1, FileIsLoaded
  <2>2. \A a : a \in DOMAIN virt <=> \E ph \in Headers(file) : a \in Covered(file, ph, FALSE)
    BY <2>1
  <2>3. \A a : a \in DOMAIN phys <=> \E ph \in Headers(file) : a \in Covered(file, ph, TRUE)
    BY <2>1
  <2> HIDE DEF virt, phys, D, Of, At
  <2>4. ASSUME NEW n \in D
        PROVE  /\ n - 1 \in Headers(file)
               /\ Covered(file, n - 1, FALSE) = Of(n) /\ Covered(file, n - 1, TRUE) = At(n)
    BY <1>3
  <2>5. ASSUME NEW ph \in Headers(file)
        PROVE  \E n \in D : Covered(file, ph, FALSE) = Of(n) /\ Covered(file, ph, TRUE) = At(n)
    <3>1. PICK n \in D : Numbers(n, ph)
      BY <1>3
    <3> QED BY <1>3, <3>1
  <2>6. \A a : a \in DOMAIN virt <=> \E n \in D : a \in Of(n)
    <3>1. ASSUME NEW a \in DOMAIN virt PROVE \E n \in D : a \in Of(n)
      <4>1. PICK ph \in Headers(file) : a \in Covered(file, ph, FALSE)
        BY <2>2
      <4>2. PICK n \in D : Covered(file, ph, FALSE) = Of(n)
        BY <2>5
      <4> QED BY <4>1, <4>2
    <3>2. ASSUME NEW n \in D, NEW a \in Of(n) PROVE a \in DOMAIN virt
      <4>1. n - 1 \in Headers(file) /\ a \in Covered(file, n - 1, FALSE)
        BY <2>4
      <4> QED BY <2>2, <4>1
    <3> QED BY <3>1, <3>2
  <2>7. \A a : a \in DOMAIN phys <=> \E n \in D : a \in At(n)
    <3>1. ASSUME NEW a \in DOMAIN phys PROVE \E n \in D : a \in At(n)
      <4>1. PICK ph \in Headers(file) : a \in Covered(file, ph, TRUE)
        BY <2>3
      <4>2. PICK n \in D : Covered(file, ph, TRUE) = At(n)
        BY <2>5
      <4> QED BY <4>1, <4>2
    <3>2. ASSUME NEW n \in D, NEW a \in At(n) PROVE a \in DOMAIN phys
      <4>1. n - 1 \in Headers(file) /\ a \in Covered(file, n - 1, TRUE)
        BY <2>4
      <4> QED BY <2>3, <4>1
    <3> QED BY <3>1, <3>2
  <2> QED BY <2>6, <2>7
<1>5. \A n \in D : /\ \A a \in Of(n) : T(n, a) \in At(n)
                   /\ \A p \in At(n) : \E a \in Of(n) : p = T(n, a)
                   /\ \A a \in Int : VaddrInProgramHeader(file, n - 1, a) <=> a \in Of(n)
  BY <1>2, Translated
<1>6. DOMAIN virt = UNION {Of(n) : n \in D}
  <2> HIDE DEF virt, D, Of
  <2> QED BY <1>4
<1>7. ASSUME NEW n \in D, NEW a \in DOMAIN virt
      PROVE  VaddrInProgramHeader(file, n - 1, a) <=> a \in Of(n)
  <2>1. PICK k \in D : a \in Of(k)
    BY <1>4
  <2>2. a \in Int
    BY <2>1 DEF Of
  <2> QED BY <1>5, <2>2
<1>8. DOMAIN phys = {T(na[1], na[2]) : na \in {x \in D \X (DOMAIN virt) : x[2] \in Of(x[1])}}
  <2> DEFINE pairs == {x \in D \X (DOMAIN virt) : x[2] \in Of(x[1])}
  <2>1. ASSUME NEW p \in DOMAIN phys PROVE \E x \in pairs : p = T(x[1], x[2])
    <3>1. PICK n \in D : p \in At(n)
      BY <1>4
    <3>2. PICK a \in Of(n) : p = T(n, a)
      BY <1>5, <3>1
    <3> DEFINE x == <<n, a>>
    <3>3. x[1] = n /\ x[2] = a /\ a \in DOMAIN virt
      BY <1>4
    <3>4. x \in pairs
      <4> HIDE DEF Of, virt, D
      <4> QED BY <3>3
    <3> HIDE DEF x, T, pairs
    <3> QED BY <3>2, <3>3, <3>4
  <2>2. ASSUME NEW x \in pairs PROVE T(x[1], x[2]) \in DOMAIN phys
    <3>1. x[1] \in D /\ x[2] \in Of(x[1])
      OBVIOUS
    <3> HIDE DEF T, Of, At, D, phys, virt
    <3> QED BY <1>4, <1>5, <3>1
  <2> HIDE DEF pairs, T, phys
  <2>3. DOMAIN phys = {T(x[1], x[2]) : x \in pairs}
    BY <2>1, <2>2
  <2> QED BY <2>3 DEF pairs
<1>9. ASSUME NEW a \in DOMAIN phys PROVE bound[1] <= a /\ a < bound[2]
  <2>1. PICK n \in D : a \in At(n)
    BY <1>4
  <2> DEFINE s == elf.segments[n]
  <2>2. s.p_paddr \in Nat /\ s.p_memsz \in Nat
    <3>1. s \in SegmentHeaders
      BY DEF IsLinked
    <3> QED BY <3>1 DEF SegmentHeaders
  <2>3. a \in s.p_paddr .. s.p_paddr + s.p_memsz - 1
    BY <2>1 DEF Place
  <2>4. s.p_memsz # 0
    BY <2>2, <2>3
  <2>5. /\ bound[1] <= s.p_paddr /\ s.p_paddr + s.p_memsz <= bound[2]
        /\ bound[1] \in Nat /\ bound[2] \in Nat
    BY <2>4, BoundHolds DEF Addresses
  <2> HIDE DEF s, bound
  <2> QED BY <2>2, <2>3, <2>5
<1>10. ASSUME NEW n \in D, NEW a \in Of(n)
      PROVE  LET at == a - elf.segments[n].p_vaddr
             IN /\ virt[a] = IF at < elf.segments[n].p_filesz THEN elf.segments[n].p_offset + at
                             ELSE ZeroByte
                /\ phys[T(n, a)] = virt[a]
  <2> DEFINE s == elf.segments[n]
  <2>1. n - 1 \in Headers(file) /\ a \in Covered(file, n - 1, FALSE)
    BY <1>3
  <2>2. virt[a] = ByteAt(file, n - 1, FALSE, a)
    BY <1>1, <2>1, SegmentIsLoaded
  <2>3. phys[T(n, a)] = virt[a]
    BY <1>1, <2>1, LoadedAlike
  <2>4. \A p \in BOOLEAN : LET d == s[IF p THEN "p_paddr" ELSE "p_vaddr"]
          IN /\ Dest(file, n - 1, p) = d /\ d \in Nat /\ s.p_filesz \in Nat
             /\ FileBytes(file, n - 1) = s.p_filesz /\ FileOffset(file, n - 1) = s.p_offset
    BY PlacesAre
  <2>5. /\ Dest(file, n - 1, FALSE) = s.p_vaddr /\ s.p_vaddr \in Nat /\ s.p_filesz \in Nat
        /\ FileBytes(file, n - 1) = s.p_filesz /\ FileOffset(file, n - 1) = s.p_offset
    BY <2>4
  <2>6. a \in Int
    BY DEF Of
  <2> HIDE DEF s, T, virt, phys
  <2>7. ByteAt(file, n - 1, FALSE, a) =
          IF a < s.p_vaddr + s.p_filesz THEN s.p_offset + (a - s.p_vaddr) ELSE ZeroByte
    BY <2>5 DEF ByteAt
  <2>8. a < s.p_vaddr + s.p_filesz <=> a - s.p_vaddr < s.p_filesz
    BY <2>5, <2>6
  <2>9. virt[a] = IF a - s.p_vaddr < s.p_filesz THEN s.p_offset + (a - s.p_vaddr) ELSE ZeroByte
    BY <2>2, <2>7, <2>8
  <2> QED BY <2>3, <2>9 DEF s
<1>11. MemoryBounds(file, TRUE) = bound
  BY BoundsRead
<1> DEFINE bounds == MemoryBounds(file, TRUE)
<1>12. \A a \in DOMAIN phys : bounds[1] <= a /\ a < bounds[2]
  BY <1>9, <1>11
<1> QED BY <1>6, <1>7, <1>8, <1>10, <1>12 DEF IsLoaded, Of

(* elf_loadFile() loads the files asked for as they are linked.            *)
THEOREM FilesAreLoaded == Spec => []ElfLoads
<1>1. ElfAnswer => ElfLoads
  <2> DEFINE elf == question.elf
             base == question.file.base
             file == question.file
  <2> SUFFICES ASSUME ElfAnswer, Answered("elf"), Len(answer) = 4
               PROVE  ElfLoads
    BY DEF ElfLoads
  <2>1. /\ elf \in GoodElves /\ IsLinked(elf) /\ base \in Nat /\ base % 4 = 0 /\ file = File(elf, base)
        /\ (~elf.magic \/ elf.class = 3 => Len(answer) = 3)
        /\ (elf.magic /\ elf.class # 3 =>
              answer[1] = ReadAll(file) /\ answer[3] = LoadFile(file, FALSE) /\ answer[4] = LoadFile(file, TRUE))
    BY ElfAnswered
  <2> HIDE DEF elf, base, file
  <2>2. /\ elf.magic /\ elf.class # 3
        /\ answer[1] = ReadAll(file) /\ answer[3] = LoadFile(file, FALSE) /\ answer[4] = LoadFile(file, TRUE)
    <3>1. Len(answer) # 3
      OBVIOUS
    <3>2. elf.magic /\ elf.class # 3
      BY ONLY <2>1, <3>1, Zenon
    <3> QED BY ONLY <2>1, <3>2, Zenon
  <2>3. \A address \in Addresses : Apart(elf.segments, address)
    BY <2>1, ElvesApart
  <2>4. IsRead(elf, file)
    BY <2>1, <2>2, LinkedIsRead
  <2>5. answer[1].physical = MemoryBounds(file, TRUE)
    BY <2>2 DEF ReadAll
  <2>6. IsLoaded(elf, file, answer[3], answer[4], answer[1].physical)
    BY <2>1, <2>2, <2>3, <2>4, <2>5, LoadedAsLinked
  <2> QED BY <2>6 DEF ElfLoads, IsLoaded, elf, file
<1> QED BY <1>1, ElfAnswers, PTL
=============================================================================
