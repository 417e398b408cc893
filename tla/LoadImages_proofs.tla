-------------------------- MODULE LoadImages_proofs --------------------------
(***************************************************************************)
(* Proofs about LoadImages, for every size of pages and of addresses and   *)
(* for every archive.                                                      *)
(***************************************************************************)
EXTENDS LoadImages, WellFoundedInduction, TLAPS

(***************************************************************************)
(* Arithmetic: least elements, and rounding to pages                       *)
(***************************************************************************)
(* A non-empty set of naturals has a least element.                        *)
LEMMA Least ==
  ASSUME NEW T, T \subseteq Nat, T # {}
  PROVE  \E x \in T : \A y \in T : x <= y
<1>1. PICK x \in T : \A y \in T : ~ (<<y, x>> \in OpToRel(<, Nat))
  BY NatLessThanWellFounded, WFMin
<1>2. \A y \in T : ~ (y < x)
  BY <1>1 DEF OpToRel
<1> QED BY <1>2

LEMMA MinIsLeast ==
  ASSUME NEW T, T \subseteq Nat, T # {}
  PROVE  Min(T) \in T /\ \A y \in T : Min(T) <= y
<1>1. \E x \in T : \A y \in T : x =< y
  BY Least
<1> QED BY <1>1 DEF Min

LEMMA MaxIsGreatest ==
  ASSUME NEW n \in Nat, NEW T, T \subseteq 0..n, T # {}
  PROVE  Max(T) \in T /\ \A y \in T : y <= Max(T)
<1> DEFINE U == {n - y : y \in T}
<1>1. PICK u \in U : \A y \in U : u <= y
  <2>1. \A y \in T : n - y \in Nat
    OBVIOUS
  <2>2. U \subseteq Nat /\ U # {}
    BY <2>1
  <2> QED BY <2>2, Least
<1>2. PICK x \in T : u = n - x
  BY <1>1
<1>3. \A y \in T : x >= y
  <2> SUFFICES ASSUME NEW y \in T PROVE x >= y
    OBVIOUS
  <2>1. n - y \in U
    OBVIOUS
  <2>2. n - x <= n - y
    BY <1>1, <1>2, <2>1
  <2> QED BY <2>2
<1> QED BY <1>2, <1>3 DEF Max

(* Numbers below w, and one w above them, are their own remainders.        *)
LEMMA Remainder ==
  ASSUME NEW w \in Nat \ {0}, NEW a \in Int, 0 <= a, a < w
  PROVE  a % w = a /\ (a + w) % w = a /\ (a - w) % w = a
<1>1. a = w * 0 + a /\ a + w = w * 1 + a /\ a - w = w * (-1) + a
  OBVIOUS
<1>2. \A q \in Int : (w * q + a) % w = a
  OBVIOUS
<1> QED BY <1>1, <1>2

(* A region of the size of max - lo at d that does not wrap.               *)
LEMMA RegionArith ==
  ASSUME NEW w \in Nat \ {0}, NEW lo \in Nat, NEW hi \in Nat, NEW m \in Nat,
         lo <= hi, hi <= m, m < w
  PROVE  (m - lo) % w = m - lo /\ (hi - lo) % w = hi - lo
BY Remainder

(* Where an address v of the image goes in a region at d.                  *)
LEMMA SegmentArith ==
  ASSUME NEW w \in Nat \ {0}, NEW lo \in Nat, NEW v \in Nat, NEW d \in Nat,
         lo <= v, v < w, d < w, d + (v - lo) < w
  PROVE  (v + ((d - lo) % w)) % w = d + (v - lo)
<1> DEFINE t == d + (v - lo)
<1>1. t \in Int /\ 0 <= t /\ t < w
  OBVIOUS
<1>2. t % w = t /\ (t + w) % w = t
  <2> HIDE DEF t
  <2> QED BY <1>1, Remainder
<1>3. CASE d >= lo
  <2>1. (d - lo) % w = d - lo
    BY <1>3, Remainder
  <2>2. v + (d - lo) = t
    OBVIOUS
  <2> QED BY <1>2, <2>1, <2>2
<1>4. CASE d < lo
  <2> DEFINE u == d - lo + w
  <2>1. u \in Nat /\ u < w /\ u - w = d - lo
    BY <1>4
  <2>2. (d - lo) % w = u
    BY <2>1, Remainder
  <2>3. v + u = t + w
    OBVIOUS
  <2> QED BY <1>2, <2>2, <2>3
<1> QED BY <1>3, <1>4

(* ROUND_UP() of an address gives the start of a page, and leaves one as   *)
(* it is.                                                                  *)
LEMMA RoundUpAligns ==
  ASSUME NEW a \in Addr
  PROVE  /\ RoundUp(a) \in Addr /\ IsAligned(RoundUp(a))
         /\ IsAligned(a) => RoundUp(a) = a
         /\ a + PageSize <= Word => RoundUp(a) >= a
<1> DEFINE P == PageSize
           k == ((a - 1) % Word) \div P
           W == Word \div P
<1>1. P \in Nat \ {0} /\ Word \in Nat \ {0} /\ Word % P = 0 /\ a \in 0 .. Word - 1
  BY ImageAssumption DEF Addr
<1>2. Word = P * W /\ W \in Nat
  BY <1>1
<1>3. (a - 1) % Word \in 0 .. Word - 1 /\ k \in Nat
  BY <1>1
<1>4. RoundUp(a) = ((k + 1) * P) % Word
  BY DEF RoundUp
<1>5. (a - 1) % Word = P * k + (((a - 1) % Word) % P) /\ ((a - 1) % Word) % P \in 0 .. P - 1
  BY <1>1, <1>3
<1>6. k < W
  BY <1>1, <1>2, <1>3, <1>5
<1>7. (k + 1) * P <= Word /\ (k + 1) * P \in Nat /\ ((k + 1) * P) % P = 0
  BY <1>1, <1>2, <1>3, <1>6
<1>8. RoundUp(a) = IF (k + 1) * P = Word THEN 0 ELSE (k + 1) * P
  BY <1>1, <1>4, <1>7
<1>9. RoundUp(a) \in Addr /\ IsAligned(RoundUp(a))
  <2>1. 0 % P = 0
    BY <1>1
  <2> QED BY <1>1, <1>7, <1>8, <2>1 DEF Addr, IsAligned
<1>10. ASSUME a % P = 0 PROVE RoundUp(a) = a
  <2>1. a = P * (a \div P) /\ a \div P \in Int
    BY <1>1, <1>10
  <2>2. CASE a = 0
    <3>1. (a - 1) % Word = Word - 1
      BY <1>1, <2>2
    <3>2. Word - 1 = P * (W - 1) + (P - 1) /\ P - 1 \in 0 .. P - 1
      BY <1>1, <1>2
    <3>3. k = W - 1
      BY <1>1, <1>2, <3>1, <3>2
    <3> HIDE DEF k
    <3>4. (k + 1) * P = Word
      BY <1>1, <1>2, <3>3
    <3> QED BY <1>8, <2>2, <3>4
  <2>3. CASE a > 0
    <3>1. (a - 1) % Word = a - 1
      BY <1>1, <2>3
    <3>2. a - 1 = P * (a \div P - 1) + (P - 1) /\ P - 1 \in 0 .. P - 1
      BY <1>1, <2>1
    <3>3. k = a \div P - 1
      BY <1>1, <2>1, <3>1, <3>2
    <3> HIDE DEF k
    <3>4. (k + 1) * P = a
      BY <1>1, <2>1, <3>3
    <3> QED BY <1>1, <1>8, <3>4
  <2> QED BY <1>1, <2>2, <2>3
<1>11. ASSUME a + P <= Word PROVE RoundUp(a) >= a
  <2>1. CASE a = 0
    BY <1>1, <1>9, <2>1 DEF Addr
  <2>2. CASE a > 0
    <3>1. (a - 1) % Word = a - 1
      BY <1>1, <2>2
    <3>2. a - 1 = P * k + ((a - 1) % P) /\ (a - 1) % P \in 0 .. P - 1
      BY <1>5, <3>1
    <3> HIDE DEF k
    <3>3. (k + 1) * P = P * k + P /\ P * k \in Int
      BY <1>1, <1>3
    <3>4. (k + 1) * P >= a /\ (k + 1) * P # Word
      BY <1>1, <1>3, <1>11, <3>2, <3>3
    <3> QED BY <1>8, <3>4
  <2> QED BY <1>1, <2>1, <2>2
<1> QED BY <1>9, <1>10, <1>11 DEF IsAligned

(***************************************************************************)
(* The files                                                               *)
(***************************************************************************)
(* elf_getMemoryBounds() finds addresses, and no header with a memory size *)
(* starts before or ends behind them.                                      *)
LEMMA BoundsRight ==
  ASSUME NEW f, IsFile(f), NEW phys
  PROVE  /\ Bounds(f, phys).min \in Addr /\ Bounds(f, phys).max \in Addr
         /\ \A i \in DOMAIN f.phdrs : f.phdrs[i].memsz # 0 =>
              /\ Bounds(f, phys).min <= Start(f.phdrs[i], phys)
              /\ (Start(f.phdrs[i], phys) + f.phdrs[i].memsz) % Word <= Bounds(f, phys).max
<1> DEFINE hs == {h \in {f.phdrs[i] : i \in DOMAIN f.phdrs} : h.memsz # 0}
           Lows == {Start(h, phys) : h \in hs} \union {Word - 1}
           Highs == {(Start(h, phys) + h.memsz) % Word : h \in hs} \union {0}
<1>1. Word \in Nat /\ Word > 1 /\ Addr = 0 .. Word - 1
  BY ImageAssumption DEF Addr
<1>2. \A i \in DOMAIN f.phdrs : f.phdrs[i] \in Phdr
  BY DEF IsFile
<1>3. \A h \in hs : Start(h, phys) \in Addr /\ h.memsz \in Addr
  BY <1>2 DEF Phdr, Start
<1>4. Lows \subseteq Nat /\ Lows \subseteq Addr /\ Lows # {}
  BY <1>1, <1>3
<1>5. \A h \in hs : (Start(h, phys) + h.memsz) % Word \in 0 .. Word - 1
  BY <1>1, <1>3
<1>6. Highs \subseteq 0 .. Word - 1 /\ Highs # {} /\ Word - 1 \in Nat
  BY <1>1, <1>5
<1>7. Min(Lows) \in Lows /\ \A y \in Lows : Min(Lows) <= y
  BY <1>4, MinIsLeast
<1>8. Max(Highs) \in Highs /\ \A y \in Highs : y <= Max(Highs)
  BY <1>6, MaxIsGreatest
<1>9. Bounds(f, phys) = [min |-> Min(Lows), max |-> Max(Highs)]
  BY DEF Bounds
<1>10. \A i \in DOMAIN f.phdrs : f.phdrs[i].memsz # 0 => f.phdrs[i] \in hs
  OBVIOUS
<1>11. \A h \in hs : Start(h, phys) \in Lows /\ (Start(h, phys) + h.memsz) % Word \in Highs
  OBVIOUS
<1> HIDE DEF Lows, Highs, hs
<1>12. Bounds(f, phys).min = Min(Lows) /\ Bounds(f, phys).max = Max(Highs)
  BY <1>9
<1>13. Min(Lows) \in Addr /\ Max(Highs) \in Addr
  BY <1>1, <1>4, <1>6, <1>7, <1>8
<1>14. \A h \in hs : Min(Lows) <= Start(h, phys) /\ (Start(h, phys) + h.memsz) % Word <= Max(Highs)
  BY <1>7, <1>8, <1>11
<1> QED BY <1>10, <1>12, <1>13, <1>14

(* A file that is found is one of the archive.                             *)
LEMMA FileFound ==
  ASSUME archive \in Archives, NEW name, GetFile(name) # 0
  PROVE  GetFile(name) \in DOMAIN archive
<1> DEFINE hits == {n \in DOMAIN archive : archive[n].name = name}
<1>1. hits # {} /\ GetFile(name) = Min(hits)
  BY DEF GetFile
<1>2. hits \subseteq Nat
  BY ImageAssumption
<1> QED BY <1>1, <1>2, MinIsLeast

(***************************************************************************)
(* Types                                                                   *)
(***************************************************************************)
Unpacking == {"memset", "memcpy"}

TypeInv ==
  /\ loader \in Loaders /\ archive \in Archives
  /\ slot \in 0..MaxUserImages /\ dest \in Addr /\ seg \in Nat \ {0}
  /\ DOMAIN info = 0..MaxUserImages
  /\ pc \in Unpacking \union {"load_elf", "keep_headers"} => file \in DOMAIN archive
  /\ pc = "keep_headers" => slot # 0

(* What the file being loaded says of itself.                              *)
LEMMA ImageRight ==
  ASSUME TypeInv, pc \in Unpacking \union {"load_elf", "keep_headers"}
  PROVE  /\ IsFile(Image) /\ Len(Image.phdrs) \in Nat
         /\ DOMAIN Image.phdrs = 1 .. Len(Image.phdrs)
         /\ Vaddr.min \in Addr /\ Vaddr.max \in Addr
         /\ MaxVaddr \in Addr /\ IsAligned(MaxVaddr)
<1>1. IsFile(Image)
  BY ImageAssumption DEF TypeInv, Image
<1>2. Image.phdrs \in Seq(Phdr)
  BY <1>1 DEF IsFile
<1>3. Vaddr.min \in Addr /\ Vaddr.max \in Addr
  BY <1>1, BoundsRight DEF Vaddr
<1> QED BY <1>1, <1>2, <1>3, RoundUpAligns DEF MaxVaddr

LEMMA Words == Word \in Nat \ {0} /\ Addr = 0 .. Word - 1 /\ PageSize \in Nat \ {0} /\ PageSize < Word
BY ImageAssumption DEF Addr

LEMMA SumIsAddr ==
  ASSUME NEW a \in Addr, NEW b \in Nat
  PROVE  (a + b) % Word \in Addr /\ (a - b) % Word \in Addr
<1>1. a + b \in Int /\ a - b \in Int
  BY Words
<1> QED BY <1>1, Words

LEMMA InitTypeInv == Init => TypeInv
BY ImageAssumption, Words DEF Init, TypeInv, Unpacking

LEMMA NextTypeInv == TypeInv /\ [Next]_vars => TypeInv'
<1> SUFFICES ASSUME TypeInv, [Next]_vars PROVE TypeInv'
  OBVIOUS
<1> USE DEF input
<1>1. CASE GetKernel
  <2> DEFINE k == GetFile("kernel.elf")
  <2>1. CASE k # 0 /\ archive[k].valid
    <3>1. k \in DOMAIN archive
      BY <2>1, FileFound DEF TypeInv
    <3>2. IsFile(archive[k])
      BY <3>1, ImageAssumption DEF TypeInv
    <3>3. Bounds(archive[k], TRUE).min \in Addr
      BY <3>2, BoundsRight
    <3>4. file' = k /\ dest' = Bounds(archive[k], TRUE).min /\ pc' = "load_elf"
      BY <1>1, <2>1 DEF GetKernel
    <3> HIDE DEF k
    <3> QED BY <1>1, <3>1, <3>3, <3>4 DEF GetKernel, TypeInv, Unpacking
  <2>2. CASE ~(k # 0 /\ archive[k].valid)
    BY <1>1, <2>2 DEF GetKernel, Abort, TypeInv, Unpacking
  <2> QED BY <2>1, <2>2
<1>2. CASE LoadElf
  BY <1>2 DEF LoadElf, Abort, TypeInv, Unpacking
<1>3. CASE Memset
  BY <1>3 DEF Memset, TypeInv, Unpacking
<1>4. CASE Memcpy
  BY <1>4 DEF Memcpy, TypeInv, Unpacking
<1>5. CASE RecordInfo
  <2>1. pc = "memcpy"
    BY <1>5 DEF RecordInfo
  <2>2. MaxVaddr \in Addr /\ Vaddr.min \in Addr
    BY <2>1, ImageRight DEF Unpacking
  <2>3. ImageSize \in Addr
    <3>1. Vaddr.min \in Nat
      BY <2>2, Words
    <3> QED BY <2>2, <3>1, SumIsAddr DEF ImageSize
  <2>4. (dest + ImageSize) % Word \in Addr
    <3>1. ImageSize \in Nat
      BY <2>3, Words
    <3> QED BY <3>1, SumIsAddr DEF TypeInv
  <2>5. dest' \in Addr
    BY <1>5, <2>4, RoundUpAligns DEF RecordInfo
  <2> QED BY <1>5, <2>5 DEF RecordInfo, TypeInv, Unpacking
<1>6. CASE KeepHeaders
  <2>1. (dest + PageSize) % Word \in Addr
    BY Words, SumIsAddr DEF TypeInv
  <2> QED BY <1>6, <2>1 DEF KeepHeaders, TypeInv, Unpacking
<1>7. CASE CheckFirst
  BY <1>7 DEF CheckFirst, Abort, TypeInv, Unpacking
<1>8. CASE NextUser
  <2>1. DOMAIN archive = 1 .. Len(archive) /\ Len(archive) \in Nat /\ MaxUserImages \in Nat
    BY ImageAssumption DEF TypeInv
  <2> QED BY <1>8, <2>1 DEF NextUser, TypeInv, Unpacking
<1>9. CASE CheckImages
  BY <1>9 DEF CheckImages, Abort, TypeInv, Unpacking
<1>10. CASE UNCHANGED vars
  BY <1>10 DEF vars, TypeInv
<1> QED BY <1>1, <1>2, <1>3, <1>4, <1>5, <1>6, <1>7, <1>8, <1>9, <1>10 DEF Next, Done

(***************************************************************************)
(* The headers of the user image                                           *)
(***************************************************************************)
Counted == {"next_user", "main", "loaded"}

(* The pages behind an image start where the region recorded for it ends,  *)
(* and nothing is written between its headers and the next image's check.  *)
HeaderInv ==
  /\ pc \in Unpacking => IsAligned(dest) /\ IsAligned(Vaddr.min)
  /\ pc = "keep_headers" => info[slot].phys_region_end = dest
  /\ pc \in Counted => numImages = slot
  /\ pc \in Counted /\ slot # 0 =>
       /\ info[slot].phys_region_end \in Addr
       /\ mem[info[slot].phys_region_end] = Header(slot)
  /\ pc \in {"get_kernel", "check_first"} => slot = 0
  /\ slot = 0 => numImages = 0
  /\ pc = "loaded" => numImages = 1

LEMMA InitHeaderInv == Init => HeaderInv
BY DEF Init, HeaderInv, Unpacking, Counted

(* Sums and differences of page addresses are page addresses.              *)
LEMMA AlignedSum ==
  ASSUME NEW a \in Addr, NEW b \in Addr, IsAligned(a), IsAligned(b)
  PROVE  IsAligned((a + b) % Word) /\ IsAligned((a - b) % Word)
<1> DEFINE P == PageSize
           W == Word \div P
<1>1. P \in Nat \ {0} /\ Word = P * W /\ W \in Nat
  BY ImageAssumption
<1>2. a = P * (a \div P) /\ b = P * (b \div P) /\ a \div P \in Int /\ b \div P \in Int /\ a \in Int /\ b \in Int
  BY <1>1, Words DEF IsAligned
<1>3. ASSUME NEW q \in Int PROVE ((P * q) % Word) % P = 0
  <2> DEFINE r == (P * q) % Word
             t == (P * q) \div Word
  <2>1. P * q = Word * t + r /\ t \in Int /\ r \in Int
    BY <1>1, Words
  <2>2. r = P * (q - W * t) /\ q - W * t \in Int
    BY <1>1, <2>1
  <2>3. \A z \in Int : (P * z) % P = 0
    BY <1>1
  <2> QED BY <2>2, <2>3
<1>4. a + b = P * (a \div P + b \div P) /\ a - b = P * (a \div P - b \div P)
  BY <1>1, <1>2
<1> QED BY <1>2, <1>3, <1>4 DEF IsAligned

LEMMA NextHeaderInv == TypeInv /\ HeaderInv /\ [Next]_vars => HeaderInv'
<1> SUFFICES ASSUME TypeInv, HeaderInv, [Next]_vars PROVE HeaderInv'
  OBVIOUS
<1> USE DEF input
<1>1. CASE GetKernel
  BY <1>1 DEF GetKernel, Abort, HeaderInv, Unpacking, Counted
<1>2. CASE LoadElf
  <2>1. CASE pc' = "memset"
    <3>1. IsAligned(dest) /\ IsAligned(Vaddr.min)
      BY <1>2, <2>1 DEF LoadElf, Abort
    <3>2. Vaddr' = Vaddr
      BY <1>2 DEF LoadElf, Vaddr, Image
    <3> QED BY <1>2, <2>1, <3>1, <3>2 DEF LoadElf, HeaderInv, Unpacking, Counted, IsAligned
  <2>2. CASE pc' = "abort"
    BY <1>2, <2>2 DEF LoadElf, HeaderInv, Unpacking, Counted
  <2> QED BY <1>2, <2>1, <2>2 DEF LoadElf, Abort
<1>3. CASE Memset
  <2>1. Vaddr' = Vaddr
    BY <1>3 DEF Memset, Vaddr, Image
  <2> QED BY <1>3, <2>1 DEF Memset, HeaderInv, Unpacking, Counted, IsAligned
<1>4. CASE Memcpy
  <2>1. Vaddr' = Vaddr
    BY <1>4 DEF Memcpy, Vaddr, Image
  <2> QED BY <1>4, <2>1 DEF Memcpy, HeaderInv, Unpacking, Counted, IsAligned
<1>5. CASE RecordInfo
  <2>1. pc = "memcpy"
    BY <1>5 DEF RecordInfo
  <2>2. /\ MaxVaddr \in Addr /\ IsAligned(MaxVaddr) /\ Vaddr.min \in Addr /\ IsAligned(Vaddr.min)
        /\ dest \in Addr /\ IsAligned(dest)
    BY <2>1, ImageRight DEF Unpacking, HeaderInv, TypeInv
  <2>3. ImageSize \in Addr /\ IsAligned(ImageSize)
    <3>1. Vaddr.min \in Nat
      BY <2>2, Words
    <3> QED BY <2>2, <3>1, SumIsAddr, AlignedSum DEF ImageSize
  <2>4. (dest + ImageSize) % Word \in Addr /\ IsAligned((dest + ImageSize) % Word)
    <3>1. ImageSize \in Nat
      BY <2>3, Words
    <3> QED BY <2>2, <2>3, <3>1, SumIsAddr, AlignedSum
  <2>5. dest' = (dest + ImageSize) % Word
    BY <1>5, <2>4, RoundUpAligns DEF RecordInfo
  <2>6. info'[slot].phys_region_end = (dest + ImageSize) % Word
    BY <1>5 DEF RecordInfo, NewInfo, TypeInv
  <2> QED BY <1>5, <2>5, <2>6 DEF RecordInfo, HeaderInv, Unpacking, Counted
<1>6. CASE KeepHeaders
  <2>1. pc = "keep_headers" /\ pc' = "next_user" /\ UNCHANGED <<slot, info>> /\ numImages' = slot
    BY <1>6 DEF KeepHeaders
  <2>2. info[slot].phys_region_end = dest /\ slot # 0 /\ dest \in Addr
    BY <2>1 DEF HeaderInv, TypeInv
  <2>3. HeaderSize > 0
    BY <2>1, ImageRight DEF HeaderSize
  <2>4. dest \in Cells(dest, HeaderSize)
    BY <2>2, <2>3, Words DEF Cells
  <2>5. mem'[dest] = Header(slot)
    BY <1>6, <2>2, <2>4 DEF KeepHeaders
  <2> QED BY <2>1, <2>2, <2>5 DEF HeaderInv, Unpacking, Counted
<1>7. CASE CheckFirst
  BY <1>7 DEF CheckFirst, Abort, HeaderInv, Unpacking, Counted
<1>8. CASE NextUser
  <2>1. slot \in Nat /\ pc = "next_user" /\ numImages = slot
    BY <1>8, ImageAssumption DEF NextUser, TypeInv, HeaderInv, Counted
  <2>2. CASE slot' = slot + 1 /\ pc' = "load_elf"
    BY <1>8, <2>1, <2>2 DEF NextUser, HeaderInv, Unpacking, Counted
  <2>3. CASE UNCHANGED slot /\ pc' = "main"
    BY <1>8, <2>1, <2>3 DEF NextUser, HeaderInv, Unpacking, Counted
  <2> QED BY <1>8, <2>2, <2>3 DEF NextUser
<1>9. CASE CheckImages
  <2>1. pc = "main" /\ UNCHANGED <<mem, slot, info, numImages>>
    BY <1>9 DEF CheckImages
  <2>2. CASE pc' = "loaded" /\ numImages = 1
    BY <2>1, <2>2 DEF HeaderInv, Unpacking, Counted
  <2>3. CASE pc' = "abort"
    BY <2>1, <2>3 DEF HeaderInv, Unpacking, Counted
  <2> QED BY <1>9, <2>2, <2>3 DEF CheckImages, Abort
<1>10. CASE UNCHANGED vars
  <2>1. Vaddr' = Vaddr
    BY <1>10 DEF vars, Vaddr, Image
  <2> QED BY <1>10, <2>1 DEF vars, HeaderInv, IsAligned
<1> QED BY <1>1, <1>2, <1>3, <1>4, <1>5, <1>6, <1>7, <1>8, <1>9, <1>10 DEF Next, Done

(* The kernel finds the user image's headers right behind the region it is *)
(* told of, whatever the sizes, and even where an address wraps.           *)
THEOREM HeadersFound == Spec => []HeadersBehindUser
<1>1. Init => TypeInv /\ HeaderInv
  BY InitTypeInv, InitHeaderInv
<1>2. (TypeInv /\ HeaderInv) /\ [Next]_vars => (TypeInv /\ HeaderInv)'
  BY NextTypeInv, NextHeaderInv
<1>3. TypeInv /\ HeaderInv => HeadersBehindUser
  <2> SUFFICES ASSUME TypeInv, HeaderInv, pc = "loaded"
               PROVE  numImages = 1 /\ mem[info[1].phys_region_end % Word] = Header(1)
    BY DEF HeadersBehindUser
  <2> QED BY Words DEF HeaderInv, Counted
<1> QED BY <1>1, <1>2, <1>3, PTL DEF Spec

(***************************************************************************)
(* Which file an image is                                                  *)
(***************************************************************************)
(* What the archive and the records are asked for stays, if they do.       *)
LEMMA FilesKept ==
  ASSUME UNCHANGED archive
  PROVE  (\A name : GetFile(name)' = GetFile(name)) /\ (\A s : FileOf(s)' = FileOf(s))
<1>1. \A name : GetFile(name)' = GetFile(name)
  BY DEF GetFile
<1> QED BY <1>1 DEF FileOf

(* The image in hand is the slot's.                                        *)
FileInv ==
  pc \in Unpacking \union {"load_elf"} =>
    file = IF slot = 0 THEN GetFile("kernel.elf") ELSE slot + 1

LEMMA ImageIsFile == ASSUME FileInv, pc \in Unpacking PROVE Image = FileOf(slot)
BY DEF FileInv, Image, FileOf

LEMMA InitFileInv == Init => FileInv
BY DEF Init, FileInv, Unpacking

LEMMA NextFileInv ==
  ASSUME TypeInv, HeaderInv, FileInv, [Next]_vars
  PROVE  FileInv'
<1> USE DEF input
<1>1. CASE GetKernel
  <2>1. pc' = "abort" \/ (pc' = "load_elf" /\ slot' = 0 /\ file' = GetFile("kernel.elf") /\ archive' = archive)
    BY <1>1 DEF GetKernel, Abort, HeaderInv
  <2> QED BY <2>1, FilesKept DEF FileInv, Unpacking
<1>2. CASE LoadElf \/ Memset \/ Memcpy \/ UNCHANGED vars
  <2>1. UNCHANGED <<archive, file, slot>> /\ (pc' \in Unpacking \union {"load_elf"} => pc \in Unpacking \union {"load_elf"})
    BY <1>2 DEF LoadElf, Memset, Memcpy, Abort, Unpacking, vars
  <2> QED BY <2>1, FilesKept DEF FileInv
<1>3. CASE RecordInfo \/ KeepHeaders \/ CheckFirst \/ CheckImages
  BY <1>3 DEF RecordInfo, KeepHeaders, CheckFirst, CheckImages, Abort, FileInv, Unpacking
<1>4. CASE NextUser
  <2>1. (slot' # 0 /\ pc' = "load_elf" /\ file' = slot' + 1) \/ pc' = "main"
    BY <1>4, ImageAssumption DEF NextUser, TypeInv
  <2> QED BY <2>1 DEF FileInv, Unpacking
<1> QED BY <1>1, <1>2, <1>3, <1>4 DEF Next, Done

(***************************************************************************)
(* Placement                                                               *)
(***************************************************************************)
(* What load_images() takes for granted of the file it unpacks: there is a *)
(* segment, none has more bytes in the file than in memory (a rule of      *)
(* ELF), and neither the segments nor the region and a page of headers     *)
(* wrap round the end of the address space.                                *)
RegionFits ==
  pc \in Unpacking =>
    /\ Vaddr.min <= Vaddr.max /\ Vaddr.max + PageSize <= Word
    /\ dest + ImageSize + PageSize < Word
    /\ \A i \in DOMAIN Image.phdrs :
         LET h == Image.phdrs[i]
         IN h.vaddr + h.memsz < Word /\ (h.load => h.filesz <= h.memsz)

LEMMA CellsAre ==
  ASSUME NEW d \in Addr, NEW n \in Nat, d + n <= Word
  PROVE  Cells(d, n) = d .. d + n - 1
<1> SUFFICES ASSUME NEW b \in Addr PROVE (b - d) % Word < n <=> b \in d .. d + n - 1
  BY Words DEF Cells
<1>1. CASE b >= d
  <2>1. (b - d) % Word = b - d
    BY <1>1, Words
  <2> QED BY <1>1, <2>1, Words
<1>2. CASE b < d
  <2>1. (b - d) % Word = b - d + Word
    BY <1>2, Words
  <2> QED BY <1>2, <2>1, Words
<1> QED BY <1>1, <1>2, Words

(* Where the addresses of the image in hand, and those of its segments, go *)
(* in its region.                                                          *)
LEMMA RegionRight ==
  ASSUME TypeInv, RegionFits, pc \in Unpacking
  PROVE  /\ Vaddr.min \in Nat /\ Vaddr.max \in Nat /\ Vaddr.min <= Vaddr.max /\ Vaddr.max < Word
         /\ ImageSize \in Nat /\ dest + ImageSize + PageSize < Word
         /\ Vaddr.max - Vaddr.min <= ImageSize
         /\ (Vaddr.max - Vaddr.min) % Word = Vaddr.max - Vaddr.min
<1>1. /\ Vaddr.min \in Nat /\ Vaddr.max \in Nat /\ MaxVaddr \in Nat /\ Vaddr.max \in Addr
      /\ MaxVaddr < Word /\ PageSize \in Nat \ {0} /\ Word \in Nat \ {0}
  BY ImageRight, Words
<1>2. /\ Vaddr.min <= Vaddr.max /\ Vaddr.max + PageSize <= Word
      /\ dest + ImageSize + PageSize < Word
  BY DEF RegionFits
<1>3. MaxVaddr >= Vaddr.max
  BY <1>1, <1>2, RoundUpAligns DEF MaxVaddr
<1>4. (MaxVaddr - Vaddr.min) % Word = MaxVaddr - Vaddr.min
      /\ (Vaddr.max - Vaddr.min) % Word = Vaddr.max - Vaddr.min
  BY <1>1, <1>2, <1>3, RegionArith
<1>5. ImageSize = MaxVaddr - Vaddr.min
  BY <1>4 DEF ImageSize
<1> QED BY <1>1, <1>2, <1>3, <1>4, <1>5

LEMMA AddressPlace ==
  ASSUME TypeInv, RegionFits, pc \in Unpacking, NEW v \in Nat, Vaddr.min <= v, v < Vaddr.max
  PROVE  (v + Offset) % Word = dest + (v - Vaddr.min) /\ dest + (v - Vaddr.min) \in Addr
<1>1. /\ Vaddr.min \in Nat /\ Vaddr.max \in Nat /\ Vaddr.max < Word /\ dest \in Nat /\ dest < Word
      /\ Word \in Nat \ {0} /\ PageSize \in Nat \ {0} /\ Addr = 0 .. Word - 1
      /\ ImageSize \in Nat /\ dest + ImageSize + PageSize < Word /\ Vaddr.max - Vaddr.min <= ImageSize
  BY RegionRight, Words DEF TypeInv
<1>2. dest + (v - Vaddr.min) < Word /\ dest + (v - Vaddr.min) \in Nat /\ v < Word
  BY <1>1
<1>3. (v + ((dest - Vaddr.min) % Word)) % Word = dest + (v - Vaddr.min)
  <2> DEFINE lo == Vaddr.min
  <2>1. lo \in Nat /\ lo <= v /\ v < Word /\ dest < Word /\ dest + (v - lo) < Word /\ dest \in Nat
        /\ Word \in Nat \ {0}
    BY <1>1, <1>2
  <2> HIDE DEF lo
  <2>2. (v + ((dest - lo) % Word)) % Word = dest + (v - lo)
    BY <2>1, SegmentArith
  <2> QED BY <2>2 DEF lo
<1> QED BY <1>1, <1>2, <1>3 DEF Offset

LEMMA SegmentPlace ==
  ASSUME TypeInv, RegionFits, pc \in Unpacking,
         NEW i \in DOMAIN Image.phdrs, Image.phdrs[i].load
  PROVE  LET h == Image.phdrs[i]
             d == (h.vaddr + Offset) % Word
         IN /\ h.vaddr \in Nat /\ h.filesz \in Nat
            /\ h.filesz = 0 => Cells(d, h.filesz) = {}
            /\ h.filesz # 0 =>
                 /\ Vaddr.min <= h.vaddr /\ h.vaddr + h.filesz <= Vaddr.max
                 /\ d = dest + (h.vaddr - Vaddr.min)
                 /\ Cells(d, h.filesz) = d .. d + h.filesz - 1
<1> DEFINE v == Image.phdrs[i].vaddr
           m == Image.phdrs[i].memsz
           n == Image.phdrs[i].filesz
           lo == Vaddr.min
           hi == Vaddr.max
           d == (v + Offset) % Word
<1>1. /\ lo \in Nat /\ hi \in Nat /\ lo <= hi /\ hi < Word /\ ImageSize \in Nat
      /\ dest + ImageSize + PageSize < Word /\ hi - lo <= ImageSize
      /\ dest \in Nat /\ Word \in Nat \ {0} /\ PageSize \in Nat \ {0} /\ Addr = 0 .. Word - 1
  BY RegionRight, Words DEF TypeInv
<1>2. IsFile(Image) /\ dest \in Addr
  BY ImageRight DEF TypeInv
<1>3. v \in Nat /\ m \in Nat /\ n \in Nat
  <2>1. Image.phdrs[i] \in Phdr
    BY <1>2 DEF IsFile
  <2>2. v \in Addr /\ m \in Addr /\ n \in Addr
    BY <2>1 DEF Phdr
  <2> HIDE DEF v, m, n
  <2> QED BY <1>1, <2>2
<1>4. v + m < Word /\ n <= m
  BY DEF RegionFits
<1>5. m # 0 => lo <= v /\ (v + m) % Word <= hi
  BY <1>2, BoundsRight DEF Start, Vaddr
<1>6. Offset \in Nat
  BY <1>1, <1>2 DEF Offset
<1> HIDE DEF v, m, n, lo, hi
<1>7. CASE n = 0
  <2>1. \A e \in Addr : Cells(e, 0) = {}
    BY <1>1 DEF Cells
  <2>2. d \in Addr
    BY <1>1, <1>3, <1>6
  <2>3. Cells(d, n) = {}
    BY <1>7, <2>1, <2>2
  <2> QED BY <1>3, <1>7, <2>3 DEF v, n
<1>8. CASE n # 0
  <2>1. m # 0 /\ v + m \in Int /\ 0 <= v + m
    BY <1>3, <1>4, <1>8
  <2>2. (v + m) % Word = v + m
    BY <1>1, <1>4, <2>1, Remainder
  <2>3. lo <= v /\ v + n <= hi /\ v < hi
    <3>1. lo <= v /\ v + m <= hi
      BY <1>5, <2>1, <2>2
    <3> QED BY <1>1, <1>3, <1>4, <1>8, <3>1
  <2>4. d = dest + (v - lo) /\ d \in Addr
    BY <1>3, <2>3, AddressPlace DEF lo, hi
  <2> HIDE DEF d
  <2>5. d + n <= Word
    BY <1>1, <1>3, <2>3, <2>4
  <2>6. Cells(d, n) = d .. d + n - 1
    BY <1>3, <2>4, <2>5, CellsAre
  <2> QED BY <1>3, <1>8, <2>3, <2>4, <2>6 DEF v, n, d, lo, hi
<1> QED BY <1>7, <1>8

(* An image is only written to its region.                                 *)
LEMMA Unpacked ==
  ASSUME TypeInv, RegionFits, pc \in Unpacking
  PROVE  /\ ImageSize \in Nat /\ dest + ImageSize + PageSize < Word
         /\ Cells(dest, (Vaddr.max - Vaddr.min) % Word)
              = dest .. dest + (Vaddr.max - Vaddr.min) - 1
         /\ Cells(dest, (Vaddr.max - Vaddr.min) % Word) \subseteq dest .. dest + ImageSize - 1
         /\ \A i \in DOMAIN Image.phdrs : Image.phdrs[i].load =>
              Cells((Image.phdrs[i].vaddr + Offset) % Word, Image.phdrs[i].filesz)
                \subseteq dest .. dest + ImageSize - 1
<1> DEFINE lo == Vaddr.min
           hi == Vaddr.max
<1>1. /\ lo \in Nat /\ hi \in Nat /\ lo <= hi /\ hi < Word /\ ImageSize \in Nat
      /\ dest + ImageSize + PageSize < Word /\ hi - lo <= ImageSize /\ (hi - lo) % Word = hi - lo
      /\ dest \in Addr /\ dest \in Nat /\ Word \in Nat \ {0} /\ PageSize \in Nat \ {0}
  BY RegionRight, Words DEF TypeInv
<1>2. Cells(dest, hi - lo) = dest .. dest + (hi - lo) - 1
  <2>1. hi - lo \in Nat /\ dest + (hi - lo) <= Word
    BY <1>1
  <2> HIDE DEF lo, hi
  <2> QED BY <1>1, <2>1, CellsAre
<1>3. Cells(dest, hi - lo) \subseteq dest .. dest + ImageSize - 1
  <2> HIDE DEF lo, hi
  <2> QED BY <1>1, <1>2
<1>4. ASSUME NEW i \in DOMAIN Image.phdrs, Image.phdrs[i].load
      PROVE  Cells((Image.phdrs[i].vaddr + Offset) % Word, Image.phdrs[i].filesz)
               \subseteq dest .. dest + ImageSize - 1
  <2> DEFINE v == Image.phdrs[i].vaddr
             n == Image.phdrs[i].filesz
             d == (v + Offset) % Word
  <2>1. /\ v \in Nat /\ n \in Nat /\ (n = 0 => Cells(d, n) = {})
        /\ n # 0 => /\ lo <= v /\ v + n <= hi /\ d = dest + (v - lo) /\ Cells(d, n) = d .. d + n - 1
    BY <1>4, SegmentPlace
  <2> HIDE DEF v, n, d, lo, hi
  <2>2. Cells(d, n) \subseteq dest .. dest + ImageSize - 1
    BY <1>1, <2>1
  <2> QED BY <2>2 DEF v, n, d
<1> QED BY <1>1, <1>2, <1>3, <1>4

Own == loader.start .. loader.end - 1

(* The region being written misses the loader, and lies behind all those   *)
(* recorded, which miss the loader and each other.                         *)
PlaceInv ==
  /\ pc \in Unpacking => \A a \in dest .. dest + ImageSize - 1 : a \notin Own
  /\ pc = "keep_headers" => dest + PageSize < Word
  /\ pc = "get_kernel" => \A s \in 0..MaxUserImages : info[s] = NoInfo
  /\ \A s \in Recorded :
       /\ info[s].phys_region_start \in Nat /\ info[s].phys_region_end \in Nat
       /\ info[s].phys_region_start <= info[s].phys_region_end
       /\ info[s].phys_region_end <= dest
       /\ Region(s) = info[s].phys_region_start .. info[s].phys_region_end - 1

LEMMA OwnCells == ASSUME TypeInv PROVE Own \subseteq Addr /\ loader.start \in Nat /\ loader.end \in Nat /\ loader.start < loader.end
BY ImageAssumption, Words DEF TypeInv, Own

LEMMA InitPlace == Init => PlaceInv /\ ImagesMissLoader /\ Disjoint
<1> SUFFICES ASSUME Init PROVE PlaceInv /\ ImagesMissLoader /\ Disjoint
  OBVIOUS
<1>1. Recorded = {} /\ pc = "get_kernel" /\ \A s \in 0..MaxUserImages : info[s] = NoInfo
  BY DEF Init, Recorded
<1>2. Own \subseteq Addr
  BY InitTypeInv, OwnCells
<1>3. \A a \in Own : mem[a] = Self
  BY <1>2 DEF Init, Own
<1> QED BY <1>1, <1>3 DEF PlaceInv, ImagesMissLoader, Disjoint, Unpacking, Own

(* A step that writes no memory and records no region.                     *)
LEMMA PlaceKept ==
  ASSUME PlaceInv, ImagesMissLoader, Disjoint, UNCHANGED <<loader, mem, info>>,
         Recorded = {} \/ (dest \in Nat /\ dest' \in Nat /\ dest <= dest'),
         pc' \notin Unpacking \union {"keep_headers", "get_kernel"}
  PROVE  (PlaceInv /\ ImagesMissLoader /\ Disjoint)'
<1>1. Recorded' = Recorded /\ \A s \in Recorded : Region(s)' = Region(s)
  BY DEF Recorded, Region, Cells
<1>2. \A s \in Recorded' : info[s].phys_region_end <= dest'
  BY <1>1 DEF PlaceInv
<1>3. PlaceInv'
  BY <1>1, <1>2 DEF PlaceInv
<1>4. ImagesMissLoader' /\ Disjoint'
  BY <1>1 DEF ImagesMissLoader, Disjoint
<1> QED BY <1>3, <1>4

(* A step that writes memory inside a region that misses the loader.       *)
LEMMA MissKept ==
  ASSUME TypeInv, ImagesMissLoader, NEW D, D \intersect Own = {}, UNCHANGED loader,
         \A a \in Addr \ D : mem'[a] = mem[a]
  PROVE  ImagesMissLoader'
<1>1. \A a \in Own : a \in Addr \ D
  BY OwnCells
<1> QED BY <1>1 DEF ImagesMissLoader, Own

LEMMA NextPlace ==
  ASSUME TypeInv, HeaderInv, RegionFits, RegionFits', PlaceInv, ImagesMissLoader, Disjoint, [Next]_vars
  PROVE  (PlaceInv /\ ImagesMissLoader /\ Disjoint)'
<1> USE DEF input
<1>1. dest \in Nat /\ Word \in Nat \ {0} /\ PageSize \in Nat \ {0} /\ dest < Word
  BY Words DEF TypeInv
<1>2. TypeInv'
  BY NextTypeInv
<1>3. dest' \in Nat
  BY <1>2, Words DEF TypeInv
<1>4. CASE GetKernel
  <2>1. Recorded = {}
    BY <1>4 DEF GetKernel, PlaceInv, Recorded
  <2> QED BY <1>4, <2>1, PlaceKept DEF GetKernel, Abort, Unpacking
<1>5. CASE LoadElf
  <2>1. CASE pc' = "abort"
    BY <1>1, <1>5, <2>1, PlaceKept DEF LoadElf, Unpacking
  <2>2. CASE pc' = "memset"
    <3>1. /\ ~RegionsOverlap(dest, (dest + ImageSize - 1) % Word, loader.start, loader.end - 1)
          /\ pc = "load_elf"
      BY <1>5, <2>2 DEF LoadElf, Abort
    <3>2. ImageSize' = ImageSize /\ UNCHANGED <<loader, archive, mem, info, dest>>
      BY <1>5 DEF LoadElf, ImageSize, MaxVaddr, Vaddr, Image
    <3>3. ImageSize \in Nat /\ dest + ImageSize + PageSize < Word
      <4>1. dest' + ImageSize' + PageSize < Word
        BY <2>2 DEF RegionFits, Unpacking
      <4>2. MaxVaddr \in Addr /\ Vaddr.min \in Nat
        BY <3>1, ImageRight, Words
      <4>3. ImageSize \in Nat
        BY <4>2, SumIsAddr, Words DEF ImageSize
      <4> QED BY <3>2, <4>1, <4>3
    <3>4. \A a \in dest .. dest + ImageSize - 1 : a \notin Own
      <4> SUFFICES ASSUME NEW a \in dest .. dest + ImageSize - 1 PROVE a \notin Own
        OBVIOUS
      <4>1. dest + ImageSize - 1 \in Nat /\ dest + ImageSize - 1 < Word /\ a \in Nat
        BY <1>1, <3>3
      <4>2. (dest + ImageSize - 1) % Word = dest + ImageSize - 1
        BY <1>1, <4>1, Remainder
      <4>3. dest + ImageSize - 1 < loader.start \/ loader.end - 1 < dest
        BY <3>1, <4>2 DEF RegionsOverlap
      <4> QED BY <1>1, <3>3, <4>1, <4>3, OwnCells DEF Own
    <3>5. Recorded' = Recorded /\ \A s \in Recorded : Region(s)' = Region(s)
      BY <3>2 DEF Recorded, Region, Cells
    <3>6. PlaceInv'
      BY <2>2, <3>2, <3>4, <3>5 DEF PlaceInv, Own
    <3> QED BY <3>2, <3>5, <3>6 DEF ImagesMissLoader, Disjoint
  <2> QED BY <1>5, <2>1, <2>2 DEF LoadElf, Abort
<1>6. CASE Memset \/ Memcpy
  <2>1. /\ pc \in Unpacking /\ pc' \in Unpacking
        /\ UNCHANGED <<loader, archive, info, dest>> /\ ImageSize' = ImageSize
    BY <1>6 DEF Memset, Memcpy, Unpacking, ImageSize, MaxVaddr, Vaddr, Image
  <2> DEFINE D == dest .. dest + ImageSize - 1
  <2>2. \A a \in Addr \ D : mem'[a] = mem[a]
    <3>1. CASE Memset
      BY <2>1, <3>1, Unpacked DEF Memset
    <3>2. CASE Memcpy
      <4>1. seg \in DOMAIN Image.phdrs
        BY <2>1, <3>2, ImageRight DEF Memcpy, TypeInv
      <4>2. CASE Image.phdrs[seg].load
        <5>1. mem' = [a \in Addr |->
                 IF a \in Cells((Image.phdrs[seg].vaddr + Offset) % Word, Image.phdrs[seg].filesz)
                   THEN Byte(slot, seg, (a - ((Image.phdrs[seg].vaddr + Offset) % Word)) % Word)
                   ELSE mem[a]]
          BY <3>2, <4>2 DEF Memcpy
        <5>2. Cells((Image.phdrs[seg].vaddr + Offset) % Word, Image.phdrs[seg].filesz) \subseteq D
          BY <2>1, <4>1, <4>2, Unpacked
        <5> QED BY <5>1, <5>2
      <4>3. CASE ~Image.phdrs[seg].load
        BY <3>2, <4>3 DEF Memcpy
      <4> QED BY <4>2, <4>3
    <3> QED BY <1>6, <3>1, <3>2
  <2>3. ImagesMissLoader'
    <3>1. D \intersect Own = {}
      BY <2>1 DEF PlaceInv
    <3> QED BY <2>1, <2>2, <3>1, MissKept
  <2>4. Recorded' = Recorded /\ \A s \in Recorded : Region(s)' = Region(s)
    BY <2>1 DEF Recorded, Region, Cells
  <2>5. PlaceInv'
    BY <2>1, <2>4 DEF PlaceInv, Own, Unpacking
  <2>6. Disjoint'
    BY <2>1, <2>4 DEF Disjoint
  <2> QED BY <2>3, <2>5, <2>6
<1>7. CASE RecordInfo
  <2>1. pc = "memcpy" /\ UNCHANGED <<loader, archive, mem, slot>> /\ slot \in 0..MaxUserImages
    BY <1>7 DEF RecordInfo, TypeInv
  <2>2. ImageSize \in Nat /\ dest + ImageSize + PageSize < Word
    BY <2>1, Unpacked DEF Unpacking
  <2> DEFINE e == dest + ImageSize
  <2>3. e \in Nat /\ e < Word /\ dest <= e /\ e % Word = e /\ (e - dest) % Word = e - dest
    <3>1. e \in Nat /\ e < Word /\ dest <= e
      BY <1>1, <2>2
    <3> QED BY <1>1, <3>1, Remainder
  <2>4. IsAligned(e)
    <3>1. /\ MaxVaddr \in Addr /\ IsAligned(MaxVaddr) /\ Vaddr.min \in Addr /\ IsAligned(Vaddr.min)
          /\ dest \in Addr /\ IsAligned(dest)
      BY <2>1, ImageRight DEF Unpacking, HeaderInv, TypeInv
    <3>2. IsAligned(ImageSize) /\ ImageSize \in Addr
      <4>1. Vaddr.min \in Nat
        BY <3>1, Words
      <4> QED BY <3>1, <4>1, SumIsAddr, AlignedSum DEF ImageSize
    <3>3. IsAligned((dest + ImageSize) % Word)
      BY <3>1, <3>2, AlignedSum
    <3> QED BY <2>3, <3>3
  <2>5. e \in Addr
    BY <2>3, Words
  <2>6. dest' = e
    BY <1>7, <2>3, <2>4, <2>5, RoundUpAligns DEF RecordInfo
  <2>7. info' = [info EXCEPT ![slot] = NewInfo] /\ DOMAIN info = 0..MaxUserImages
    BY <1>7 DEF RecordInfo, TypeInv
  <2>8. /\ info'[slot].phys_region_start = dest /\ info'[slot].phys_region_end = e
        /\ \A s \in 0..MaxUserImages : s # slot => info'[s] = info[s]
    BY <2>1, <2>3, <2>7 DEF NewInfo
  <2> HIDE DEF e
  <2>9. \A s : s = slot => Region(s)' = dest .. e - 1
    <3>1. Cells(dest, e - dest) = dest .. dest + (e - dest) - 1
      <4>1. dest \in Addr /\ e - dest \in Nat /\ dest + (e - dest) <= Word
        BY <1>1, <2>3 DEF TypeInv
      <4> QED BY <4>1, CellsAre
    <3>2. \A s : s = slot => Region(s)' = Cells(dest, e - dest)
      BY <2>3, <2>8 DEF Region, Cells
    <3>3. dest + (e - dest) - 1 = e - 1
      BY <1>1, <2>3
    <3> QED BY <3>1, <3>2, <3>3
  <2>10. Recorded' \subseteq Recorded \union {slot}
    BY <2>8 DEF Recorded
  <2>11. \A s \in Recorded : s # slot => info'[s] = info[s] /\ Region(s)' = Region(s)
    BY <2>8 DEF Recorded, Region, Cells
  <2>12. PlaceInv'
    <3>1. pc' \in {"check_first", "keep_headers"}
      BY <1>7 DEF RecordInfo
    <3>2. dest' + PageSize < Word
      BY <1>1, <2>2, <2>3, <2>6 DEF e
    <3>3. \A s \in Recorded' :
            /\ info'[s].phys_region_start \in Nat /\ info'[s].phys_region_end \in Nat
            /\ info'[s].phys_region_start <= info'[s].phys_region_end
            /\ info'[s].phys_region_end <= dest'
            /\ Region(s)' = info'[s].phys_region_start .. info'[s].phys_region_end - 1
      <4> SUFFICES ASSUME NEW s \in Recorded'
                   PROVE  /\ info'[s].phys_region_start \in Nat /\ info'[s].phys_region_end \in Nat
                          /\ info'[s].phys_region_start <= info'[s].phys_region_end
                          /\ info'[s].phys_region_end <= dest'
                          /\ Region(s)' = info'[s].phys_region_start .. info'[s].phys_region_end - 1
        OBVIOUS
      <4>1. CASE s = slot
        <5>1. Region(s)' = dest .. e - 1
          BY <2>9, <4>1
        <5> QED BY <1>1, <2>3, <2>6, <2>8, <4>1, <5>1
      <4>2. CASE s # slot
        BY <1>1, <2>3, <2>6, <2>10, <2>11, <4>2 DEF PlaceInv
      <4> QED BY <4>1, <4>2
    <3> QED BY <3>1, <3>2, <3>3 DEF PlaceInv, Unpacking
  <2>13. ImagesMissLoader'
    BY <2>1 DEF ImagesMissLoader
  <2>14. Disjoint'
    <3>1. (dest .. e - 1) \intersect Own = {}
      <4>1. \A a \in dest .. dest + ImageSize - 1 : a \notin Own
        BY <2>1 DEF PlaceInv, Unpacking
      <4>2. \A a : a \in dest .. e - 1 => a \notin Own
        BY <1>1, <2>2, <4>1 DEF e
      <4> QED BY <4>2
    <3>2. \A s \in Recorded : s # slot => Region(s)' \intersect (dest .. e - 1) = {}
      <4> SUFFICES ASSUME NEW s \in Recorded, s # slot
                   PROVE  Region(s)' \intersect (dest .. e - 1) = {}
        OBVIOUS
      <4>1. /\ Region(s)' = info[s].phys_region_start .. info[s].phys_region_end - 1
            /\ info[s].phys_region_start \in Nat /\ info[s].phys_region_end \in Nat
            /\ info[s].phys_region_end <= dest
        BY <2>11 DEF PlaceInv
      <4>2. ASSUME NEW a \in Region(s)', a \in dest .. e - 1 PROVE FALSE
        <5>1. a \in Int /\ a <= info[s].phys_region_end - 1 /\ dest <= a
          BY <1>1, <2>3, <4>1, <4>2
        <5> QED BY <1>1, <4>1, <5>1
      <4> QED BY <4>2
    <3>3. \A s, t \in Recorded : s # t => Region(s) \intersect Region(t) = {}
      BY DEF Disjoint
    <3>4. \A s \in Recorded : Region(s) \intersect Own = {}
      BY DEF Disjoint, Own
    <3> SUFFICES ASSUME NEW s \in Recorded'
                 PROVE  /\ Region(s)' \intersect Own = {}
                        /\ \A t \in Recorded' \ {s} : Region(s)' \intersect Region(t)' = {}
      BY <2>1 DEF Disjoint, Own
    <3>5. CASE s = slot
      BY <2>9, <2>10, <3>1, <3>2, <3>5
    <3>6. CASE s # slot
      <4>1. s \in Recorded /\ Region(s)' = Region(s)
        BY <2>10, <2>11, <3>6
      <4>2. ASSUME NEW t \in Recorded' \ {s} PROVE Region(s)' \intersect Region(t)' = {}
        <5>1. CASE t = slot
          BY <2>9, <3>2, <3>6, <4>1, <5>1
        <5>2. CASE t # slot
          BY <2>10, <2>11, <3>3, <4>1, <4>2, <5>2
        <5> QED BY <5>1, <5>2
      <4> QED BY <3>4, <4>1, <4>2
    <3> QED BY <3>5, <3>6
  <2> QED BY <2>12, <2>13, <2>14
<1>8. CASE KeepHeaders
  <2>1. /\ pc = "keep_headers" /\ pc' = "next_user" /\ slot \in 1..MaxUserImages
        /\ UNCHANGED <<loader, info>>
    BY <1>8, ImageAssumption DEF KeepHeaders, TypeInv
  <2>2. dest' = dest + PageSize
    <3>1. dest + PageSize \in Nat /\ dest + PageSize < Word
      BY <1>1, <2>1 DEF PlaceInv
    <3> QED BY <1>1, <1>8, <3>1, Remainder DEF KeepHeaders
  <2>3. Recorded' = Recorded /\ \A s \in Recorded : Region(s)' = Region(s)
    BY <2>1 DEF Recorded, Region, Cells
  <2>4. PlaceInv'
    BY <1>1, <2>1, <2>2, <2>3 DEF PlaceInv, Unpacking
  <2>5. Disjoint'
    BY <2>1, <2>3 DEF Disjoint
  <2>6. \A a \in Addr : mem'[a] \in {mem[a], Header(slot)}
    BY <1>8 DEF KeepHeaders
  <2>7. ImagesMissLoader'
    BY <2>1, <2>6, OwnCells DEF ImagesMissLoader, Own
  <2> QED BY <2>4, <2>5, <2>7
<1>9. CASE CheckFirst
  BY <1>1, <1>9, PlaceKept DEF CheckFirst, Abort, Unpacking
<1>10. CASE NextUser
  BY <1>1, <1>10, PlaceKept DEF NextUser, Unpacking
<1>11. CASE CheckImages
  BY <1>1, <1>11, PlaceKept DEF CheckImages, Abort, Unpacking
<1>12. CASE UNCHANGED vars
  <2>1. UNCHANGED <<pc, loader, mem, info, dest>> /\ ImageSize' = ImageSize
    BY <1>12 DEF vars, ImageSize, MaxVaddr, Vaddr, Image
  <2>2. Recorded' = Recorded /\ \A s \in Recorded : Region(s)' = Region(s)
    BY <2>1 DEF Recorded, Region, Cells
  <2> QED BY <2>1, <2>2 DEF PlaceInv, ImagesMissLoader, Disjoint, Own
<1> QED BY <1>4, <1>5, <1>6, <1>7, <1>8, <1>9, <1>10, <1>11, <1>12 DEF Next, Done

Placement == TypeInv /\ HeaderInv /\ PlaceInv /\ ImagesMissLoader /\ Disjoint

LEMMA PlacementInvariant == Spec /\ []RegionFits => []Placement
<1>1. Init => Placement
  BY InitTypeInv, InitHeaderInv, InitPlace DEF Placement
<1>2. Placement /\ RegionFits /\ RegionFits' /\ [Next]_vars => Placement'
  BY NextTypeInv, NextHeaderInv, NextPlace DEF Placement
<1> QED BY <1>1, <1>2, PTL DEF Spec

(* Neither the zeroing of an image's region nor its segments reach the     *)
(* running elfloader, as long as nothing wraps round the address space.    *)
THEOREM MissesLoader == Spec /\ []RegionFits => []ImagesMissLoader
<1>1. Placement => ImagesMissLoader
  BY DEF Placement
<1> QED BY <1>1, PlacementInvariant, PTL

(* The recorded regions are apart from each other and from the elfloader,  *)
(* for any number of user images, as long as nothing wraps.                *)
THEOREM RegionsApart == Spec /\ []RegionFits => []Disjoint
<1>1. Placement => Disjoint
  BY DEF Placement
<1> QED BY <1>1, PlacementInvariant, PTL

(***************************************************************************)
(* What is in memory                                                       *)
(***************************************************************************)
(* The program headers of a user image do not run over the end of the      *)
(* address space, from the page they are kept in on.                       *)
HeadersFit == pc = "keep_headers" => dest + HeaderSize <= Word

(* The bytes of a file whose first n - 1 segments have been copied to where *)
(* its virtual addresses are off cells before.                             *)
Due(s, f, n, v) ==
  LET is == {i \in DOMAIN f.phdrs : i < n /\ Covers(f.phdrs[i], v)}
  IN IF is = {} THEN {Zero} ELSE {Byte(s, i, v - f.phdrs[i].vaddr) : i \in is}
Virtual(f) == Bounds(f, FALSE).min .. Bounds(f, FALSE).max - 1
Holds(s, f, off, n) == \A v \in Virtual(f) : mem[(v + off) % Word] \in Due(s, f, n, v)
Records(s) ==
  \A v \in Virtual(FileOf(s)) :
    LET a == (v + info[s].phys_virt_offset) % Word
    IN a \in Region(s) /\ mem[a] \in Expected(s, v)

(* The image in hand is complete up to the segment the loop is at, those   *)
(* recorded are complete, and their regions hold all of them.              *)
LoadInv ==
  /\ pc = "memcpy" => Holds(slot, Image, Offset, seg)
  /\ \A s \in Recorded : Records(s)

LEMMA InitLoadInv == Init => LoadInv
BY DEF Init, LoadInv, Recorded

(* A step that writes no cell of a recorded region leaves what is there.   *)
LEMMA RecordsKept ==
  ASSUME NEW s, Records(s), info'[s] = info[s], UNCHANGED archive,
         \A a \in Region(s) : mem'[a] = mem[a]
  PROVE  Records(s)'
<1>1. FileOf(s)' = FileOf(s) /\ Region(s)' = Region(s)
  BY FilesKept DEF Region, Cells
<1>2. \A v : Expected(s, v)' = Expected(s, v)
  BY <1>1 DEF Expected
<1> QED BY <1>1, <1>2 DEF Records, Virtual, Bounds

(* Two addresses keep their distance in the region.                        *)
LEMMA Shifted ==
  ASSUME NEW d \in Nat, NEW lo \in Nat, NEW u \in Nat, NEW v \in Nat, lo <= u, lo <= v, NEW n \in Nat
  PROVE  v \in u .. u + n - 1 <=> d + (v - lo) \in d + (u - lo) .. d + (u - lo) + n - 1
OBVIOUS

LEMMA VirtualPlace ==
  ASSUME TypeInv, RegionFits, pc \in Unpacking, NEW v \in Virtual(Image)
  PROVE  /\ v \in Nat /\ Vaddr.min <= v /\ v < Vaddr.max /\ Vaddr.min \in Nat /\ Vaddr.max \in Nat
         /\ (v + Offset) % Word = dest + (v - Vaddr.min) /\ dest + (v - Vaddr.min) \in Addr
<1>1. Vaddr.min \in Nat /\ Vaddr.max \in Nat
  BY RegionRight
<1>2. Virtual(Image) = Vaddr.min .. Vaddr.max - 1
  BY DEF Virtual, Vaddr
<1>3. v \in Nat /\ Vaddr.min <= v /\ v < Vaddr.max
  BY <1>1, <1>2
<1> QED BY <1>1, <1>3, AddressPlace

(* What the zeroing leaves: nothing is due but zeros.                      *)
LEMMA Zeroed ==
  ASSUME TypeInv, RegionFits, Memset
  PROVE  Holds(slot, Image, Offset, 1)'
<1>1. pc \in Unpacking /\ UNCHANGED <<archive, file, slot, dest>>
  BY DEF Memset, input, Unpacking
<1>2. Image' = Image /\ Vaddr' = Vaddr /\ Offset' = Offset
  BY <1>1 DEF Image, Vaddr, Offset
<1> SUFFICES ASSUME NEW v \in Virtual(Image) PROVE mem'[(v + Offset) % Word] \in Due(slot, Image, 1, v)
  BY <1>1, <1>2 DEF Holds, Virtual, Due
<1>3. v \in Nat /\ Vaddr.min <= v /\ v < Vaddr.max /\ Vaddr.min \in Nat /\ Vaddr.max \in Nat
  BY <1>1, VirtualPlace
<1>4. (v + Offset) % Word = dest + (v - Vaddr.min) /\ dest + (v - Vaddr.min) \in Addr
  BY <1>1, VirtualPlace
<1>5. dest + (v - Vaddr.min) \in dest .. dest + (Vaddr.max - Vaddr.min) - 1
  BY <1>3, Words DEF TypeInv
<1>6. mem'[(v + Offset) % Word] = Zero
  BY <1>1, <1>4, <1>5, Unpacked DEF Memset
<1>7. DOMAIN Image.phdrs \subseteq Nat \ {0}
  BY <1>1, ImageRight
<1> QED BY <1>6, <1>7 DEF Due

(* A turn of the loop makes its segment complete, and keeps what it does   *)
(* not cover.                                                              *)
LEMMA Copied ==
  ASSUME TypeInv, RegionFits, Memcpy, Holds(slot, Image, Offset, seg)
  PROVE  Holds(slot, Image, Offset, seg)'
<1> DEFINE h == Image.phdrs[seg]
           d == (h.vaddr + Offset) % Word
<1>1. pc \in Unpacking /\ UNCHANGED <<archive, file, slot, dest>> /\ seg' = seg + 1 /\ seg \in Nat
  BY DEF Memcpy, input, Unpacking, TypeInv
<1>2. Image' = Image /\ Vaddr' = Vaddr /\ Offset' = Offset
  BY <1>1 DEF Image, Vaddr, Offset
<1>3. seg \in DOMAIN Image.phdrs /\ DOMAIN Image.phdrs \subseteq Nat
  BY <1>1, ImageRight DEF Memcpy, TypeInv
<1> SUFFICES ASSUME NEW v \in Virtual(Image)
             PROVE  mem'[(v + Offset) % Word] \in Due(slot, Image, seg + 1, v)
  BY <1>1, <1>2 DEF Holds, Virtual, Due
<1> DEFINE a == (v + Offset) % Word
           is(n) == {i \in DOMAIN Image.phdrs : i < n /\ Covers(Image.phdrs[i], v)}
<1>4. is(seg + 1) = IF Covers(h, v) THEN is(seg) \union {seg} ELSE is(seg)
  BY <1>1, <1>3
<1>5. mem[a] \in Due(slot, Image, seg, v)
  BY DEF Holds
<1>6. /\ v \in Nat /\ Vaddr.min <= v /\ v < Vaddr.max /\ Vaddr.min \in Nat /\ Vaddr.max \in Nat
      /\ dest \in Nat
  BY <1>1, VirtualPlace, Words DEF TypeInv
<1>7. a = dest + (v - Vaddr.min) /\ a \in Addr
  BY <1>1, VirtualPlace
<1>8. CASE ~Covers(h, v)
  <2>1. mem'[a] = mem[a]
    <3>1. CASE h.load
      <4>1. a \notin Cells(d, h.filesz)
        <5>1. /\ h.vaddr \in Nat /\ h.filesz \in Nat /\ (h.filesz = 0 => Cells(d, h.filesz) = {})
              /\ h.filesz # 0 => /\ Vaddr.min <= h.vaddr /\ d = dest + (h.vaddr - Vaddr.min)
                                 /\ Cells(d, h.filesz) = d .. d + h.filesz - 1
          BY <1>1, <1>3, <3>1, SegmentPlace
        <5>2. v \notin h.vaddr .. h.vaddr + h.filesz - 1
          BY <1>8, <3>1 DEF Covers
        <5> HIDE DEF h, a, d
        <5>3. CASE h.filesz # 0
          <6>1. a \notin d .. d + h.filesz - 1
            <7> DEFINE lo == Vaddr.min
                       u == h.vaddr
                       n == h.filesz
            <7>1. /\ dest \in Nat /\ lo \in Nat /\ u \in Nat /\ v \in Nat /\ n \in Nat /\ lo <= u /\ lo <= v
                  /\ a = dest + (v - lo) /\ d = dest + (u - lo) /\ v \notin u .. u + n - 1
              BY <1>6, <1>7, <5>1, <5>2, <5>3
            <7> HIDE DEF lo, u, n
            <7>2. v \in u .. u + n - 1 <=> dest + (v - lo) \in dest + (u - lo) .. dest + (u - lo) + n - 1
              BY <7>1, Shifted
            <7> QED BY <7>1, <7>2 DEF n
          <6> QED BY <5>1, <5>3, <6>1
        <5> QED BY <5>1, <5>3
      <4> QED BY <1>7, <3>1, <4>1 DEF Memcpy
    <3>2. CASE ~h.load
      BY <3>2 DEF Memcpy
    <3> QED BY <3>1, <3>2
  <2>2. is(seg + 1) = is(seg)
    BY <1>4, <1>8
  <2> QED BY <1>5, <2>1, <2>2 DEF Due
<1>9. CASE Covers(h, v)
  <2>1. h.load /\ v \in h.vaddr .. h.vaddr + h.filesz - 1
    BY <1>9 DEF Covers
  <2>2. a \in Cells(d, h.filesz) /\ (a - d) % Word = v - h.vaddr
    <3>1. /\ h.vaddr \in Nat /\ h.filesz \in Nat
          /\ h.filesz # 0 => /\ Vaddr.min <= h.vaddr /\ d = dest + (h.vaddr - Vaddr.min)
                             /\ Cells(d, h.filesz) = d .. d + h.filesz - 1
      BY <1>1, <1>3, <2>1, SegmentPlace
    <3> HIDE DEF h, a, d
    <3>2. d = dest + (h.vaddr - Vaddr.min) /\ Cells(d, h.filesz) = d .. d + h.filesz - 1
      BY <1>6, <2>1, <3>1
    <3>3. Vaddr.min <= h.vaddr /\ h.vaddr <= v /\ v <= h.vaddr + h.filesz - 1
      BY <1>6, <2>1, <3>1
    <3>4. a \in 0 .. Word - 1 /\ Word \in Nat \ {0}
      BY <1>7, Words
    <3>5. a - d = v - h.vaddr /\ d \in Nat
      <4> DEFINE lo == Vaddr.min
                 u == h.vaddr
      <4>1. /\ dest \in Nat /\ lo \in Nat /\ u \in Nat /\ v \in Nat /\ lo <= u /\ lo <= v
            /\ a = dest + (v - lo) /\ d = dest + (u - lo)
        BY <1>6, <1>7, <3>1, <3>2, <3>3
      <4> HIDE DEF lo, u
      <4>2. a - d = v - u /\ d \in Nat
        BY <4>1
      <4> QED BY <4>2 DEF u
    <3>6. a - d \in Nat /\ a - d < Word /\ a \in d .. d + h.filesz - 1
      BY <1>6, <3>1, <3>3, <3>4, <3>5
    <3>7. (a - d) % Word = a - d
      BY <3>4, <3>6, Remainder
    <3> QED BY <3>2, <3>5, <3>6, <3>7
  <2>3. mem'[a] = Byte(slot, seg, v - h.vaddr)
    BY <1>7, <2>1, <2>2 DEF Memcpy
  <2>4. seg \in is(seg + 1)
    BY <1>4, <1>9
  <2> QED BY <2>3, <2>4 DEF Due
<1> QED BY <1>8, <1>9

LEMMA NextLoadInv ==
  ASSUME Placement, Placement', FileInv, RegionFits, HeadersFit, LoadInv, [Next]_vars
  PROVE  LoadInv'
<1> USE DEF input
<1>1. /\ TypeInv /\ dest \in Nat /\ Word \in Nat \ {0} /\ PageSize \in Nat \ {0} /\ dest < Word
      /\ Addr = 0 .. Word - 1 /\ dest \in Addr
  BY Words DEF Placement, TypeInv
<1>2. ASSUME NEW s \in Recorded
      PROVE  Records(s) /\ \A a \in Region(s) : a \in Nat /\ a < dest
  BY <1>1, <1>2 DEF Placement, PlaceInv, LoadInv
(* Steps that record nothing and write nothing before dest.                *)
<1>3. ASSUME UNCHANGED <<archive, info>>, pc' # "memcpy" \/ Holds(slot, Image, Offset, seg)',
             \A a \in Addr : a < dest => mem'[a] = mem[a]
      PROVE  LoadInv'
  <2>1. ASSUME NEW s \in Recorded PROVE Records(s)'
    <3>1. \A a \in Region(s) : mem'[a] = mem[a]
      BY <1>1, <1>2, <1>3 DEF Region, Cells
    <3> QED BY <1>2, <1>3, <3>1, RecordsKept
  <2>2. Recorded' = Recorded
    BY <1>3 DEF Recorded
  <2> QED BY <1>3, <2>1, <2>2 DEF LoadInv
<1>4. CASE GetKernel \/ LoadElf \/ CheckFirst \/ NextUser \/ CheckImages
  <2>1. UNCHANGED <<archive, info, mem>> /\ pc' # "memcpy"
    BY <1>4 DEF GetKernel, LoadElf, CheckFirst, NextUser, CheckImages, Abort
  <2> QED BY <1>3, <2>1
<1>5. CASE Memset
  <2>1. pc \in Unpacking /\ UNCHANGED <<archive, info>> /\ seg' = 1
    BY <1>5 DEF Memset, Unpacking
  <2>2. Holds(slot, Image, Offset, seg)'
    BY <1>1, <1>5, <2>1, Zeroed DEF Holds
  <2>3. ASSUME NEW a \in Addr, a < dest PROVE mem'[a] = mem[a]
    <3>1. a \notin Cells(dest, (Vaddr.max - Vaddr.min) % Word)
      BY <1>1, <2>1, <2>3, Unpacked
    <3> QED BY <1>5, <3>1 DEF Memset
  <2> QED BY <1>3, <2>1, <2>2, <2>3
<1>6. CASE Memcpy
  <2>1. pc \in Unpacking /\ UNCHANGED <<archive, info>> /\ Holds(slot, Image, Offset, seg)
    BY <1>6 DEF Memcpy, Unpacking, LoadInv
  <2>2. Holds(slot, Image, Offset, seg)'
    BY <1>1, <1>6, <2>1, Copied
  <2>3. ASSUME NEW a \in Addr, a < dest PROVE mem'[a] = mem[a]
    <3>1. seg \in DOMAIN Image.phdrs
      BY <1>1, <1>6, <2>1, ImageRight DEF Memcpy, TypeInv
    <3>2. CASE Image.phdrs[seg].load
      <4>1. Cells((Image.phdrs[seg].vaddr + Offset) % Word, Image.phdrs[seg].filesz)
              \subseteq dest .. dest + ImageSize - 1
        BY <1>1, <2>1, <3>1, <3>2, Unpacked
      <4>2. a \notin Cells((Image.phdrs[seg].vaddr + Offset) % Word, Image.phdrs[seg].filesz)
        BY <1>1, <2>3, <4>1
      <4> QED BY <1>6, <3>2, <4>2 DEF Memcpy
    <3>3. CASE ~Image.phdrs[seg].load
      BY <1>6, <3>3 DEF Memcpy
    <3> QED BY <3>2, <3>3
  <2> QED BY <1>3, <2>1, <2>2, <2>3
<1>7. CASE KeepHeaders
  <2>1. /\ pc = "keep_headers" /\ pc' = "next_user" /\ UNCHANGED <<archive, info>>
        /\ mem' = [a \in Addr |-> IF a \in Cells(dest, HeaderSize) THEN Header(slot) ELSE mem[a]]
    BY <1>7 DEF KeepHeaders
  <2>2. HeaderSize \in Nat /\ dest + HeaderSize <= Word
    BY <1>1, <2>1, ImageRight DEF HeadersFit, HeaderSize
  <2>3. Cells(dest, HeaderSize) = dest .. dest + HeaderSize - 1
    BY <1>1, <2>2, CellsAre
  <2>4. ASSUME NEW a \in Addr, a < dest PROVE mem'[a] = mem[a]
    <3>1. a \notin Cells(dest, HeaderSize)
      BY <1>1, <2>2, <2>3, <2>4
    <3> QED BY <2>1, <3>1
  <2> QED BY <1>3, <2>1, <2>4
<1>8. CASE RecordInfo
  <2>1. /\ pc = "memcpy" /\ pc' # "memcpy" /\ UNCHANGED <<archive, file, mem, slot>>
        /\ seg > Len(Image.phdrs) /\ seg \in Nat /\ slot \in 0..MaxUserImages
        /\ info' = [info EXCEPT ![slot] = NewInfo] /\ DOMAIN info = 0..MaxUserImages
    BY <1>1, <1>8 DEF RecordInfo, TypeInv
  <2>2. /\ info'[slot].phys_virt_offset = Offset /\ info'[slot].phys_region_start = dest
        /\ info'[slot].phys_region_end = (dest + ImageSize) % Word
        /\ \A s \in 0..MaxUserImages : s # slot => info'[s] = info[s]
    BY <2>1 DEF NewInfo, Offset
  <2>3. Recorded' \subseteq Recorded \union {slot}
    BY <2>2 DEF Recorded
  <2>4. ASSUME NEW s \in Recorded, s # slot PROVE Records(s)'
    <3>1. info'[s] = info[s]
      BY <2>2, <2>4 DEF Recorded
    <3> QED BY <1>2, <2>1, <3>1, RecordsKept
  <2>5. Image = FileOf(slot) /\ FileOf(slot)' = FileOf(slot)
    <3>1. Image = FileOf(slot)
      BY <2>1, ImageIsFile DEF Unpacking
    <3> QED BY <2>1, <3>1, FilesKept DEF FileOf
  <2>6. /\ ImageSize \in Nat /\ Vaddr.min \in Nat /\ Vaddr.max \in Nat /\ Vaddr.max - Vaddr.min <= ImageSize
        /\ dest + ImageSize + PageSize < Word
    BY <1>1, <2>1, RegionRight DEF Unpacking
  <2>7. (dest + ImageSize) % Word = dest + ImageSize
    <3>1. dest + ImageSize \in Int /\ 0 <= dest + ImageSize /\ dest + ImageSize < Word
      BY <1>1, <2>6
    <3> QED BY <1>1, <3>1, Remainder
  <2>8. Cells(dest, ImageSize) = dest .. dest + ImageSize - 1
    BY <1>1, <2>6, CellsAre
  <2>9. Region(slot)' = Cells(dest, ImageSize)
    <3>1. (info'[slot].phys_region_end - info'[slot].phys_region_start) % Word = ImageSize
      <4>1. info'[slot].phys_region_end - info'[slot].phys_region_start = ImageSize
        BY <1>1, <2>2, <2>6, <2>7
      <4>2. ImageSize \in Int /\ 0 <= ImageSize /\ ImageSize < Word
        BY <1>1, <2>6
      <4>3. ImageSize % Word = ImageSize
        BY <1>1, <4>2, Remainder
      <4> QED BY <4>1, <4>3
    <3> QED BY <2>1, <2>2, <3>1 DEF Region, Cells
  <2>10. ASSUME NEW v \in Virtual(Image) PROVE (v + Offset) % Word \in dest .. dest + ImageSize - 1
    <3>1. v \in Nat /\ Vaddr.min <= v /\ v < Vaddr.max
      BY <1>1, <2>1, VirtualPlace DEF Unpacking
    <3>2. (v + Offset) % Word = dest + (v - Vaddr.min)
      BY <1>1, <2>1, VirtualPlace DEF Unpacking
    <3> QED BY <1>1, <2>6, <3>1, <3>2
  <2>11. ASSUME NEW v \in Virtual(Image) PROVE mem[(v + Offset) % Word] \in Expected(slot, v)
    <3>1. mem[(v + Offset) % Word] \in Due(slot, Image, seg, v)
      BY <2>1 DEF LoadInv, Holds
    <3>2. \A i \in DOMAIN Image.phdrs : i < seg
      BY <1>1, <2>1, ImageRight DEF Unpacking
    <3>3. Due(slot, Image, seg, v) = Expected(slot, v)
      BY <2>5, <3>2 DEF Due, Expected
    <3> QED BY <3>1, <3>3
  <2>12. Records(slot)'
    <3>1. Virtual(FileOf(slot))' = Virtual(Image)
      BY <2>5 DEF Virtual, Bounds
    <3>2. \A v : Expected(slot, v)' = Expected(slot, v)
      BY <2>1, <2>5 DEF Expected
    <3> QED BY <2>1, <2>2, <2>8, <2>9, <2>10, <2>11, <3>1, <3>2 DEF Records
  <2> QED BY <2>1, <2>3, <2>4, <2>12 DEF LoadInv
<1>9. CASE UNCHANGED vars
  <2>1. UNCHANGED <<pc, archive, info, mem, slot, file, dest, seg>>
    BY <1>9 DEF vars
  <2>2. Holds(slot, Image, Offset, seg)' = Holds(slot, Image, Offset, seg)
    BY <2>1 DEF Holds, Image, Offset, Vaddr
  <2> QED BY <1>3, <2>1, <2>2 DEF LoadInv
<1> QED BY <1>4, <1>5, <1>6, <1>7, <1>8, <1>9 DEF Next, Done

(* At each address of the kernel and of every user image is what its ELF   *)
(* file says when main() goes on, for any files, any number of segments,   *)
(* overlapping ones too, and any number of user images, as long as nothing *)
(* wraps round the address space.                                          *)
THEOREM MemoryLoaded == Spec /\ []RegionFits /\ []HeadersFit => []LoadedRight
<1> DEFINE Inv == Placement /\ FileInv /\ LoadInv
<1>1. Init => FileInv /\ LoadInv
  BY InitFileInv, InitLoadInv
<1>2. Placement /\ Placement' /\ FileInv /\ LoadInv /\ RegionFits /\ HeadersFit /\ [Next]_vars
        => (FileInv /\ LoadInv)'
  BY NextFileInv, NextLoadInv DEF Placement
<1>3. LoadInv => LoadedRight
  <2> SUFFICES ASSUME LoadInv, NEW s \in Recorded,
                      NEW v \in Bounds(FileOf(s), FALSE).min .. Bounds(FileOf(s), FALSE).max - 1
               PROVE  mem[(v + info[s].phys_virt_offset) % Word] \in Expected(s, v)
    BY DEF LoadedRight
  <2> QED BY DEF LoadInv, Records, Virtual
<1> QED BY <1>1, <1>2, <1>3, PlacementInvariant, PTL DEF Spec

(***************************************************************************)
(* Hashes                                                                  *)
(***************************************************************************)
(* No byte of a digest is 0.                                               *)
NoNul == \A a \in Archives : \A n \in DOMAIN a : \A k \in 1..HashLen : a[n].digest[k] # 0

(* Where no byte is 0, strncmp() compares all of them.                     *)
LEMMA StrncmpIsEquality ==
  ASSUME NEW n \in Nat, NEW a \in [1..n -> Nat], NEW b \in [1..n -> Nat],
         \A k \in 1..n : a[k] # 0, Strncmp0(a, b, n)
  PROVE  a = b
<1> DEFINE T == {k \in 1..n : a[k] # b[k]}
<1>1. ASSUME T # {} PROVE FALSE
  <2>1. T \subseteq Nat
    OBVIOUS
  <2>2. PICK k \in T : \A j \in T : k <= j
    BY <1>1, <2>1, Least
  <2>3. \A j \in 1..k-1 : a[j] = b[j] /\ a[j] # 0
    BY <2>2
  <2> QED BY <2>2, <2>3 DEF Strncmp0
<1> QED BY <1>1

(* The hash of an image in hand has been compared.                         *)
HashInv ==
  /\ pc \in Unpacking => HashAccepted
  /\ HashesSame

LEMMA HashesKept ==
  ASSUME UNCHANGED <<archive, info>>
  PROVE  HashesSame => HashesSame'
<1>1. Recorded' = Recorded
  BY DEF Recorded
<1> QED BY <1>1, FilesKept DEF HashesSame

LEMMA NextHashInv ==
  ASSUME NoNul, TypeInv, HeaderInv, FileInv, HashInv, [Next]_vars
  PROVE  HashInv'
<1> USE DEF input
<1>1. CASE GetKernel
  <2>1. HashesSame'
    BY <1>1, HashesKept DEF GetKernel, HashInv
  <2> QED BY <1>1, <2>1 DEF GetKernel, Abort, HashInv, Unpacking
<1>2. CASE LoadElf \/ Memset \/ Memcpy
  <2>1. UNCHANGED <<archive, info, file, slot>> /\ pc \in Unpacking \union {"load_elf"}
    BY <1>2 DEF LoadElf, Memset, Memcpy, Unpacking
  <2>2. HashAccepted' = HashAccepted
    BY <2>1 DEF HashAccepted, HashFile, GetFile, Image
  <2>3. pc' \in Unpacking => HashAccepted
    BY <1>2 DEF LoadElf, Memset, Memcpy, Abort, HashInv, Unpacking
  <2>4. HashesSame'
    BY <2>1, HashesKept DEF HashInv
  <2> QED BY <2>1, <2>2, <2>3, <2>4, HashesKept DEF HashInv
<1>3. CASE RecordInfo
  <2>1. /\ pc = "memcpy" /\ UNCHANGED <<archive, slot>> /\ pc' \in {"check_first", "keep_headers"}
        /\ info' = [info EXCEPT ![slot] = NewInfo]
    BY <1>3 DEF RecordInfo
  <2>2. \A s \in 0..MaxUserImages : s # slot => info'[s] = info[s]
    BY <2>1 DEF TypeInv
  <2>3. \A s \in Recorded' : s \in Recorded \/ s = slot
    BY <2>2 DEF Recorded
  <2>4. CheckHash => HashFile # 0 /\ archive[HashFile].digest = Image.digest
    <3> SUFFICES ASSUME CheckHash PROVE HashFile # 0 /\ archive[HashFile].digest = Image.digest
      OBVIOUS
    <3>1. HashFile # 0 /\ Strncmp0(archive[HashFile].digest, Image.digest, HashLen)
      BY <2>1 DEF HashInv, HashAccepted, Unpacking
    <3>2. HashFile \in DOMAIN archive
      BY <3>1, FileFound DEF HashFile, TypeInv
    <3>3. /\ archive[HashFile].digest \in [1..HashLen -> Nat] /\ Image.digest \in [1..HashLen -> Nat]
          /\ HashLen \in Nat
      BY <2>1, <3>2, ImageRight, ImageAssumption DEF IsFile, TypeInv, Unpacking
    <3>4. \A k \in 1..HashLen : archive[HashFile].digest[k] # 0
      BY <3>2 DEF NoNul, TypeInv
    <3> QED BY <3>1, <3>3, <3>4, StrncmpIsEquality
  <2>5. Image = FileOf(slot)
    BY <2>1, ImageIsFile DEF Unpacking
  <2>6. ASSUME NEW s \in Recorded', CheckHash
        PROVE  LET h == GetFile(IF s = 0 THEN "kernel.bin" ELSE "app.bin")
               IN h # 0 /\ archive[h].digest = FileOf(s).digest
    <3>1. CASE s \in Recorded
      BY <2>6, <3>1 DEF HashInv, HashesSame
    <3>2. CASE s = slot
      BY <2>4, <2>5, <2>6, <3>2 DEF HashFile
    <3> QED BY <2>3, <2>6, <3>1, <3>2
  <2>7. HashesSame'
    BY <2>1, <2>6, FilesKept DEF HashesSame
  <2> QED BY <2>1, <2>7 DEF HashInv, Unpacking
<1>4. CASE KeepHeaders \/ CheckFirst \/ CheckImages
  <2>1. UNCHANGED <<archive, info>> /\ pc' \notin Unpacking \union {"load_elf"}
    BY <1>4 DEF KeepHeaders, CheckFirst, CheckImages, Abort, Unpacking
  <2> QED BY <2>1, HashesKept DEF HashInv
<1>5. CASE NextUser
  <2>1. UNCHANGED <<archive, info>> /\ pc' \in {"load_elf", "main"}
    BY <1>5 DEF NextUser
  <2>2. HashesSame'
    BY <2>1, HashesKept DEF HashInv
  <2> QED BY <2>1, <2>2 DEF HashInv, Unpacking
<1>6. CASE UNCHANGED vars
  <2>1. UNCHANGED <<pc, archive, info, file, slot>>
    BY <1>6 DEF vars
  <2>2. HashAccepted' = HashAccepted
    BY <2>1 DEF HashAccepted, HashFile, GetFile, Image
  <2> QED BY <2>1, <2>2, HashesKept DEF HashInv
<1> QED BY <1>1, <1>2, <1>3, <1>4, <1>5, <1>6 DEF Next, Done

(* Digests without a byte 0 are compared in full: only images whose hash   *)
(* file says what get_hash() found are placed.                             *)
THEOREM HashesChecked == ASSUME NoNul PROVE Spec => []HashesSame
<1> DEFINE Inv == TypeInv /\ HeaderInv /\ FileInv /\ HashInv
<1>1. Init => Inv
  <2>1. Init => HashInv
    BY DEF Init, HashInv, HashesSame, Recorded, Unpacking
  <2> QED BY <2>1, InitTypeInv, InitHeaderInv, InitFileInv
<1>2. Inv /\ [Next]_vars => Inv'
  BY NextTypeInv, NextHeaderInv, NextFileInv, NextHashInv
<1>3. Inv => HashesSame
  BY DEF HashInv
<1> QED BY <1>1, <1>2, <1>3, PTL DEF Spec
=============================================================================
