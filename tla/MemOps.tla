------------------------------- MODULE MemOps -------------------------------
(***************************************************************************)
(* string.c: memset() and memcpy() as the accesses they make, word by word *)
(* where alignment allows, and the string comparisons.                     *)
(*                                                                         *)
(* An access is [at, size]: "size" bytes at offset "at" from the first     *)
(* byte, both of the destination and, for memcpy(), of the source.  The    *)
(* regions do not overlap (restrict), so the order is of no account.       *)
(***************************************************************************)
EXTENDS Integers, Sequences

CONSTANTS
  BytePerWord,   \* BYTE_PER_WORD, 4 or 8
  ByteVals       \* the values of a byte, 256 scaled down
ASSUME MemAssumption == BytePerWord \in {4, 8} /\ ByteVals \in Nat \ {0, 1}

Smaller(a, b) == IF a < b THEN a ELSE b
Bytes(from, to) == {[at |-> k, size |-> 1] : k \in from .. to - 1}

(* Byte by byte until the destination is aligned, unit by unit as long as  *)
(* a whole one is left, and byte by byte for the rest.                     *)
HeadBytes(d, n, unit) == Smaller((unit - (d % unit)) % unit, n)
Units(d, n, unit) == (n - HeadBytes(d, n, unit)) \div unit
Accesses(d, n, unit) ==
  LET head == HeadBytes(d, n, unit)
      units == Units(d, n, unit)
  IN Bytes(0, head)
       \union {[at |-> head + unit * k, size |-> unit] : k \in 0 .. units - 1}
       \union Bytes(head + unit * units, n)

MemsetAccesses(d, n) == Accesses(d, n, BytePerWord)

(* The filler, -1 / 255 times the byte, and byte k of it.                  *)
Power[k \in 0..8] == IF k = 0 THEN 1 ELSE ByteVals * Power[k-1]
Filler(c) == ((Power[BytePerWord] - 1) \div (ByteVals - 1)) * (c % ByteVals)
FillerByte(c, k) == (Filler(c) \div Power[k]) % ByteVals

(* What memset(d, c, n) leaves at offset a of the destination.             *)
Memset(d, c, n, a) ==
  LET w == CHOOSE w \in MemsetAccesses(d, n) : a \in w.at .. w.at + w.size - 1
  IN IF w.size = 1 THEN c % ByteVals ELSE FillerByte(c, a - w.at)

(* Mutant: the unit is left at a word, whatever the distance of the two.   *)
CopyUnitWord(d, s) == BytePerWord

(* The copy unit is halved until both pointers can be aligned to it.       *)
CopyUnit(d, s) ==
  CHOOSE u \in {1, 2, 4, 8} :
    /\ u <= BytePerWord
    /\ u = 1 \/ d % u = s % u
    /\ \A v \in {2, 4, 8} : u < v /\ v <= BytePerWord => d % v # s % v

MemcpyAccesses(d, s, n) == Accesses(d, n, CopyUnit(d, s))

(* Strings end in a 0.                                                     *)
Strlen(str) == CHOOSE k \in 0 .. Len(str) - 1 : str[k+1] = 0 /\ \A j \in 1..k : str[j] # 0

(* The difference at the first byte that differs or ends both strings.     *)
Strcmp(a, b) ==
  LET k == CHOOSE k \in 1..Len(a) :
             /\ a[k] # b[k] \/ a[k] = 0
             /\ \A j \in 1 .. k - 1 : a[j] = b[j] /\ a[j] # 0
  IN a[k] - b[k]

(* The same, but of n bytes at the most.                                   *)
Strncmp(a, b, n) ==
  LET stops == {k \in 1..n : /\ a[k] # b[k] \/ a[k] = 0
                             /\ \A j \in 1 .. k - 1 : a[j] = b[j] /\ a[j] # 0}
  IN IF stops = {} THEN 0 ELSE LET k == CHOOSE k \in stops : TRUE IN a[k] - b[k]

-----------------------------------------------------------------------------
(* What the accesses must be, for offsets from 0 to n - 1: every byte is   *)
(* written by one access and no byte outside is, and each is aligned to    *)
(* its size, at the destination d and, where there is one, the source s.   *)
Covers(accesses, n) ==
  /\ \A w \in accesses : w.at >= 0 /\ w.at + w.size <= n
  /\ \A a \in 0 .. n - 1 : \E w \in accesses :
       /\ w.at <= a /\ a < w.at + w.size
       /\ \A v \in accesses : v.at <= a /\ a < v.at + v.size => v = w
AlignedAt(accesses, p) == \A w \in accesses : (p + w.at) % w.size = 0
=============================================================================
